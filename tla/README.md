# A TLA+ development of N.O.R.A

N.O.R.A is one Go process with one SQLite database: it probes the services of a
home lab, scans its hosts and containers, takes events by webhook, turns
readings into events, and tells its users by mail and push. This directory
models the parts of it that are hard to test, checks them with TLC and proves
what matters most with TLAPS. Paths are relative to `src/`.

## 1. The system

| component | state it keeps | operations | talks to |
|---|---|---|---|
| check scheduler (`internal/monitor/scheduler.go`) | `active` map of cancel functions, one-slot `syncCh`, one goroutine per enabled check with a private copy of its row | `Start`, `syncChecks`, `TriggerSync`, `cancelAll`, `RunAll` | check rows, events |
| checkers (`ping.go`, `url.go`, `ssl.go`, `dns.go`) | none; the copy of the row they are given | `Run`: probe, capture a DNS baseline, write an event, write the status | check rows, events |
| check handlers (`internal/api/checks.go`) | none | create, update, delete, run, reset baseline | check rows, scheduler |
| rules engine (`internal/rules`, `internal/api/rules.go`) | cache of the enabled rules with a 30 s lifetime | `Evaluate`, `InvalidateCache`, CRUD handlers | rules, events, mail, push, webhook |
| event repository wrapper (`notifying_repo.go`) | none | `Create`: store, then evaluate in a goroutine | events, rules engine |
| change detection (`scanner/metrics/events.go`, `docker_health.go`, `docker_metrics.go`, `scanner/snapshot/*`) | last level or value by host, container or snapshot key, in memory or in the table `snapshots` | measure, compare, remember, announce | events, snapshots |
| rollups and retention (`internal/jobs/rollup.go`, `retention.go`, `resource_rollup.go`) | event counts by month, hourly and daily readings | aggregate, purge | events, readings |
| container discovery (`internal/infra/docker_*.go`, `scanner/discovery/docker.go`) | `discovered_containers` rows | watch, scan, reconcile, enrich | links, apps, events |
| scan scheduler (`internal/scanner/scheduler.go`, `internal/jobs/scan.go`) | scanners by entity type, three pass tickers and a daily one, pollers with the credentials they were made with | discovery (1 h), metrics (60 s), snapshot (30 min), scans and discoveries on request, job registry | components, events |
| image checks (`scanner/daily/image_update.go`, `infra/docker_registry.go`) | digests and verdict on the container rows | inspect, ask the registry, write | containers, registry |
| ingest (`internal/ingest`, `api/ingest.go`) | one rate window per token | authenticate, limit, map, store | apps, events |
| API polling (`scanner/discovery/api_poll.go`) | `app_metric_snapshots` | poll hourly and on request | apps, events |
| links (`repo/links.go`, `api/docker_discovery.go`, `api/infra_components.go`, `infra/traefik_discovery.go`) | one parent per (type, id), beside foreign keys | set, set if none, remove | every kind of row |
| app templates (`internal/apptemplate`, `api/apptemplates.go`) | files in two directories, a map behind a mutex | export, load, reload, create, delete | reconciler, ingest |
| digest registry (`internal/profile`, `repo/digest_registry.go`) | rows of `digest_registry` | reconcile, switch, delete | templates |
| digest (`internal/jobs/digest.go`, `api/digest.go`) | settings; one goroutine and its ticker | build, send, on schedule and on request | everything it reports on, SMTP |
| migrations (`repo/migrate.go`) | `schema_migrations` | apply the pending files in order | the database |
| accounts, push, read-only pages, frontend | rows of their own | handlers | the database, push services |

Everything meets in the database: no statement of one component is in a
transaction with a statement of another, so what a component has read may be old
when it writes. Components call each other in few places: handlers signal
the check scheduler through a channel, the event repository calls the rules
engine, rule handlers invalidate its cache, the container watcher calls its
hooks, and whoever changes templates asks for a reload.

Hard behaviours: goroutines that hold private copies of rows; check-then-act on
the database; caches invalidated by hand; passes that may overlap themselves;
state remembered before, or after, the event that reports it; purging that races
with aggregation; tickers that start anew with the process; goroutines per event
that reorder writes; hosts and mail servers that hang; requests of several
statements that meet deletions; calendar arithmetic. `PROJECT.json` lists them
one by one, with the line where each bites and the properties that would notice.

What makes each part correct: the loops that run are those of the enabled checks,
and only they write; an outage is announced; rules are in force once their edit
was answered; events tell what is remembered and nothing twice; what is counted
is what was logged, and what was not counted is not purged; the container table
agrees with the daemon when nothing changes; a pass ends whatever a host does,
and a status that stays due is shown; the flag of an image tells the truth in the
end; no request passes beyond its limit and no sender is shut out; an `app_id`
names an app that exists and discovery does not undo what a user linked; the map
of templates is that of the files and the table that of the map; a digest goes
out once per period and is of that period.

## 2. Plan

| # | module | abstract specification | runs | theorems in |
|---|---|---|---|---|
| 1 | `MonitorScheduler` | | `monitor_*` | `MonitorSchedulerProofs` |
| 2 | `RulesEngine` | `RuleBook` | `rules_*` | `RulesEngineProofs` |
| 3 | `Detectors` | | `detect_serial` | `DetectorsProofs` |
| 4 | `Rollups` | | `rollups` | `RollupsProofs` |
| 5 | `ContainerDiscovery` | | `containers` | `ContainerDiscoveryProofs` |
| 6 | `ScanScheduler` | | `polls` | `PollsProofs` |
| 7 | `AppIngest` | | `polls` | `PollsProofs` |
| 8 | `ImageUpdates` | | `polls` | `PollsProofs` |
| 9 | `ComponentLinks` | | `tables` | `ComponentLinksProofs` |
| 10 | `DigestRegistry` | | `tables` | `TablesProofs` |
| 11 | `Digest`, `DigestReport` | | `tables`, `digest_week` | `TablesProofs` |

The order was: first what runs all the time and decides whether the operator is
told of an outage (1 to 3), then what can lose data (4, 5), then what waits for
others to answer (6 to 8) and what is shared through tables (9 to 11). All of it
is done. Composition: `RulesEngine` takes the events the others write; the passes
of `ScanScheduler` drive `Detectors` and `ContainerDiscovery`, which model what
one scanner does in them. `MC_Polls` and `MC_Tables` put components that
share nothing into one instance each: the first state chooses one of them, the
`focus`, which then moves alone, so that one run checks each in all its behaviours.

## 3. Modules

### MonitorScheduler

`rows` is the table `monitor_checks` with the fields that matter (life, enabled,
target, status, baseline); `notified` the last status an event told of a check;
`world` what each target answers. `start`, `syncCh`, `active` and `ctxDone` are
the scheduler's own state. `proc` holds the goroutines: each loop of
`runCheckLoop`, each HTTP request and each `RunAll`, with the private copy of the
row it works on. A run of a checker takes the code's steps one by one: probe,
baseline, event, status; every database call may fail, and a loop whose context
is cancelled gets errors from its probe and from every call (`Outcomes`). The
handlers follow `checks.go` statement by statement, so a lost update between
`Get` and `Update` is a behaviour. `CancelContext` models the context of `Start`;
`main` keeps that context for the life of the process.

A target answers with one of `Answers`, or a lookup without a record (`Recordless`),
which is up, or warn once there is a baseline, and never becomes one; or not at all.
Merged: reading a row and probing are one step; the degrees of an answer that is no
lookup, the status of a URL or the days of a certificate, are one. Left out:
`RunAllByType`, which nothing calls, and the refusal to delete a check that a component
owns.

### RulesEngine and RuleBook

`cache`, `lock` and the pc of each event are `enabledRules` and `Evaluate`: the
mutex is held across `ListEnabled`. `req` are the rule handlers, with the row
they carry from `Get` to `Update`. `fired` records which rule fired for which
event. `Paths` says through which repository an event is stored: the wrapped one
or the one `main.go` built before. Matching is membership of the event's kind in
the rule's kinds; what a delivery does is left out.

`RuleBook` states the promise without cache or lock: there is one set of rules in
force, a change comes into force at the latest when the last handler at work has
answered, and an event is judged by what is in force. `RulesEngine` implements it
with `seen` mapped to the cache, or the list that a load is about to put there,
or the table; `open` to the handlers between write and answer.

### Detectors

One module for five detectors that differ in what they remember, when, and what
they tell (`Kind`). A key is one thing a detector remembers: the CPU or memory of
a host or container, the state of a HEALTHCHECK, a router, a disk, a pool, a
certificate. `known` is the memory, `announced` the level the last event in the table
told, `base` the level a detector began with as long as it has written no event,
`faulty` says a call failed, or the process ended between remembering and
announcing, since; `pass` are the passes at work. `Begin`, `Probe`, `Recall`,
`Swap`, `Keep`, `Tell` and `Forget` follow each detector's own order of reading,
remembering and announcing: trackers remember and then announce, the container
poller announces and then remembers, snapshots recall and remember in the
database, where the row with the latest `captured_at` counts. Storage pools and
certificates take that time before they probe, disks after (`Stamped`). `Restart`
empties what is in memory, `Forget` what is known of a container that stopped;
neither touches the events, so `announced` stays. Any number of passes may
overlap; the properties are about one at a time. With two of them a crossing is
announced twice or a stale level stays behind, as the hazards say.

Left out: versions, updates, backups and disk health, the table of readings, and
the app an event is filed under.

### Rollups

`now` counts hours. `due` are the scheduled jobs the running process still has to
run in this hour: the discovery pass of each hour brings the hourly rollup,
midnight the daily and, on the first, the monthly one, two o'clock the purge of
events. They run in any order within the hour, any of them may fail at any point,
and each may be requested at any time from the job registry. `Stop` drops what
was due. `logged` remembers every event, `db` those not purged; an event is its
level and its hour, one of each. `readings` and `hourly` are the hours with rows,
`daily` remembers from which hours a row was computed.

Left out: the averages themselves, `event_rollup.go`, the purge of rule
executions. Scans that last longer than their hour are excluded by `Tick`.

### ContainerDiscovery

`world` is what the Docker daemon has under each name, `rows` the table
`discovered_containers` of the local engine, keyed by name as its unique key is:
`Put` is the upsert. A container that is rebuilt has a new id under the old name,
and the daemon gives no id twice (`Held`). `DaemonStep` changes a container and
puts into `inflight` one upsert for each event that says something new, or none
when the watcher is not connected; `HandleEvent` is one goroutine of the
discovery hook, and they end in any order. `pass` are `ScanAll` at start-up and
`Discover`, statement by statement: the list, the rows known, one upsert per
container, and the marks, which `ScanAll` makes in one statement over the table
as it is then, and `Discover` row by row from what it had read. `gone` says that a
row it read was deleted since, so that its update finds nothing. `Delete` is the
handler and the clean-up job; `Boot` forgets what was in flight. `quiet` is not in
the code: the containers that, since the pass began, neither changed nor were
written by others, and of which none of its own writes failed.

Left out: events, links to apps and components, enrichment, suggestions, renamed
containers and Portainer.

### ScanScheduler

`device` are the rows of `infrastructure_components` (kind, enabled, credentials,
`last_status`), `host` what each host does at the moment (answers, answers in
part, is down, accepts a connection and says nothing) and which credentials it
takes. A pass has a slot: one for each ticker, which fires again when its pass
has ended, one for the job registry and one for requests, so that passes of one
bucket may overlap. In a pass every device has its own goroutine (`at`): read the
row, call, write the status; `Globals` are the jobs over all components that
follow `wg.Wait`. What a scanner makes of an answer is one operator per scanner
(`TraefikMetrics`, `SynologyDiscover`, ...), a set where the code's outcome is open:
the Traefik client's timeout is as long as the scan's deadline, so the context of
the write may have expired. `poller` is the Proxmox poller a metrics scanner
makes once and keeps, with the credentials of that day. `EditRead` and `EditWrite`
are the PUT, which writes back the status it read.

Left out: readings and events of a scan (`Detectors` has them), the last run that
the registry keeps for its page.

### AppIngest

One app and its row: `Receive` reads it by token, `Allow` counts the request in
the window under the limiter's mutex with the limit that was read, `StoreEvent`
maps the severity and stores. `window` is the limiter's entry, `age` its 60
seconds in two steps. `taken` is not in the code: the requests let through in
this window. A template's severity that the CHECK of `events.level` refuses ends
the request with an internal error. Polls are the hourly job and `PollNow`, which
tell of a failed request with an event and of an unreadable answer without one; the
handlers edit, delete and give a new token between any two steps.

### ImageUpdates

`rowOf` are the rows of containers with the columns of the image check, `running`
what runs. A pass lists the rows once (`CheckBegin`), then takes container after
container: inspect by the id it listed, or fall back to the stored digest; ask
the registry; write both digests and the verdict by the id of the row. Discovery
refreshes a row without the digests, the Portainer worker writes the local digest
without a verdict. `seen` states the assumption of time: between two daily passes,
which are a day apart, every container is discovered again, which happens every
hour.

### ComponentLinks

`parent` is `component_links`: one parent per (type, id), as its primary key says;
the other variables are the rows whose `app_id` or engine foreign keys tie.
`SetParent` replaces, `IgnoreIfLinked` is `INSERT OR IGNORE`, and `Tried` is a
statement whose error the code logs or passes over. An upsert of a container is
three statements: the row, the repository's link under the type the engine has
now, and the discovery's link as a Docker engine (`UpsertContainer`,
`SyncContainer`, `LinkContainer`). A request that links a container or route to an
app is up to five (`LinkBegin`; `LinkSet` or `LinkFails`, after which `LinkUndo` tries
to delete an app made for it; `LinkSync`; `LinkEnds`), any of which may fail. Unlinking a
container is its row and then the link of the app (`UnlinkContainer`, `CutLink`),
whatever that link leads to. `PostLink` and `DropLink` are the handlers of
`api/links.go`, which check nothing. `LinksRestart` may come between any two steps.
A guest is found by the poller, which guesses its type, and by the discovery, which
knows it. `faults` and `Off` are not in the code: the statements of the request that
failed, and that the link of a container is not what its last upsert was to make it.

Merged: the other requests and discoveries are one step, in which each link may
fail; one upsert of a container and one unlinking are under way at a time.
`DiscoverRoute` sees the containers as they are; the code reads them once before
the routers of a pass. The check that `EnrichAppOnLink` adds is a `CreateCheck` at
any time. Left out: the tree of links, suggestions, and the counters of the pages.

### DigestRegistry

`files` are the two directories of templates, `loaded` the map, `lock` its mutex
held for writing. A load reads the builtin files, then the custom ones, then
swaps the map (`Lock`, `ReadBuiltin`, `ReadCustom`, `Swap`). `EditFile` edits a file
in place or lays one of the user's over that of a builtin; `CreateCustom` and
`WriteCustom` show that a file is there before it is whole. `unread` is not in the
code: since a load began, a file was edited in place or a load failed, so nothing
will read it. A reconciliation takes the templates it listed in any order
(`RecTake`), upserts, lists and switches off row by row, then the rows of templates
that are gone; its statements interleave with the page and the clean-up job.
`quiet` is not in the code: the rows that no one else wrote since it began.

### Digest and DigestReport

`Digest` has the clock of the configured zone in hours, its `offset` to UTC, the
settings, the goroutine and its one-tick channel. The label of a digest is made of
the day of the zone (`Today`), its window of days in UTC, where the moment is in
`UTCDay`. The calendar is Go's: years, months, ISO weeks and weekdays by
arithmetic from 1 January 2018, with the leap years of every century (`Year` is the
year between whose first day and the next one's the day lies). `PeriodLabel` and `PeriodTimeRange` are the code's.
A send that hangs drops ticks, a restart waits for the next full hour, summer time
leaves an hour out or brings it twice. `last` is not in the code: the day of the
job's last digest under this schedule and zone.

`DigestReport` reads the sections one by one, each of which may find anything, or
fail and be logged; `HealthStatus` is the headline made of what was read. Left
out: the failure of the first read, of the apps, which ends the digest.

## 4. Runs

| run | instance | what it shows |
|---|---|---|
| `monitor_core` | one check, two loop goroutines, one client that pauses and resumes, shutdown | the `active` map is the set of uncancelled loops; no signal is lost; an outage is announced before it is stored; a cancelled loop writes nothing |
| `monitor_dns` | one DNS check, two answers, failing calls; created, reset, deleted | no warning without a stored baseline |
| `monitor_converge` | every operation, one loop goroutine, fairness | loops and table come to agree; shutdown drains; deletion is final |
| `monitor_recovery` | no clients | violated: the recovery of a check is stored and not announced (`ping.go:37` promises it) |
| `rules_engine` | two events, one handler, failing loads, fairness | the cache is fresh; the engine implements `RuleBook`; evaluations and requests end |
| `rules_plain` | both repositories | violated: an event stored through the unwrapped repository is not evaluated (`main.go:136`) |
| `detect_serial` | a key of each kind with readings on both sides of each threshold, failing calls, restarts | events tell what is remembered, or the base line begun with; nothing twice, but after a loss of memory |
| `rollups` | days of two hours, months of two days, two levels | monthly rows are exact, months are counted, days miss at most their last hour |
| `containers` | one container with two ids, one pass at a time, three upserts in flight, one deletion, restart or failed call, fairness | an undisturbed pass leaves the row right, and the row follows the container in the end |
| `polls`, focus scans | a device of any kind, two versions of its credentials, two upsets, all five slots, fairness | every pass and request ends; a status that stays due is shown again |
| `polls`, focus ingest | two requests at once, two limits, one edit, fairness | no request passes beyond its limit; a sender is not shut out |
| `polls`, focus images | a container on the socket or behind Portainer, two digests, three moves, daily pass and job, fairness | the flag tells the truth in the end |
| `tables`, focus links | one app, container, route and check; node, guest, and a host that is Docker engine or Traefik; failing statements, posted links, restarts | no row names a deleted app; after a whole upsert a container's link and row agree; routes yield; one failure leaves no app behind |
| `tables`, focus registry | two templates of two entries, two loaders, one reconciler, four edits, requests, failures or restarts | the map is that of the files; a reconciliation settles its rows |
| `tables`, focus digest | days around 2024/25, 2025/26, March and July; four schedules; three turns | one digest per period; its window holds its day, with the exceptions named in the property |
| `tables`, focus report | every finding of every section, groups on both sides of each threshold, failing reads | a digest says healthy only of a system in which nothing is wrong |
| `digest_week` | as `tables` | violated: the digest of a week of 2026 is of the week after (`api/digest.go:94`) |

Bounds. One check is enough for `monitor_*` because checks share only `syncCh`
and the reconciliation, which treats each row alone; two loop goroutines let a
cancelled one finish while its successor runs. `monitor_dns` has no edits: an edit
writes back a baseline it read before another was captured, which is a hazard of
its own. Calls fail in `monitor_dns` only; that a failed load delays the loops, or a
failed insert loses the event of an outage, is thus stated as a hazard and shown by
no run. One rule and two events are enough
for two loads to meet on the mutex; one handler, because two make the liveness
check take long, and the theorems cover any number. Detector keys share only the
pass that visits them, so `FewTouched` follows one at a time. In `Rollups` the
clock stops at `MaxHour` 9, which is past the end of two months and past the
window of the longer level; `MaxEvents` and `MaxOutage` bound events and
outages, and `Bounded` takes events, outages and requested daily rows two at a
time since they do not meet in one table. Containers share only the pass that
lists them and the ids it compares, which the theorem covers; two ids let one be
rebuilt, `MaxInFlight` 3 lets the events of a stop and a start meet, `MaxUpsets`
is the number of restarts, deletions and failures. Devices of `ScanScheduler` and
images of `ImageUpdates` share nothing but their pass, which has a goroutine or a
turn for each; two upsets let a host turn while an edit is under way, and three
moves let a container be rebuilt between publication and failure. Two templates
let one be builtin and one custom, two loaders let reloads overlap, and `MaxHands` 4
is an edit, a reload, a reconciliation and a request on a row. `Span` 9 days takes a
weekly digest past the next one; `Offsets` begin an hour behind UTC and one ahead, of
days of two hours, so that the zone and UTC are often on different days. The links are
checked in two parts, virtual machines and their nodes (`guests`) and the engine with
what runs on it (`items`), which meet only in `PostLink`. `Starts` are days before the turn of a year whose
4 January is a Saturday (2025) and a Sunday (2026), and of months of 28 and 30 days.

`CHECK_DEADLOCK FALSE` is said of the rules, where every event is judged once and
then nothing remains to be done, and of `polls` and `tables`, where a behaviour of
one focus may use up its bounds: an app of `AppIngest` that was deleted, a digest
at the end of `Span`.

## 5. Fairness

Safety runs use specifications without fairness. `MonitorScheduler!FairSpec` and
`RulesEngine!FairSpec` give weak fairness to what a running goroutine does next,
since Go schedules it and every probe and query has a deadline; and strong
fairness to a case of a `select` that competes with another one, and to a wait
for a mutex that is released again and again. Clients are never obliged to send
a request, nor targets to answer. `ReloadTick` is fair because a ticker fires as
long as the process runs, `Expire` because time passes. In
`ContainerDiscovery!FairSpec` the goroutines of the watcher and the steps of a
pass are fair for the same reason, and `Discover` because its ticker fires every
hour; the daemon, users and restarts are not.

`PollsFairness` is the fairness of three modules, each in its focus. Tickers of the
scan scheduler, its goroutines and a PUT that has read its row go on; a call to a
host ends with an answer or with `Timeout`, because every scan has a deadline, and
that a host answers is not assumed. Requests at the limiter and polls run on and
time passes; that requests come is a premise of `SenderServed`. Discovery,
enrichment and the daily image check recur; that the registry answers and the
container runs is the premise of `FlagHeals`. Nothing in `tables` is fair: all
its properties are about safety.

## 6. Theorems

All are about the module's specification and hold for every value of the constants
that meets the named assumptions on them (`ConstantsOK`, `EngineConstants`,
`DetectorConstants`, `RollupConstants`, `DiscoveryConstants`, `LinkConstants`,
`ScanConstants`, `IngestConstants`, `ImageConstants`, `RegistryConstants`,
`DigestConstants`, `ReportConstants`).

* `MonitorSchedulerProofs`: `TypeCorrect`; `BooksExact`, with `TypeOK` and
  `ActiveIsExact` inductive together: only `SyncReconcile` changes the map, and it
  hands out a goroutine nobody has; `NoSecondLoop` follows. `CancellationSilences`
  and `DeletionIsFinal` are action properties from the same invariant: the calls
  of a cancelled loop fail, and no statement but `Create` makes a row.
  Three theorems assume what their instance allows. With pauses and resumes only
  and a database that answers (`TogglesOnly`), `SignalsSuffice`: as long as no
  signal is under way, a list that was read is still what is wanted
  (`ListIsWanted`); and `OutagesAreAnnounced`, from `OutageInv`: an event just
  written names the status that will follow, and what was listed of a check nobody
  watches is its status still, so a new loop starts from the truth. Without `Edit`
  and `Toggle` (`NoRewrites`), `WarningsHaveBaselines`: no copy of a row that
  anybody holds, in a loop, a handler, a list or a job, has a baseline while its
  row has none (`CopiesHeld`), because no write takes one away (`SoundWrites`).
  `Update` does; that is hazard `api/checks.go:296`.
* `RulesEngineProofs`: `TypeCorrect` also says that the mutex is held exactly by
  the evaluation that loads. `CacheFresh` needs more than itself: a list loaded
  before a write may still be on its way to the cache. `FreshInv` adds that such a
  list is fresh unless a handler is about to invalidate, which must wait for the
  mutex. `ImplementsBook` shows the initial state and every step to be one of
  `RuleBook` or a stutter. Both assume that the handlers' own statements succeed
  (`~WriteMayFail`); when one does not, the cache may be old until it expires.
* `DetectorsProofs`: `TypeCorrect`, for any number of passes. `EventsTell` and
  `NothingRepeated`, for one pass at a time: the invariant `Tracks` says that
  memory agrees with the tale, which is the base line and then the last event
  (`Tale`), unless a pass is between remembering and announcing, and what that pass
  holds then (`InStep`). `BeginsOnce` adds that of a snapshot, whose memory is in the
  database, there is no event while it has its base line. What is in memory only
  begins anew with the process, or when its container stops: then the last event may
  be of an earlier life, and one more event may tell the same. Both properties say so.
* `RollupsProofs`: `TypeCorrect`, `RowsExact`, `EveryMonthCounted`, from one
  invariant `Counted`: events within their window are in the table, and no month
  has a row before it is over. So a rollup that runs in the month after, at any
  time, finds all events of a level kept for two months, and later events are of
  later months. `DaysNearlyWhole`, when hourly rows are kept for a day (`KeptADay`),
  from `DailyInv`: the readings of the hour before are there when its job comes,
  and the hourly rows of yesterday and today are there as far as their jobs ran.
* `ContainerDiscoveryProofs`: `TypeCorrect` and `PassesAreRight`, for any number
  of containers, ids and overlapping passes, from the invariant `Kempt`. Two parts
  carry it: `OneOwner`, that an id belongs to one name whoever holds it, so that a
  comparison by id is one by name; and `Faithful`, what a pass has achieved so far
  for a container that is still `quiet`. Types alone are not inductive: that a
  pass upserts only what it listed (`Courses`) is needed for the ids of rows.
* `ComponentLinksProofs`: `LinksTypeCorrect`; `AppRefsAlwaysLive`, inductive with
  the types, since the statement that gives an item its app is under the foreign
  key and every deletion of an app forgets it; `ContainersStayOnEngines` from `EngineInv`:
  a container names an engine that exists, as its key cascades, and an upsert under way
  is on the engine its row names; the last statement of an upsert decides its link, and
  who else writes it marks it (`Off`). `RoutesAlwaysYield`, case by case from the types.
  `NoAppLeftBehind` from `RequestInv`, for a request that makes an app and of which at
  most one statement failed: only a failure leads to a rollback, so one that fails is
  the second; before the item's own link nothing failed and the item names the app; and
  a container's app was linked once when its handler is to link it again.
* `PollsProofs`. `ScanTypeCorrect`: types alone are not inductive, since a scan may
  leave the status alone (`Keep`); `ScanInv` adds that one about to write has a
  status to write, and that one that is idle is done. `PassesNeverStuck` and
  `PassesAdvance` are the part of `ScansEnd` that needs no fairness, for any devices:
  a pass that has not finished has a scan that can go on, and scans only come nearer
  their end (`StepsLeft`). `IngestTypeCorrect` includes that no level gets into the
  events that the table does not take. `RateAlwaysHeld` from `PassedWereCounted`:
  what was let through in a window is at most its counter, so whoever passes with
  a counter within the limit it carries is within it, whatever limit others carry.
  `ImagesTypeCorrect`: an id counts rebuilds, which are moves (`ImagesInv`).
  `FlagsAreVerdicts` says of every row of a container that the socket reaches that
  its flag is the verdict on the two digests beside it; of one that Portainer
  reaches it is not, as the worker writes a digest without a verdict. Then
  `PollsTypeCorrect` and `PollsHoldRate`, of the instance that is checked.
* `TablesProofs`, templates: `RegistryTypeCorrect`. `MapIsOfTheFiles` from `LoadsInv`:
  who reads holds the mutex, and what a load has read is what the files say unless
  another load is still due (`LoadDue`), which will read later. So overlapping
  loads may store an old map, but never last. The map has the custom file of a template
  that has both (`MergeDir`), and the builtin one if the custom one is unreadable. `ReconciliationsSettle` from
  `ReconInv`, which says for every reconciliation what it has achieved of the rows
  that are still `quiet` (`Settled`) and that what is left to do is right (`Work`);
  a step of one leaves the others' claims alone because it takes the row it writes
  out of their `quiet`.
* `TablesProofs`, digest. The calendar first: every day is in one year (`YearExists`,
  by the four hundred, hundred, four and one years that hold it, and `YearIs`), in
  one month of it (`MonthHolds`), and 4 January is in week 1 (`FourthOfJanuary`).
  `WindowsHoldTheirDay` follows for every day from 2018 on: the Thursdays of two
  weeks are a multiple of seven days apart, so the Monday the code counts from
  4 January is that of the day's own week, unless the label has another year than
  the week or the code's weekday of 4 January is 0. The moment in UTC is in the window
  too, unless it is in another period than the day of the zone. `DigestsAreOnce` from
  `SentInItsHour`: since the last digest was made the clock has not gone back, and in
  that very hour no run is left to begin (a run takes its tick away, and only an hour
  that passes makes a run due again); a later run in the same hour of the day is on
  another day, and two days of one week or month on which the schedule is due are
  one (`DueOnceInAPeriod`). `HealthyReportsAreHealthy` from the types of the sections
  and the arithmetic of the average (`HealthyGroup`).
* `TablesProofs`, side by side. `TablesKeepComponents`: the specification that the run
  `tables` checks implies those of its four components, so each theorem about one of
  them holds of it; `TablesTypeCorrect` puts the types together.

Every safety property that a passing run checks is a theorem. Model-checked only are
the liveness properties (`SchedulerConverges`, `ShutdownDrains`, `EventsEvaluated`,
`RequestsEnd`, `RowsConverge`, `ScansEnd`, `StatusHeals`, `SenderServed`,
`FlagHeals`), which need fairness and `ENABLED`, and the three violations, whose
counterexamples the runs show.

## 7. Met while modelling, and not a run

Checks and rules
* A check that is down is reported at every tick, because the loop compares with
  the status it started from (same cause as `monitor_recovery`).
* `Start` of the check scheduler returns before its loops have ended.
* A loop that started before a baseline was set captures its own over it. After
  `ResetBaseline` the running loop goes on judging by the old value and stores
  `warn` for the answer that is now the baseline (`api/checks.go:469`).

* An event is written whether or not a check is linked to an app; `url.go:63` says
  only if it is.

Detectors and rollups
* A restart makes the trackers take everything for normal and the others take what they
  find for the base line: a breach that lasts is announced twice ("at most once per
  crossing", `metrics/events.go:7`), a recovery meanwhile never. So with a container
  that stops.
* Two passes of one detector at a time announce a crossing twice.
* A pool above its threshold is announced again at each change of a hundredth of a
  percent, its recovery never (`snapshot/proxmox.go:65`); disks at 79.996 % are
  compared as 80.00 % before and as 79.996 % now.
* A monthly rollup asked for later in the month overwrites the counts of debug,
  info and warn events by what the purge left of them. The daily rollup at midnight
  misses the hour that ends then (`resource_rollup.go:84`).

Containers and images
* A container that was recreated between two discovery passes, unseen by the
  watcher, is updated by name and then marked stopped by its old id
  (`scanner/discovery/docker.go:155`). `PassesReconcile` leaves such containers
  out (`Rebuilt`); the next pass puts the row right, unless the clean-up job has
  deleted it and its link to an app before.
* A container renamed while it runs leaves its old row running for as long as it
  exists, since its id is still returned.
* If one Portainer endpoint cannot be listed its containers are marked stopped; a
  Portainer scan on request has an empty memory and announces updates again.

Links
* The rollback of a request that made an app for a container or route uses the context
  of the request: when the request is given up both fail, and the app stays without a
  link (`docker_discovery.go:444`); likewise after a crash. A failed link of a container
  is set right by its next upsert only.
* Unlinking a container deletes the link of its app whatever it leads to, so the app
  may lose another parent it was given since (`discovery.go:209`).
* A guest that the poller found is linked under a guessed type; when discovery
  corrects the type, `GetParent` finds nothing while `ListByParent` does. If the link
  is removed, discovery fails to create the guest from then on.
* A change of a component's type, and the deletion of a parent, leave links behind;
  a ghost parent makes `INSERT OR IGNORE` ignore later ones. Two containers may name
  one app that has one link. A cycle of links is followed without end
  (`buildNode`), and the order of types in `FEATURES.md:48` is not enforced.

Scans
* The schedule never writes `offline` of Proxmox or Synology hosts, nor any status of a
  failed Docker discovery; a Proxmox poller keeps the credentials it was made with until
  a restart. `DueStatus` says so with `Keep`. A PUT writes back the status it read.
* A silent SNMP host is `degraded`, never `offline`, as UDP connects to anything. On
  request that is written. On the schedule its queries, at least three of 10 s tried
  twice, outlast the 30 s of a discovery, whose context the write shares, so nothing is
  written of a silent host (`infra/snmp.go:260`); it is if the host refuses at once.
* Of a Traefik that answers in part a scan on request ends online or offline, as the
  overview is among what is missing or not (`jobs/scan.go:73`).
* The failure event of `DiscoverOneComponent` has a source type that the CHECK of
  `events` refuses, so it is dropped.

Ingest
* A window is fixed, not sliding as the comment says; refused requests are counted.
* A severity that the template calls, say, `high` violates the CHECK of
  `events.level`: the sender gets an internal error and the event is lost.
* Events and metric snapshots of a deleted app stay; a poll that was under way
  makes the snapshot anew.

Templates and digest
* `Reconcile` switches on again what an administrator switched off, although
  `jobs/templates.go:28` says the toggled flag is kept. A template that loses all
  its entries keeps its rows on. A failed reload after `CreateCustom` is ignored.
* The label is made in the configured zone and its window in UTC (`digest.go:205`,
  `digest.go:1032`): a daily digest of an early hour in a zone ahead of UTC is of a day that
  has not begun there, and one of a late hour in a zone behind of a day that is over.
* The label of a week has the calendar year with the ISO week, so a week at the turn
  of the year is a year off. A digest covers its period only up to the hour of the
  mail. The hour that comes twice sends twice, the one left out not at all.
  `SendMail` has no deadline. A process down in the hour of the mail sends nothing.
* Section 6 looks for the metrics `cpu`, `mem` and `disk`, the table has
  `cpu_percent` and so on (`digest.go:576`). The average of a type of checks says
  healthy with one of twenty down, and the headline does when reads failed.

## 8. Not modelled

* Migrations: 55 lines that execute a file and record its name, at start-up and
  alone. A crash between the two repeats the file.
* Accounts, sessions and the second factor: each request is a few statements on one
  row, and tokens are checked by a library. Push: a loop over subscriptions.
* The protocol clients (Proxmox, Synology, SNMP, Portainer, Traefik) and read-only
  handlers (dashboard, topology, metrics, events) have no state of their own; what
  clients write of a component is in `ScanScheduler`.
* The text of things: payload fields, mail layout, titles, the values aggregated.
* The frontend, which renders answers of the API.

Every modelled component is called partly modelled in `PROJECT.json`, which says
what is left out of each.

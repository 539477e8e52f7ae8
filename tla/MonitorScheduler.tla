--------------------------- MODULE MonitorScheduler ---------------------------
(***************************************************************************)
(* The check scheduler of internal/monitor, the four checkers it           *)
(* dispatches to, the rows they share with the check handlers of           *)
(* internal/api/checks.go, and the run_monitors job.                       *)
(*                                                                         *)
(* One goroutine (Start) reconciles the set of running check loops with    *)
(* the table; every loop works on the row it was started with; the         *)
(* handlers and the job write the same rows concurrently.  Every database  *)
(* call is a step of its own.                                              *)
(***************************************************************************)
EXTENDS Naturals, FiniteSets

CONSTANTS
    Checks,      \* ids a monitor_checks row may be given (uuids: never reused)
    DnsChecks,   \* those whose type is "dns"
    Loops,       \* goroutine slots for runCheckLoop (the bound on goroutines)
    Requests,    \* API requests and job runs that may be in flight at once
    Targets,     \* what a check may point at
    Answers,     \* what a reachable target may answer
    Recordless,  \* answers to a lookup that hold no record of the type asked for
    Ops,         \* the operations clients of this instance use
    DbMayFail,   \* TRUE: a database call may fail (busy, request context gone)
    NoCheck, NoLoop, NoBaseline, Unreachable

AllOps == {"create", "edit", "toggle", "delete", "run", "reset", "runAll"}

ASSUME ConstantsOK ==
    /\ DnsChecks \subseteq Checks
    /\ Loops \cap Requests = {}
    /\ Targets # {}
    /\ Ops \subseteq AllOps
    /\ DbMayFail \in BOOLEAN
    /\ NoCheck \notin Checks
    /\ NoLoop \notin Loops
    /\ NoBaseline \notin Answers
    /\ Unreachable \notin Answers \cup {NoBaseline}
    /\ Recordless \cap (Answers \cup {NoBaseline, Unreachable}) = {}

VARIABLES
    rows,      \* the monitor_checks table
    notified,  \* status named by the last event written for a check, "" if none
    world,     \* what each target answers now
    ctxDone,   \* the context given to Start has been cancelled
    syncCh,    \* the one-slot channel of TriggerSync holds a signal
    start,     \* the goroutine running Start
    active,    \* Scheduler.active: the loop whose cancel function is on file
    proc       \* the check loops and the requests in flight

vars == <<rows, notified, world, ctxDone, syncCh, start, active, proc>>

-----------------------------------------------------------------------------
Status   == {"", "up", "warn", "down"}     \* last_status; "" means never checked
Baselines == Answers \cup {NoBaseline}      \* dns_expected_value
Results  == Answers \cup Recordless \cup {Unreachable}

Row == [life : {"unborn", "stored", "gone"}, enabled : BOOLEAN,
        target : Targets, baseline : Baselines, status : Status]

Listed == [check : Checks, copy : Row]

SomeTarget == CHOOSE t \in Targets : TRUE

BlankRow == [life |-> "unborn", enabled |-> FALSE, target |-> SomeTarget,
             baseline |-> NoBaseline, status |-> ""]

Procs == Loops \cup Requests

\* A process: what it runs, where it is, the row it was given, the answer it
\* got, whether its own context was cancelled, and RunAll's remaining list.
Proc == [op : AllOps \cup {"none", "loop"},
         pc : {"idle", "ticking", "probed", "captured", "reported", "dispatch",
               "merge", "nudge", "baseline", "status", "ran", "announce"},
         check : Checks \cup {NoCheck}, copy : Row, answer : Results,
         cancelled : BOOLEAN, todo : SUBSET Listed]

Idle == [op |-> "none", pc |-> "idle", check |-> NoCheck, copy |-> BlankRow,
         answer |-> Unreachable, cancelled |-> FALSE, todo |-> {}]

Stored(c)  == rows[c].life = "stored"
EnabledRows == {[check |-> c, copy |-> rows[c]] :
                    c \in {d \in Checks : Stored(d) /\ rows[d].enabled}}

IsLoop(p) == proc[p].op = "loop"
\* A loop's context is a child of Start's: cancelling that one cancels it too.
Cancelled(p) == IsLoop(p) /\ (proc[p].cancelled \/ ctxDone)

\* Mutated Outcomes: the store calls are made with a context of their own.
OutcomesDetached(p) == IF DbMayFail THEN BOOLEAN ELSE {TRUE}

\* How a database call made by p may end.
Outcomes(p) == IF Cancelled(p) THEN {FALSE}
               ELSE IF DbMayFail THEN BOOLEAN ELSE {TRUE}

\* What a checker concludes from an answer, given the baseline it knows: a lookup that
\* gives no record is up as well, unless a baseline is missed.  The degrees of an answer
\* that is no lookup (the status of a URL, the days of a certificate) are one: up.
Verdict(c, baseline, answer) ==
    IF answer = Unreachable THEN "down"
    ELSE IF c \in DnsChecks /\ baseline \notin {NoBaseline, answer} THEN "warn"
    ELSE "up"

VerdictOf(p) == Verdict(proc[p].check, proc[p].copy.baseline, proc[p].answer)

-----------------------------------------------------------------------------
\* A start (or restart) of the server over a table left by earlier runs.
Init ==
    /\ rows \in [Checks -> {BlankRow} \cup
                           {r \in Row : /\ r.life = "stored"
                                        /\ r.status = "warn" => r.baseline # NoBaseline}]
    /\ \A c \in Checks \ DnsChecks : rows[c].baseline = NoBaseline
    /\ notified = [c \in Checks |-> ""]
    /\ world \in [Targets -> Results]
    /\ ctxDone = FALSE
    /\ syncCh = FALSE
    /\ start = [pc |-> "list", list |-> {}]
    /\ active = [c \in Checks |-> NoLoop]
    /\ proc = [p \in Procs |-> Idle]

\* The outside world: a target changes its answer; Start's context is cancelled.
Change(t) ==
    /\ \E a \in Results : world' = [world EXCEPT ![t] = a]
    /\ UNCHANGED <<rows, notified, ctxDone, syncCh, start, active, proc>>

CancelContext ==
    /\ ctxDone' = TRUE
    /\ UNCHANGED <<rows, notified, world, syncCh, start, active, proc>>

-----------------------------------------------------------------------------
(* Scheduler.Start and syncChecks *)

\* syncChecks reads the table before it takes the lock.
SyncList ==
    /\ start.pc = "list"
    /\ ~ctxDone
    /\ start' = [pc |-> "reconcile", list |-> EnabledRows]
    /\ UNCHANGED <<rows, notified, world, ctxDone, syncCh, active, proc>>

\* Mutated SyncListFails: a failed load is tried again on the spot.
SyncListRetries ==
    /\ start.pc = "list"
    /\ ctxDone \/ DbMayFail
    /\ UNCHANGED vars

\* List fails: syncChecks returns the error and the signal it served is lost.
SyncListFails ==
    /\ start.pc = "list"
    /\ ctxDone \/ DbMayFail
    /\ start' = [start EXCEPT !.pc = "select"]
    /\ UNCHANGED <<rows, notified, world, ctxDone, syncCh, active, proc>>

ListedChecks == {e.check : e \in start.list}
\* Mutated ToStart: a check that is running is started again.
ToStartAgain == {c \in ListedChecks : TRUE}

ToStart == {c \in ListedChecks : active[c] = NoLoop}
\* Mutated ToStop: disabled checks are left to run.
ToStopNothing == {}

ToStop  == {c \in Checks : active[c] # NoLoop /\ c \notin ListedChecks}
RowListed(c) == (CHOOSE e \in start.list : e.check = c).copy

\* A slot is given to a new goroutine when no cancel function refers to it.
FreeLoops == {l \in Loops : proc[l] = Idle /\ \A c \in Checks : active[c] # l}

\* runCheckLoop, started for c with a copy of its row.
NewLoop(c) == [Idle EXCEPT !.op = "loop", !.pc = "ticking", !.check = c,
                           !.copy = RowListed(c)]

\* Call the cancel functions of the checks in cs.
AfterCancel(p, cs) ==
    IF IsLoop(p) /\ \E c \in cs : active[c] = p
    THEN [proc[p] EXCEPT !.cancelled = TRUE] ELSE proc[p]

\* The locked part of syncChecks: start what is enabled and not running, cancel
\* what runs and is not enabled.  `slot` gives each new goroutine its slot.
SyncReconcile ==
    /\ start.pc = "reconcile"
    /\ \E slot \in [ToStart -> FreeLoops] :
        /\ \A c, d \in ToStart : slot[c] = slot[d] => c = d
        /\ active' = [c \in Checks |-> IF c \in ToStart THEN slot[c]
                                       ELSE IF c \in ToStop THEN NoLoop
                                       ELSE active[c]]
        /\ proc' = [p \in Procs |->
             IF \E c \in ToStart : slot[c] = p
             THEN NewLoop(CHOOSE c \in ToStart : slot[c] = p)
             ELSE AfterCancel(p, ToStop)]
    /\ start' = [pc |-> "select", list |-> {}]
    /\ UNCHANGED <<rows, notified, world, ctxDone, syncCh>>

\* The select of Start: a signal, the 5-minute ticker, or the context.
ReceiveSync ==
    /\ start.pc = "select"
    /\ syncCh
    /\ syncCh' = FALSE
    /\ start' = [start EXCEPT !.pc = "list"]
    /\ UNCHANGED <<rows, notified, world, ctxDone, active, proc>>

ReloadTick ==
    /\ start.pc = "select"
    /\ start' = [start EXCEPT !.pc = "list"]
    /\ UNCHANGED <<rows, notified, world, ctxDone, syncCh, active, proc>>

\* cancelAll, then Start returns: it waits for no goroutine.
Shutdown ==
    /\ start.pc = "select"
    /\ ctxDone
    /\ proc' = [p \in Procs |-> AfterCancel(p, Checks)]
    /\ active' = [c \in Checks |-> NoLoop]
    /\ start' = [start EXCEPT !.pc = "stopped"]
    /\ UNCHANGED <<rows, notified, world, ctxDone, syncCh>>

-----------------------------------------------------------------------------
(* runCheckLoop and the checkers *)

\* The ticker branch: probe the target of the row the loop was started with.
\* When the ticker and the context are both ready either branch may be taken; a
\* probe under a cancelled context fails.
Tick(l) ==
    /\ IsLoop(l)
    /\ proc[l].pc = "ticking"
    /\ proc' = [proc EXCEPT ![l].pc = "probed",
                            ![l].answer = IF Cancelled(l) THEN Unreachable
                                          ELSE world[proc[l].copy.target]]
    /\ UNCHANGED <<rows, notified, world, ctxDone, syncCh, start, active>>

LoopExit(l) ==
    /\ proc[l].pc = "ticking"
    /\ Cancelled(l)
    /\ proc' = [proc EXCEPT ![l] = Idle]
    /\ UNCHANGED <<rows, notified, world, ctxDone, syncCh, start, active>>

NeedsBaseline(p) ==
    /\ proc[p].pc = "probed"
    /\ proc[p].check \in DnsChecks
    /\ proc[p].copy.baseline = NoBaseline
    /\ VerdictOf(p) = "up"
    /\ proc[p].answer \notin Recordless

\* Mutated CaptureBaseline: the checker keeps a baseline it could not store.
CaptureUnchecked(p) ==
    /\ proc[p].op \in {"loop", "runAll"}
    /\ NeedsBaseline(p)
    /\ \E ok \in Outcomes(p), c \in {proc[p].check} :
        rows' = IF ok /\ Stored(c)
                THEN [rows EXCEPT ![c].baseline = proc[p].answer] ELSE rows
    /\ proc' = [proc EXCEPT ![p].pc = "captured", ![p].copy.baseline = proc[p].answer]
    /\ UNCHANGED <<notified, world, ctxDone, syncCh, start, active>>

\* DNSChecker.Run: no baseline in the row it holds, so the answer becomes one.
CaptureBaseline(p) ==
    /\ proc[p].op \in {"loop", "runAll"}
    /\ NeedsBaseline(p)
    /\ \E ok \in Outcomes(p), c \in {proc[p].check} :
        /\ rows' = IF ok /\ Stored(c)
                   THEN [rows EXCEPT ![c].baseline = proc[p].answer] ELSE rows
        /\ proc' = IF ok THEN [proc EXCEPT ![p].pc = "captured",
                                           ![p].copy.baseline = proc[p].answer]
                   ELSE [proc EXCEPT ![p].pc = "captured"]
    /\ UNCHANGED <<notified, world, ctxDone, syncCh, start, active>>

\* Mutated Transition: only an up check that goes down is reported.
TransitionDownOnly(p) == proc[p].copy.status = "up" /\ VerdictOf(p) = "down"

\* The transition a checker sees: against the status in the row it holds.
Transition(p) == proc[p].copy.status \notin {"", VerdictOf(p)}

ReadyToReport(p) ==
    /\ proc[p].op \in {"loop", "runAll"}
    /\ proc[p].pc \in {"probed", "captured"}
    /\ ~NeedsBaseline(p)

\* createStatusEvent, whether or not an app is linked to the check (the comment at url.go:63
\* says only if one is); a failure is logged and the run goes on.
Report(p) ==
    /\ ReadyToReport(p)
    /\ Transition(p)
    /\ \E ok \in Outcomes(p) :
        notified' = IF ok THEN [notified EXCEPT ![proc[p].check] = VerdictOf(p)]
                    ELSE notified
    /\ proc' = [proc EXCEPT ![p].pc = "reported"]
    /\ UNCHANGED <<rows, world, ctxDone, syncCh, start, active>>

\* A checker's run is over: a loop waits for its ticker, a job for its next check.
AfterRun(p) ==
    IF IsLoop(p) THEN [proc[p] EXCEPT !.pc = "ticking", !.answer = Unreachable]
    ELSE [proc[p] EXCEPT !.pc = "dispatch", !.check = NoCheck,
                         !.copy = BlankRow, !.answer = Unreachable]

\* Mutated SaveStatus: the status is written with an upsert.
UpsertStatus(p) ==
    /\ \/ proc[p].pc = "reported"
       \/ ReadyToReport(p) /\ ~Transition(p)
    /\ rows' = [rows EXCEPT ![proc[p].check].life = "stored",
                            ![proc[p].check].status = VerdictOf(p)]
    /\ proc' = [proc EXCEPT ![p] = AfterRun(p)]
    /\ UNCHANGED <<notified, world, ctxDone, syncCh, start, active>>

\* UpdateStatus: an UPDATE by id, so a row that is gone stays gone.
SaveStatus(p) ==
    /\ \/ proc[p].pc = "reported"
       \/ ReadyToReport(p) /\ ~Transition(p)
    /\ \E ok \in Outcomes(p), c \in {proc[p].check} :
        rows' = IF ok /\ Stored(c) THEN [rows EXCEPT ![c].status = VerdictOf(p)]
                ELSE rows
    /\ proc' = [proc EXCEPT ![p] = AfterRun(p)]
    /\ UNCHANGED <<notified, world, ctxDone, syncCh, start, active>>

CheckerStep(p) == CaptureBaseline(p) \/ Report(p) \/ SaveStatus(p)

-----------------------------------------------------------------------------
(* The run_monitors job: RunAll over rows listed once *)

RunAll(h) ==
    /\ proc[h] = Idle /\ "runAll" \in Ops
    /\ proc' = [proc EXCEPT ![h].op = "runAll", ![h].pc = "dispatch",
                            ![h].todo = EnabledRows]
    /\ UNCHANGED <<rows, notified, world, ctxDone, syncCh, start, active>>

Dispatch(h) ==
    /\ proc[h].pc = "dispatch"
    /\ \E e \in proc[h].todo :
        proc' = [proc EXCEPT ![h].pc = "probed", ![h].check = e.check,
                             ![h].copy = e.copy, ![h].todo = @ \ {e},
                             ![h].answer = world[e.copy.target]]
    /\ UNCHANGED <<rows, notified, world, ctxDone, syncCh, start, active>>

\* The list is exhausted, or the job's 60-second deadline has passed.
RunAllReturns(h) ==
    /\ proc[h].pc = "dispatch"
    /\ proc[h].todo = {} \/ DbMayFail
    /\ proc' = [proc EXCEPT ![h] = Idle]
    /\ UNCHANGED <<rows, notified, world, ctxDone, syncCh, start, active>>

-----------------------------------------------------------------------------
(* The handlers of internal/api/checks.go.  A handler that waits (for the    *)
(* database or the network) between two calls is split there.                *)

\* Begin handler op on a stored row: the handler's Get.
Begin(h, op, c, pc, answer) ==
    /\ proc[h] = Idle /\ op \in Ops
    /\ proc' = [proc EXCEPT ![h] = [Idle EXCEPT !.op = op, !.pc = pc, !.check = c,
                                    !.copy = rows[c], !.answer = answer]]
    /\ UNCHANGED <<notified, world, ctxDone, syncCh, start, active>>

\* Create inserts an enabled row, a DNS one with the expected value of the request
\* if it gives one; for a DNS check it goes on to resolve the target and to keep
\* the answer as the baseline.  It does not wake the scheduler.
Create(h, c, t) ==
    /\ "create" \in Ops /\ proc[h] = Idle
    /\ rows[c].life = "unborn"
    /\ \E b \in IF c \in DnsChecks THEN Baselines ELSE {NoBaseline} :
        rows' = [rows EXCEPT ![c] = [BlankRow EXCEPT !.life = "stored", !.baseline = b,
                                                     !.enabled = TRUE, !.target = t]]
    /\ proc' = IF c \in DnsChecks /\ world[t] \in Answers
               THEN [proc EXCEPT ![h] = [Idle EXCEPT !.op = "create",
                        !.pc = "baseline", !.check = c, !.answer = world[t]]]
               ELSE proc
    /\ UNCHANGED <<notified, world, ctxDone, syncCh, start, active>>

\* Mutated ResetBaseline: it does not give up when nothing resolves.
ResetUnresolved(h, c) ==
    /\ Stored(c) /\ c \in DnsChecks
    /\ Begin(h, "reset", c, "baseline", world[rows[c].target])
    /\ UNCHANGED rows

\* ResetBaseline resolves anew; when nothing resolves it changes nothing.
ResetBaseline(h, c) ==
    /\ Stored(c) /\ c \in DnsChecks
    /\ world[rows[c].target] \in Answers
    /\ Begin(h, "reset", c, "baseline", world[rows[c].target])
    /\ UNCHANGED rows

\* SetDNSBaseline of Create and ResetBaseline.  Only ResetBaseline gives up when
\* it fails.
StoreBaseline(h) ==
    /\ proc[h].pc = "baseline"
    /\ \E ok \in Outcomes(h), c \in {proc[h].check} :
        /\ rows' = IF ok /\ Stored(c)
                   THEN [rows EXCEPT ![c].baseline = proc[h].answer] ELSE rows
        /\ proc' = IF ok \/ proc[h].op = "create"
                   THEN [proc EXCEPT ![h].pc = "status"]
                   ELSE [proc EXCEPT ![h] = Idle]
    /\ UNCHANGED <<notified, world, ctxDone, syncCh, start, active>>

\* The UpdateStatus that follows; the lookup was made without a baseline, so the
\* verdict is "up".
StoreResolved(h) ==
    /\ proc[h].pc = "status"
    /\ \E ok \in Outcomes(h), c \in {proc[h].check} :
        rows' = IF ok /\ Stored(c) THEN [rows EXCEPT ![c].status = "up"] ELSE rows
    /\ proc' = [proc EXCEPT ![h] = Idle]
    /\ UNCHANGED <<notified, world, ctxDone, syncCh, start, active>>

\* Update: Get, merge the request into the copy, write every column but the
\* last_* ones.  "edit" gives a target or an expected value, "toggle" the flag.
Edit(h, c)   == Stored(c) /\ Begin(h, "edit", c, "merge", Unreachable) /\ UNCHANGED rows
Toggle(h, c) == Stored(c) /\ Begin(h, "toggle", c, "merge", Unreachable) /\ UNCHANGED rows

Merged(h) ==
    LET r == proc[h].copy IN
    IF proc[h].op = "toggle" THEN {[r EXCEPT !.enabled = b] : b \in BOOLEAN}
    ELSE {[r EXCEPT !.target = t] : t \in Targets}
         \cup {[r EXCEPT !.baseline = b] :
                   b \in IF proc[h].check \in DnsChecks THEN Answers ELSE {}}

WriteMerged(h) ==
    /\ proc[h].pc = "merge"
    /\ \E ok \in Outcomes(h), r \in Merged(h), c \in {proc[h].check} :
        /\ rows' = IF ok /\ Stored(c)
                   THEN [rows EXCEPT ![c] = [r EXCEPT !.status = rows[c].status]]
                   ELSE rows
        /\ proc' = IF ok /\ Stored(c) /\ proc[h].op = "toggle"
                   THEN [proc EXCEPT ![h].pc = "nudge"]
                   ELSE [proc EXCEPT ![h] = Idle]
    /\ UNCHANGED <<notified, world, ctxDone, syncCh, start, active>>

\* Mutated TriggerSync: the channel has no buffer.
TriggerUnbuffered(h) ==
    /\ proc[h].pc = "nudge"
    /\ syncCh' = (syncCh \/ start.pc = "select")
    /\ proc' = [proc EXCEPT ![h] = Idle]
    /\ UNCHANGED <<rows, notified, world, ctxDone, start, active>>

\* TriggerSync: a full channel absorbs the signal.
TriggerSync(h) ==
    /\ proc[h].pc = "nudge"
    /\ syncCh' = TRUE
    /\ proc' = [proc EXCEPT ![h] = Idle]
    /\ UNCHANGED <<rows, notified, world, ctxDone, start, active>>

\* Delete removes the row.  It does not wake the scheduler.
Delete(c) ==
    /\ "delete" \in Ops /\ Stored(c)
    /\ rows' = [rows EXCEPT ![c] = [BlankRow EXCEPT !.life = "gone"]]
    /\ UNCHANGED <<notified, world, ctxDone, syncCh, start, active, proc>>

\* Run: Get, probe, UpdateStatus, and only then an event, on any difference.
RunNow(h, c) ==
    /\ Stored(c)
    /\ Begin(h, "run", c, "ran", world[rows[c].target])
    /\ UNCHANGED rows

SaveRun(h) ==
    /\ proc[h].pc = "ran"
    /\ \E ok \in Outcomes(h), c \in {proc[h].check} :
        /\ rows' = IF ok /\ Stored(c) THEN [rows EXCEPT ![c].status = VerdictOf(h)]
                   ELSE rows
        /\ proc' = IF ok /\ Stored(c) /\ VerdictOf(h) # proc[h].copy.status
                   THEN [proc EXCEPT ![h].pc = "announce"]
                   ELSE [proc EXCEPT ![h] = Idle]
    /\ UNCHANGED <<notified, world, ctxDone, syncCh, start, active>>

AnnounceRun(h) ==
    /\ proc[h].pc = "announce"
    /\ \E ok \in Outcomes(h) :
        notified' = IF ok THEN [notified EXCEPT ![proc[h].check] = VerdictOf(h)]
                    ELSE notified
    /\ proc' = [proc EXCEPT ![h] = Idle]
    /\ UNCHANGED <<rows, world, ctxDone, syncCh, start, active>>

-----------------------------------------------------------------------------
StartStep ==
    \/ SyncList \/ SyncListFails \/ SyncReconcile
    \/ ReceiveSync \/ ReloadTick \/ Shutdown

LoopStep(l) == Tick(l) \/ LoopExit(l) \/ CheckerStep(l)

\* What a request in flight does next.
Continue(h) ==
    \/ Dispatch(h) \/ RunAllReturns(h) \/ CheckerStep(h)
    \/ StoreBaseline(h) \/ StoreResolved(h)
    \/ WriteMerged(h) \/ TriggerSync(h)
    \/ SaveRun(h) \/ AnnounceRun(h)

Arrive(h) ==
    \/ RunAll(h)
    \/ \E c \in Checks :
        \/ \E t \in Targets : Create(h, c, t)
        \/ ResetBaseline(h, c) \/ Edit(h, c) \/ Toggle(h, c) \/ RunNow(h, c)

Next ==
    \/ \E t \in Targets : Change(t)
    \/ CancelContext
    \/ StartStep
    \/ \E l \in Loops : LoopStep(l)
    \/ \E h \in Requests : Arrive(h) \/ Continue(h)
    \/ \E c \in Checks : Delete(c)

Spec == Init /\ [][Next]_vars

(* Fairness.  The Go runtime runs every ready goroutine, and a select with   *)
(* several ready cases takes each of them eventually, hence SF where a case  *)
(* competes with another one.  The probes carry timeouts, so they return.    *)
StartFairness ==
    /\ WF_vars(SyncList) /\ WF_vars(SyncReconcile)
    /\ WF_vars(SyncListFails)
    /\ SF_vars(ReceiveSync) /\ SF_vars(Shutdown)

LoopFairness ==
    \A l \in Loops : WF_vars(CheckerStep(l)) /\ SF_vars(LoopExit(l))

RequestFairness == \A h \in Requests : WF_vars(Continue(h))

FairSpec ==
    Spec /\ StartFairness /\ LoopFairness /\ RequestFairness /\ SF_vars(ReloadTick)

-----------------------------------------------------------------------------
(* Properties *)

\* Every variable stays in its set: the rows, the scheduler's books and the
\* processes of scheduler.go, and the events of the checkers and of checks.go.
TypeOK ==
    /\ rows \in [Checks -> Row]
    /\ notified \in [Checks -> Status]
    /\ world \in [Targets -> Results]
    /\ ctxDone \in BOOLEAN
    /\ syncCh \in BOOLEAN
    /\ start \in [pc : {"list", "reconcile", "select", "stopped"}, list : SUBSET Listed]
    /\ active \in [Checks -> Loops \cup {NoLoop}]
    /\ proc \in [Procs -> Proc]
    /\ \A p \in Procs : proc[p].pc = "baseline" => proc[p].answer \in Answers

\* The books of the scheduler are exact: a cancel function is on file for a check
\* exactly when a goroutine for that check runs that nobody has cancelled (while
\* the context stands; once it is done loops end before cancelAll drops them).  So
\* syncChecks never leaks a loop it can no longer stop, and no two loops that
\* were not cancelled probe one check (scheduler.go:110-125).
LiveLoop(l) == IsLoop(l) /\ ~proc[l].cancelled

OnFileIsLive ==
    \A c \in Checks : active[c] # NoLoop /\ ~ctxDone =>
        LiveLoop(active[c]) /\ proc[active[c]].check = c

LiveIsOnFile ==
    \A l \in Loops : LiveLoop(l) =>
        proc[l].check \in Checks /\ active[proc[l].check] = l

ActiveIsExact == OnFileIsLive /\ LiveIsOnFile

\* Once a loop has been cancelled nothing it still does reaches the database: a
\* probe in flight when its check is paused, deleted or restarted leaves no
\* status, no baseline and no event behind (the ctx given to every store call).
CancelledLoopIsSilent ==
    [][\A l \in Loops : Cancelled(l) /\ proc'[l] # proc[l]
                             => UNCHANGED <<rows, notified>>]_vars

\* Deleting a check is final: whatever loops, jobs and handlers still hold a copy
\* of the row, none of their writes brings it back (checks.go repo Update,
\* UpdateStatus and SetDNSBaseline are UPDATEs by id).
DeletedStaysDeleted ==
    [][\A c \in Checks : rows[c].life = "gone" => rows'[c] = rows[c]]_vars

\* An outage is announced: while a loop that started from a known status is the
\* only writer, a stored status other than that one was put there after an event
\* that names it.
OutageAnnounced ==
    \A l \in Loops : LiveLoop(l) /\ ~ctxDone =>
        LET c == proc[l].check IN
        Stored(c) /\ rows[c].status # proc[l].copy.status /\ proc[l].copy.status # ""
            => /\ notified[c] # ""
               /\ proc[l].pc # "reported" => notified[c] = rows[c].status

\* A DNS warning has a stored baseline behind it: whether a capture, a creation or
\* a reset failed halfway, nobody judges by an answer the table never kept
\* (dns.go: the checker adopts the answer only after SetDNSBaseline succeeded).
WarningHasBaseline ==
    \A c \in Checks :
        Stored(c) /\ rows[c].status = "warn" => rows[c].baseline # NoBaseline

Wanted(c)  == Stored(c) /\ rows[c].enabled
Watched(c) == active[c] # NoLoop

\* Pausing or deleting a check ends its loop, and enabling or creating one starts
\* it, without a restart: the table and the running loops come to agree about
\* every check whose row stops changing (scheduler.go:14-20).
SchedulerConverges ==
    \A c \in Checks :
        /\ Wanted(c) ~> (Watched(c) \/ ~Wanted(c) \/ ctxDone)
        /\ ~Wanted(c) ~> (~Watched(c) \/ Wanted(c))

\* No signal is lost: while every change of the table is a pause or a resume and
\* the database answers, a scheduler that waits with an empty channel watches
\* exactly the enabled checks, without help from its ticker, even when the channel
\* was full when the last signal came (scheduler.go:49-57, checks.go:302-307).
NoSignalLost ==
    start.pc = "select" /\ ~syncCh /\ ~ctxDone /\ (\A h \in Requests : proc[h].pc # "nudge")
        => \A c \in Checks : Wanted(c) <=> Watched(c)

\* Cancelling the context ends every loop and Start itself (scheduler.go:72-76).
ShutdownDrains ==
    ctxDone ~> (start.pc = "stopped" /\ \A l \in Loops : proc[l] = Idle)

-----------------------------------------------------------------------------
(* What the comments and documents of the repository say *)

\* A down that was announced is followed by the announcement of the recovery:
\* when nobody is in the middle of a run, the last event and the stored status
\* agree (ping.go:37, "up->down or down->up").
AtRest == ~ctxDone /\ \A p \in Procs : proc[p].pc \in {"idle", "ticking"}

LastEventMatchesStatus ==
    AtRest => \A c \in Checks :
        Stored(c) => notified[c] \in {"", rows[c].status}
=============================================================================

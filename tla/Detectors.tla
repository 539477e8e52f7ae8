------------------------------- MODULE Detectors -------------------------------
(***************************************************************************)
(* How the scans of internal/scanner turn readings into events: the        *)
(* threshold tracker and the two Docker pollers of scanner/metrics, and    *)
(* the snapshot scanners of scanner/snapshot.  Every scanner compares a    *)
(* reading with what it remembers of the one before, and announces some of *)
(* the differences.  They differ in what they remember and where, in the   *)
(* order of remembering and announcing, and in what they announce.         *)
(***************************************************************************)
EXTENDS Integers

CONSTANTS
    Keys,        \* what is measured: an entity and a metric of it
    Kind,        \* the detector that watches each key
    Readings,    \* what may be read of each key
    Passes,      \* scan goroutines that may be at work at once, ticks and requests alike
    DbMayFail,   \* TRUE: a database call may fail
    Nothing,     \* no reading remembered
    Stopped,     \* the reading of a container that is not running
    Starting, Healthy, Unhealthy,   \* the readings of a HEALTHCHECK
    Untold,      \* no level: no event of the key, no base line
    NoKey

Trackers   == {"cpu", "temp"}            \* ThresholdTracker.CheckAndFire
Pollers    == Trackers \cup {"container"}
InMemory   == Pollers \cup {"health", "router"}
Utilised   == {"disk", "pool"}           \* snapshots that keep a printed percentage
Snapshots  == Utilised \cup {"ssl"}
Stamped    == {"pool", "ssl"}        \* whose rows bear the time before the probe
Kinds      == InMemory \cup Snapshots

ASSUME DetectorConstants ==
    /\ Kind \in [Keys -> Kinds]
    /\ \A k \in Keys : Readings[k] # {} /\ {Nothing, Untold} \cap Readings[k] = {}
    /\ \A k \in Keys : Kind[k] \in Utilised => Readings[k] \subseteq Int
    /\ Nothing \notin Int /\ Untold \notin Int
    /\ Healthy # Unhealthy
    /\ DbMayFail \in BOOLEAN
    /\ NoKey \notin Keys

VARIABLES
    world,      \* what a probe of each key would read now
    known,      \* what the detector remembers of each key
    pass,       \* the scan goroutines
    \* What a reader of the events has, for the properties:
    announced,  \* the level the last event in the table tells of each key
    base,       \* the level the detector began with, as long as it has written no event
    faulty      \* a call failed, or a crash came, since the last event or loss of memory

detVars == <<world, known, announced, base, faulty, pass>>

-----------------------------------------------------------------------------
(* Percentages of disks and pools are given in thousandths of a percent, two *)
(* decimals of which are printed; the others in percent, degrees and days.   *)

Normal   == 0
Warn     == 1
Error    == 2
Critical == 3

\* storageCondition
StorageLevel(n) == IF n >= 90000 THEN Error ELSE IF n >= 80000 THEN Warn ELSE Normal

\* Mutated SslLevel: a bucket for each week.
SslWeeks(days) == days \div 7

\* sslCondition
SslLevel(days) == IF days <= 0 THEN Critical ELSE IF days <= 7 THEN Error
                  ELSE IF days <= 30 THEN Warn ELSE Normal

Level(k, v) ==
    CASE Kind[k] = "cpu"       -> IF v > 90 THEN Warn ELSE Normal
      [] Kind[k] = "temp"      -> IF v > 90 THEN Error ELSE IF v > 80 THEN Warn ELSE Normal
      [] Kind[k] = "container" -> IF v > 95 THEN Error ELSE IF v > 80 THEN Warn ELSE Normal
      [] Kind[k] = "ssl"       -> SslLevel(v)
      [] Kind[k] \in Utilised  -> StorageLevel(v)
      [] OTHER                 -> v

\* The "%.2f" of a percentage.
Printed(n) == ((n + 5) \div 10) * 10

\* What is kept of a reading, and the level it is later taken for.
Kept(k, v)      == IF Kind[k] \in Utilised THEN Printed(v) ELSE Level(k, v)
LevelKept(k, m) == IF Kind[k] \in Utilised THEN StorageLevel(m) ELSE m

\* Before its first reading a poller takes a key to be normal; the others take the
\* first reading for the base line.
Before(k, m) == IF m = Nothing /\ Kind[k] \in Pollers THEN Normal ELSE m

\* Mutated Tells: a return to normal is not announced.
TellsBreachOnly(k, prev, v) ==
    LET old == Before(k, prev) IN
    old # Nothing /\ Kept(k, v) # old /\ Level(k, v) # Normal

\* Mutated Tells: every reading outside the normal range is announced.
TellsEveryBreach(k, prev, v) ==
    LET old == Before(k, prev) IN
    old # Nothing /\ (Kept(k, v) # old \/ Level(k, v) # Normal)

\* Is the step from prev to v announced?
Tells(k, prev, v) ==
    LET old == Before(k, prev)
        new == Kept(k, v) IN
    /\ old # Nothing /\ new # old
    /\ Kind[k] = "health" => new = Unhealthy \/ (new = Healthy /\ old = Unhealthy)
    /\ Kind[k] = "disk"   => Level(k, v) # LevelKept(k, old)
    /\ Kind[k] = "pool"   => Level(k, v) # Normal

\* The base line of a detector that remembers nothing.
Blank(k) == IF Kind[k] \in Pollers THEN Normal ELSE Untold

Idle == [key |-> NoKey, pc |-> "idle", value |-> Nothing, prev |-> Nothing, ok |-> TRUE,
         before |-> {}, late |-> FALSE]

\* The passes other than p, without a trace of p.
Without(p) == [q \in Passes |-> [pass[q] EXCEPT !.before = @ \ {p}]]

Outcomes == IF DbMayFail THEN BOOLEAN ELSE {TRUE}

-----------------------------------------------------------------------------
Init ==
    /\ world = [k \in Keys |-> CHOOSE v \in Readings[k] : TRUE]   \* Change makes it any
    /\ known = [k \in Keys |-> Nothing]
    /\ announced = [k \in Keys |-> Untold]
    /\ base = [k \in Keys |-> Blank(k)]
    /\ faulty = [k \in Keys |-> FALSE]
    /\ pass = [p \in Passes |-> Idle]

Change(k) ==
    /\ \E v \in Readings[k] : world' = [world EXCEPT ![k] = v]
    /\ UNCHANGED <<known, announced, base, faulty, pass>>

\* The other passes whose rows of k would be older than one stamped now.
Earlier(p, k) == {q \in Passes \ {p} : /\ pass[q].key = k
                                        /\ pass[q].pc = "begun" => Kind[k] \in Stamped}

\* A scan of the key begins, of a container when it is listed as running.
Begin(p, k) ==
    /\ pass[p] = Idle
    /\ world[k] # Stopped
    /\ pass' = [Without(p) EXCEPT ![p] =
                   [Idle EXCEPT !.key = k, !.pc = "begun",
                                !.before = IF Kind[k] \in Stamped THEN Earlier(p, k) ELSE {}]]
    /\ UNCHANGED <<world, known, announced, base, faulty>>

\* It reads the key.  A probe that fails ends the scan of the key.
Probe(p) ==
    LET k == pass[p].key IN
    /\ pass[p].pc = "begun"
    /\ \/ /\ world[k] # Stopped
          /\ pass' = [pass EXCEPT ![p].pc = "probed", ![p].value = world[k],
                 ![p].before = IF Kind[k] \in Stamped THEN pass[p].before ELSE Earlier(p, k)]
       \/ pass' = [pass EXCEPT ![p] = Idle]
    /\ UNCHANGED <<world, known, announced, base, faulty>>

\* A pass of pollAll begins by forgetting the containers that are not running.
Forget(p, k) ==
    /\ pass[p] = Idle
    /\ Kind[k] = "container"
    /\ world[k] = Stopped
    /\ known' = [known EXCEPT ![k] = Nothing]
    /\ base' = [base EXCEPT ![k] = Blank(k)]
    /\ faulty' = [faulty EXCEPT ![k] = FALSE]
    /\ UNCHANGED <<world, announced, pass>>

\* load, sync.Map.Load, GetLatest: an error of GetLatest is taken for "no row".
Recall(p) ==
    /\ pass[p].pc = "probed"
    /\ Kind[pass[p].key] # "router"
    /\ \E ok \in IF Kind[pass[p].key] \in Snapshots THEN Outcomes ELSE {TRUE} :
        pass' = [pass EXCEPT ![p].pc = IF Kind[pass[p].key] = "container" THEN "tell" ELSE "keep",
                             ![p].prev = IF ok THEN known[pass[p].key] ELSE Nothing,
                             ![p].ok = ok]
    /\ UNCHANGED <<world, known, announced, base, faulty>>

\* The swap of the router states: recall and remember in one step.
Swap(p) ==
    /\ pass[p].pc = "probed"
    /\ Kind[pass[p].key] = "router"
    /\ pass' = [pass EXCEPT ![p].pc = "tell", ![p].prev = known[pass[p].key]]
    /\ known' = [known EXCEPT ![pass[p].key] = pass[p].value]
    /\ UNCHANGED <<world, announced, base, faulty>>

\* store, sync.Map.Store, Insert: the newest row of the snapshots is the one with the
\* latest captured_at, which a pass takes before or after its probe (Stamped).
Keep(p) ==
    LET k == pass[p].key IN
    /\ pass[p].pc = "keep"
    /\ \E ok \in IF Kind[k] \in Snapshots THEN Outcomes ELSE {TRUE} :
        LET newest == ok /\ ~(Kind[k] \in Snapshots /\ pass[p].late) IN
        /\ known' = IF newest THEN [known EXCEPT ![k] = Kept(k, pass[p].value)] ELSE known
        /\ pass' = [q \in Passes |->
                      IF q = p
                      THEN IF Kind[k] = "container" THEN Idle
                           ELSE [pass[p] EXCEPT !.pc = "tell", !.ok = @ /\ ok]
                      ELSE [pass[q] EXCEPT !.late = @ \/ (ok /\ q \in pass[p].before)]]
    /\ UNCHANGED <<world, announced, base, faulty>>

\* The event, when there is one.  The first reading of a snapshot, of a container's health
\* or of a router is a base line, of which there is none.
Tell(p) ==
    LET k     == pass[p].key
        now   == Level(k, pass[p].value)
        told  == Tells(k, pass[p].prev, pass[p].value)
        first == pass[p].prev = Nothing /\ Kind[k] \notin Pollers
    IN
    /\ pass[p].pc = "tell"
    /\ \E ok \in IF told THEN Outcomes ELSE {TRUE} :
        /\ announced' = [announced EXCEPT ![k] = IF told /\ ok THEN now ELSE @]
        /\ base' = [base EXCEPT ![k] = IF told /\ ok THEN Untold
                                       ELSE IF first /\ pass[p].ok THEN now ELSE @]
        /\ faulty' = [faulty EXCEPT ![k] = ~pass[p].ok \/ ~ok \/ (@ /\ ~told)]
    /\ pass' = [pass EXCEPT ![p] = IF Kind[k] = "container" THEN [@ EXCEPT !.pc = "keep"]
                                  ELSE Idle]
    /\ UNCHANGED <<world, known>>

\* The process ends and starts again: the snapshots and the events are in the database,
\* the rest is gone with the memory.
Restart ==
    /\ pass' = [p \in Passes |-> Idle]
    /\ known' = [k \in Keys |-> IF Kind[k] \in InMemory THEN Nothing ELSE known[k]]
    /\ base' = [k \in Keys |-> IF Kind[k] \in InMemory THEN Blank(k) ELSE base[k]]
    /\ faulty' = [k \in Keys |->
                    Kind[k] \notin InMemory /\ (faulty[k] \/ \E p \in Passes : pass[p].key = k /\ pass[p].pc = "tell")]
    /\ UNCHANGED <<world, announced>>

Next ==
    \/ \E k \in Keys : Change(k)
    \/ \E p \in Passes, k \in Keys : Begin(p, k) \/ Forget(p, k)
    \/ \E p \in Passes : Probe(p) \/ Recall(p) \/ Swap(p) \/ Keep(p) \/ Tell(p)
    \/ Restart

Spec == Init /\ [][Next]_detVars

-----------------------------------------------------------------------------
Values == UNION {Readings[k] : k \in Keys}
Levels == {Normal, Warn, Error, Critical, Untold} \cup Values
Memory == {Nothing} \cup Values \cup {Printed(v) : v \in Values \cap Int} \cup Levels

PassType == [key: Keys \cup {NoKey}, pc: {"idle", "begun", "probed", "keep", "tell"},
             value: Values \cup {Nothing}, prev: Memory, ok: BOOLEAN,
             before: SUBSET Passes, late: BOOLEAN]

\* A pass at work has a key and a reading of it.
Sound(r) == IF r.pc = "idle" THEN r.key = NoKey
            ELSE r.key \in Keys /\ (r.pc # "begun" => r.value \in Readings[r.key])

\* Every variable keeps its type: what a detector remembers is a level or a reading, and
\* a pass at work is at work on a key it has read.
TypeOK ==
    /\ world \in [Keys -> Values] /\ \A k \in Keys : world[k] \in Readings[k]
    /\ known \in [Keys -> Memory]
    /\ announced \in [Keys -> Levels] /\ base \in [Keys -> Levels]
    /\ faulty \in [Keys -> BOOLEAN]
    /\ pass \in [Passes -> PassType]
    /\ \A p \in Passes : Sound(pass[p])

\* A disk whose percentages have no more than the two decimals that are kept of them.
Exact(k) == \A v \in Readings[k] : Printed(v) = v

\* The kinds that announce every change of level both ways.
Faithful(k) == Kind[k] \notin {"health", "pool"} /\ (Kind[k] = "disk" => Exact(k))

\* What tells the level of a key: the base line of a detector that has written no event
\* since it began, else the last event.
Tale(k) == IF base[k] # Untold THEN base[k] ELSE announced[k]

\* The tale agrees with m, of what a detector may remember of k.
Agrees(k, m) ==
    Before(k, m) # Nothing =>
        /\ Faithful(k) => Tale(k) = LevelKept(k, Before(k, m))
        /\ Kind[k] = "health" /\ Before(k, m) = Unhealthy => Tale(k) = Unhealthy

\* A pass between its first lasting effect and its end.
Midway(p) == \/ pass[p].pc = "tell"
             \/ pass[p].pc = "keep" /\ Kind[pass[p].key] = "container"

\* Why they go on doing so, while one pass is at work: until a pass remembers, what it
\* recalled is what was announced; until it announces, what it read is what is known.
InStep(p) ==
    LET k == pass[p].key
        r == pass[p]
    IN
    /\ ~r.late
    /\ (r.pc = "tell" /\ r.ok /\ ~faulty[k]) => Agrees(k, r.prev)
    /\ (r.pc = "keep" /\ Kind[k] # "container" /\ r.ok) => known[k] = r.prev
    /\ (r.pc = "keep" /\ Kind[k] = "container" /\ ~faulty[k]) => Agrees(k, Kept(k, r.value))
    /\ (r.pc = "tell" /\ Kind[k] # "container" /\ r.ok) => known[k] = Kept(k, r.value)

Tracks ==
    /\ \A k \in Keys :
         (~faulty[k] /\ \A p \in Passes : pass[p].key = k => ~Midway(p)) => Agrees(k, known[k])
    /\ \A p \in Passes : InStep(p)

\* A snapshot begins once: while it has its base line, or none, there is no event of it; nor
\* is there while a pass takes its reading for the first.
BeginsOnce ==
    /\ \A k \in Keys : (Kind[k] \in Snapshots /\ (base[k] # Untold \/ known[k] = Nothing)) =>
           announced[k] = Untold
    /\ \A p \in Passes :
         LET k == pass[p].key IN
         (pass[p].pc \in {"keep", "tell"} /\ Kind[k] \in Snapshots) =>
             IF pass[p].prev = Nothing THEN pass[p].ok => announced[k] = Untold
             ELSE known[k] # Nothing

\* Between passes, and while no call has failed, the last event in the table tells the
\* level the detector remembers, so no crossing and no recovery was swallowed, whatever
\* the order of remembering and announcing (metrics/events.go, docker_metrics.go,
\* snapshot/events.go); or no event was written since the detector began, and the level is
\* the one it began with.  A detector that keeps its rows begins once.  One that keeps its
\* memory begins anew with the process, and for a container that stopped: then the last
\* event may be of an earlier life, and a recovery in between is never told.
EventsTellState ==
    \A k \in Keys :
        (/\ known[k] # Nothing
         /\ ~faulty[k]
         /\ \A p \in Passes : pass[p].key # k) =>
            LET Reads(l) == \/ announced[k] = l
                            \/ base[k] = l /\ (announced[k] # Untold => Kind[k] \in InMemory)
            IN /\ Faithful(k) => Reads(LevelKept(k, known[k]))
               /\ Kind[k] = "health" /\ known[k] = Unhealthy => Reads(Unhealthy)

\* An event tells something new: while no call has failed, none is written for a level
\* the last event of the key told already ("at most once per crossing", metrics/events.go:7),
\* but the first that a detector writes after it lost its memory with the process or the
\* container, and that one tells a level other than it began with.  A container that left
\* "unhealthy" by way of "starting" is not announced to be healthy, and may then be
\* unhealthy twice; a pool above its threshold is announced at every change of its printed
\* percentage.
NoRepeat ==
    \A p \in Passes :
        LET k   == pass[p].key
            now == Level(k, pass[p].value)
        IN
        (/\ pass[p].pc = "tell" /\ Kind[k] # "pool"
         /\ ~faulty[k] /\ pass[p].ok
         /\ Tells(k, pass[p].prev, pass[p].value)) =>
            \/ announced[k] # now
            \/ Kind[k] \in InMemory /\ base[k] \notin {Untold, now}
            \/ Kind[k] = "health" /\ now = Unhealthy
=============================================================================

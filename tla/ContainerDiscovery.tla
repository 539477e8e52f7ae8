--------------------------- MODULE ContainerDiscovery ---------------------------
(***************************************************************************)
(* How the table discovered_containers follows the Docker daemon: the      *)
(* watcher hands every lifecycle event to a goroutine of its own, a scan   *)
(* at start-up lists what runs, and an hourly pass, which may also be      *)
(* asked for, lists all containers and reconciles the rows it knew.  Rows  *)
(* are keyed by name; the daemon gives a rebuilt container a new id.       *)
(***************************************************************************)
EXTENDS Naturals, FiniteSets

CONSTANTS
    Names,          \* of containers
    Ids,            \* of the daemon
    Passes,         \* passes that may be at work at a time
    NoId,
    MaxInFlight,    \* bound on the events being handled
    MaxUpsets       \* bound on the restarts, deletions and failing calls

ASSUME DiscoveryConstants ==
    /\ NoId \notin Ids
    /\ MaxInFlight \in Nat /\ MaxUpsets \in Nat

VARIABLES
    world,      \* the daemon's containers
    rows,       \* discovered_containers of the engine
    inflight,   \* upserts that goroutines of the watcher are about to make
    pass,       \* the passes at work
    upsets      \* how many restarts, deletions and failures there have been

discoVars == <<world, rows, inflight, pass, upsets>>

-----------------------------------------------------------------------------
Status    == {"running", "stopped", "exited"}
Container == [id: Ids, running: BOOLEAN]
Absent    == [id |-> NoId, running |-> FALSE]
Row       == [id: Ids, status: Status]
NoRow     == [id |-> NoId, status |-> "stopped"]
Upsert    == [name: Names, id: Ids, status: Status]

\* What a pass holds of a row it has read: gone says that the row was deleted since, so
\* that its UUID is no longer in the table.
Seen == [row: Row \cup {NoRow}, gone: BOOLEAN]

Idle == [pc |-> "idle", kind |-> "scan", list |-> [n \in Names |-> Absent],
         known |-> [n \in Names |-> [row |-> NoRow, gone |-> FALSE]],
         todo |-> {}, quiet |-> {}]

Listed(p)  == {n \in Names : pass[p].list[n] # Absent}
Current(p) == {pass[p].list[n].id : n \in Listed(p)}
Running(p) == {pass[p].list[n].id : n \in {m \in Listed(p) : pass[p].list[m].running}}

\* Ids that somebody still holds; the daemon never gives one twice.
Held ==
    {world[n].id : n \in Names} \cup {rows[n].id : n \in Names} \cup {u.id : u \in inflight}
    \cup UNION {{pass[p].list[n].id, pass[p].known[n].row.id} : n \in Names, p \in Passes}

\* UpsertDiscoveredContainer, on (engine, name).
Put(table, n, id, status) == [table EXCEPT ![n] = [id |-> id, status |-> status]]

\* Whatever happens to the container or the row of n, the other passes are told apart
\* from an undisturbed one.
Disturbed(ps, n) == [p \in Passes |-> [ps[p] EXCEPT !.quiet = @ \ {n}]]

\* A restart, a deletion or a failing call.
Upset == upsets < MaxUpsets /\ upsets' = upsets + 1

-----------------------------------------------------------------------------
(* The daemon.  The watcher gets the events of a change, or is not connected. *)

\* Mutated After: a container that dies is recorded by the name of the event.
AfterNamed == [start |-> "running", restart |-> "running", die |-> "die",
               stop |-> "stopped", kill |-> "stopped"]

\* containerStatusFromAction
After == [start |-> "running", restart |-> "running", die |-> "exited",
          stop |-> "stopped", kill |-> "stopped"]

Hear(n, id, actions) ==
    LET ups == {[name |-> n, id |-> id, status |-> After[a]] : a \in actions} IN
    \/ inflight' = inflight
    \/ /\ Cardinality(inflight \cup ups) <= MaxInFlight
       /\ inflight' = inflight \cup ups

Becomes(n, c, actions) ==
    /\ world' = [world EXCEPT ![n] = c]
    /\ Hear(n, world[n].id, actions)
    /\ pass' = Disturbed(pass, n)
    /\ UNCHANGED <<rows, upsets>>

Turn(n) == [world[n] EXCEPT !.running = ~@]

\* A restart is a stop and a start, and the event of its own says no more than the start.
DaemonStep(n) ==
    \/ \E id \in Ids \ Held :
        world[n] = Absent /\ Becomes(n, [id |-> id, running |-> FALSE], {})
    \/ /\ world[n] # Absent
       /\ \/ ~world[n].running /\ Becomes(n, Turn(n), {"start", "restart"})
          \/ ~world[n].running /\ Becomes(n, Absent, {})
          \/ world[n].running /\ Becomes(n, Turn(n), {"kill", "die", "stop"})
          \/ world[n].running /\ Becomes(n, Turn(n), {"die"})

-----------------------------------------------------------------------------
(* The watcher's goroutines end in any order. *)

HandleEvent(u) ==
    /\ inflight' = inflight \ {u}
    /\ pass' = Disturbed(pass, u.name)
    /\ \/ rows' = Put(rows, u.name, u.id, u.status) /\ UNCHANGED upsets
       \/ Upset /\ UNCHANGED rows
    /\ UNCHANGED world

-----------------------------------------------------------------------------
(* Passes *)

\* What ContainerList returns: a scan does not ask for containers that do not run.
ListFor(kind) ==
    [n \in Names |-> IF kind = "scan" /\ ~world[n].running THEN Absent ELSE world[n]]

Begun(kind) ==
    [Idle EXCEPT !.pc = IF kind = "scan" THEN "upsert" ELSE "known",
                 !.kind = kind, !.list = ListFor(kind), !.quiet = Names,
                 !.todo = {n \in Names : ListFor(kind)[n] # Absent}]

\* Mutated Discover: the mark of a pass at work is not taken away when it ends.
DiscoverOnce(p) ==
    /\ pass[p].pc = "idle"
    /\ pass' = [pass EXCEPT ![p] = Begun("discover")]
    /\ UNCHANGED <<world, rows, inflight, upsets>>

\* The hourly pass, or the one asked for.
Discover(p) ==
    /\ pass[p].pc \in {"idle", "done"}
    /\ pass' = [pass EXCEPT ![p] = Begun("discover")]
    /\ UNCHANGED <<world, rows, inflight, upsets>>

ReadKnown(p) ==
    /\ pass[p].pc = "known"
    /\ \/ /\ pass' = [pass EXCEPT ![p].pc = "upsert",
                                  ![p].known = [n \in Names |-> [row |-> rows[n], gone |-> FALSE]]]
          /\ UNCHANGED upsets
       \/ Upset /\ pass' = [pass EXCEPT ![p] = Idle]
    /\ UNCHANGED <<world, rows, inflight>>

\* One container of the list; a row that could not be written is skipped.
UpsertListed(p, n) ==
    LET c == pass[p].list[n] IN
    /\ pass[p].pc = "upsert" /\ n \in pass[p].todo
    /\ \/ /\ rows' = Put(rows, n, c.id, IF c.running THEN "running" ELSE "stopped")
          /\ pass' = [Disturbed(pass, n) EXCEPT ![p] = [pass[p] EXCEPT !.todo = @ \ {n}]]
          /\ UNCHANGED upsets
       \/ /\ Upset
          /\ pass' = [pass EXCEPT ![p].todo = @ \ {n}, ![p].quiet = @ \ {n}]
          /\ UNCHANGED rows
    /\ UNCHANGED <<world, inflight>>

\* Mutated Vanished: the test of the status is turned around.
VanishedStopped(p) ==
    {n \in Names : LET r == pass[p].known[n].row IN
        r # NoRow /\ r.status = "stopped" /\ r.id \notin Current(p)}

\* The rows Discover knew whose containers the daemon no longer returned.
Vanished(p) ==
    {n \in Names : LET r == pass[p].known[n].row IN
        r # NoRow /\ r.status # "stopped" /\ r.id \notin Current(p)}

UpsertsEnd(p) ==
    /\ pass[p].pc = "upsert" /\ pass[p].todo = {}
    /\ pass' = [pass EXCEPT ![p].pc = "mark",
                            ![p].todo = IF pass[p].kind = "scan" THEN {} ELSE Vanished(p)]
    /\ UNCHANGED <<world, rows, inflight, upsets>>

\* UpdateDiscoveredContainerStatus by the UUID that was read.
MarkVanished(p, n) ==
    /\ pass[p].pc = "mark" /\ pass[p].kind = "discover" /\ n \in pass[p].todo
    /\ \/ /\ rows' = IF pass[p].known[n].gone THEN rows ELSE [rows EXCEPT ![n].status = "stopped"]
          /\ pass' = [Disturbed(pass, n) EXCEPT ![p] = [pass[p] EXCEPT !.todo = @ \ {n}]]
          /\ UNCHANGED upsets
       \/ /\ Upset
          /\ pass' = [pass EXCEPT ![p].todo = @ \ {n}, ![p].quiet = @ \ {n}]
          /\ UNCHANGED rows
    /\ UNCHANGED <<world, inflight>>

MarksEnd(p) ==
    /\ pass[p].pc = "mark" /\ pass[p].kind = "discover" /\ pass[p].todo = {}
    /\ pass' = [pass EXCEPT ![p].pc = "done"]
    /\ UNCHANGED <<world, rows, inflight, upsets>>

\* MarkStoppedIfNotRunning, one statement over the table as it is now.
NotRunning(p) == {n \in Names : rows[n].status = "running" /\ rows[n].id \notin Running(p)}

MarkNotRunning(p) ==
    /\ pass[p].pc = "mark" /\ pass[p].kind = "scan"
    /\ \/ /\ rows' = [n \in Names |-> IF n \in NotRunning(p) THEN [rows[n] EXCEPT !.status = "stopped"]
                                                            ELSE rows[n]]
          /\ pass' = [q \in Passes |->
                        IF q = p THEN [pass[p] EXCEPT !.pc = "done"]
                        ELSE [pass[q] EXCEPT !.quiet = @ \ NotRunning(p)]]
          /\ UNCHANGED upsets
       \/ Upset /\ pass' = [pass EXCEPT ![p] = Idle] /\ UNCHANGED rows
    /\ UNCHANGED <<world, inflight>>

PassStep(p) ==
    \/ ReadKnown(p)
    \/ \E n \in Names : UpsertListed(p, n) \/ MarkVanished(p, n)
    \/ UpsertsEnd(p) \/ MarksEnd(p) \/ MarkNotRunning(p)

-----------------------------------------------------------------------------
(* Users and the process *)

Gone(known, names) == [n \in Names |-> [known[n] EXCEPT !.gone = @ \/ n \in names]]

\* DeleteContainer, or DeleteAllStoppedContainers of the clean-up job.
Delete(gone) ==
    /\ gone # {} /\ Upset
    /\ rows' = [n \in Names |-> IF n \in gone THEN NoRow ELSE rows[n]]
    /\ pass' = [p \in Passes |->
                  [pass[p] EXCEPT !.quiet = @ \ gone, !.known = Gone(@, gone)]]
    /\ UNCHANGED <<world, inflight>>

DeleteStep ==
    \/ \E n \in Names : rows[n] # NoRow /\ Delete({n})
    \/ Delete({n \in Names : rows[n] # NoRow /\ rows[n].status # "running"})

\* The process starts anew and scans, if the daemon answers.
Starts == {[q \in Passes |-> IF q = p THEN b ELSE Idle] : p \in Passes, b \in {Begun("scan"), Idle}}

Boot ==
    /\ Upset
    /\ inflight' = {} /\ pass' \in Starts
    /\ UNCHANGED <<world, rows>>

Init ==
    /\ world \in [Names -> Container \cup {Absent}]
    /\ \A n, m \in Names : n # m /\ world[n] # Absent => world[n].id # world[m].id
    /\ rows = [n \in Names |-> NoRow]
    /\ inflight = {} /\ pass \in Starts /\ upsets = 0

Next ==
    \/ \E n \in Names : DaemonStep(n)
    \/ \E u \in inflight : HandleEvent(u)
    \/ \E p \in Passes : Discover(p) \/ PassStep(p)
    \/ DeleteStep
    \/ Boot

Spec == Init /\ [][Next]_discoVars

\* Goroutines run, calls of the daemon and the database return, and the discovery tick
\* comes every hour.
Fairness ==
    /\ \A n \in Names, i \in Ids, s \in Status :
        LET u == [name |-> n, id |-> i, status |-> s]
        IN  WF_discoVars(u \in inflight /\ HandleEvent(u))
    /\ \A p \in Passes : WF_discoVars(PassStep(p)) /\ WF_discoVars(Discover(p))

FairSpec == Spec /\ Fairness

-----------------------------------------------------------------------------
PassType == [pc: {"idle", "known", "upsert", "mark", "done"}, kind: {"scan", "discover"},
             list: [Names -> Container \cup {Absent}], known: [Names -> Seen],
             todo: SUBSET Names, quiet: SUBSET Names]

\* Every variable keeps its type: rows say running, stopped or exited (docker_watcher.go
\* containerStatusFromAction), and no two containers of the daemon have one id.
TypeOK ==
    /\ world \in [Names -> Container \cup {Absent}]
    /\ \A n, m \in Names : n # m /\ world[n] # Absent => world[n].id # world[m].id
    /\ rows \in [Names -> Row \cup {NoRow}]
    /\ inflight \subseteq Upsert
    /\ pass \in [Passes -> PassType]
    /\ upsets \in 0..MaxUpsets

\* The row of n says what the daemon says.
Agrees(n) ==
    IF world[n].running THEN rows[n] = [id |-> world[n].id, status |-> "running"]
                        ELSE rows[n].status # "running"

\* The row a pass knew was of an earlier container of that name, and did not say stopped.
Rebuilt(p, n) ==
    LET r == pass[p].known[n].row IN
    r # NoRow /\ r.status # "stopped" /\ r.id \notin Current(p) /\ n \in Listed(p)

\* A pass that ends leaves the rows as the daemon is, for every container that neither
\* changed nor was written by others meanwhile, and whose row was of the same container
\* when the pass began (docker.go Discover, docker_discovery.go ScanAll).
PassesReconcile ==
    \A p \in Passes : pass[p].pc = "done" =>
        \A n \in pass[p].quiet : ~Rebuilt(p, n) => Agrees(n)

\* When a container changes no more, its row comes to agree with it and stays so, however
\* many events of it were lost, delayed or handled out of order, and even if it was
\* rebuilt unseen.
RowsConverge ==
    \A n \in Names : \A c \in Container \cup {Absent} :
        <>[](world[n] = c) => <>[]Agrees(n)
=============================================================================

------------------------ MODULE ContainerDiscoveryProofs ------------------------
(***************************************************************************)
(* A pass that ends leaves the rows right, proved for any number of        *)
(* containers, ids and overlapping passes.  Two things carry the proof:    *)
(* an id belongs to one name, whoever holds it, so comparing by id is      *)
(* comparing by name as long as nothing was rebuilt; and what a pass has   *)
(* done so far for a container that nobody disturbed.                      *)
(***************************************************************************)
EXTENDS ContainerDiscovery, TLAPS

\* The types of what a pass holds.
LEMMA PassFields ==
    ASSUME TypeOK, NEW p \in Passes
    PROVE  /\ pass[p] \in PassType
           /\ pass[p].pc \in {"idle", "known", "upsert", "mark", "done"}
           /\ pass[p].kind \in {"scan", "discover"}
           /\ pass[p].list \in [Names -> Container \cup {Absent}]
           /\ pass[p].known \in [Names -> Seen]
           /\ pass[p].todo \subseteq Names /\ pass[p].quiet \subseteq Names
BY DEF TypeOK, PassType

\* A pass that does nothing.
LEMMA IdleFields ==
    /\ Idle \in PassType
    /\ Idle.pc = "idle" /\ Idle.kind = "scan" /\ Idle.quiet = {} /\ Idle.todo = {}
    /\ Idle.list = [n \in Names |-> Absent]
    /\ Idle.known = [n \in Names |-> [row |-> NoRow, gone |-> FALSE]]
BY DEF Idle, PassType, Seen, Absent, NoRow

\* What the daemon returns.
LEMMA ListType ==
    ASSUME TypeOK, NEW kind
    PROVE  ListFor(kind) \in [Names -> Container \cup {Absent}]
BY DEF ListFor, TypeOK

\* A pass that begins.
LEMMA BegunFields ==
    ASSUME TypeOK, NEW kind \in {"scan", "discover"}
    PROVE  /\ Begun(kind) \in PassType
           /\ Begun(kind).pc = IF kind = "scan" THEN "upsert" ELSE "known"
           /\ Begun(kind).kind = kind /\ Begun(kind).list = ListFor(kind)
           /\ Begun(kind).quiet = Names
           /\ Begun(kind).todo = {n \in Names : ListFor(kind)[n] # Absent}
           /\ Begun(kind).known = Idle.known
<1> DEFINE l == ListFor(kind)
           t == {n \in Names : ListFor(kind)[n] # Absent}
<1>1. l \in [Names -> Container \cup {Absent}] /\ t \subseteq Names
  BY ListType
<1> HIDE DEF l, t
<1>2. Begun(kind) = [Idle EXCEPT !.pc = IF kind = "scan" THEN "upsert" ELSE "known",
                                 !.kind = kind, !.list = l, !.quiet = Names, !.todo = t]
  BY DEF Begun, l, t
<1>3. /\ Begun(kind) \in PassType
      /\ Begun(kind).pc = IF kind = "scan" THEN "upsert" ELSE "known"
      /\ Begun(kind).kind = kind /\ Begun(kind).list = l /\ Begun(kind).quiet = Names
      /\ Begun(kind).todo = t /\ Begun(kind).known = Idle.known
  BY <1>1, <1>2, IdleFields DEF PassType
<1> QED
  BY <1>3 DEF l, t

\* Putting a row of a proper status keeps the type of the table.
LEMMA PutType ==
    ASSUME TypeOK, NEW n \in Names, NEW id \in Ids, NEW status \in Status
    PROVE  Put(rows, n, id, status) \in [Names -> Row \cup {NoRow}]
BY DEF Put, TypeOK, Row

\* Passes that were told of a disturbance.
LEMMA DisturbedType ==
    ASSUME TypeOK, NEW n
    PROVE  /\ Disturbed(pass, n) \in [Passes -> PassType]
           /\ \A p \in Passes : Disturbed(pass, n)[p] = [pass[p] EXCEPT !.quiet = pass[p].quiet \ {n}]
BY ZenonT(60) DEF Disturbed, TypeOK, PassType

-----------------------------------------------------------------------------
\* The daemon's part of a step: what the watcher heard has a proper status.
LEMMA HearType ==
    ASSUME TypeOK, NEW n \in Names, world[n].id \in Ids,
           NEW actions \in SUBSET {"start", "restart", "die", "stop", "kill"},
           Hear(n, world[n].id, actions)
    PROVE  /\ inflight' \subseteq Upsert
           /\ \A u \in inflight' : u \in inflight \/ (u.name = n /\ u.id = world[n].id)
<1>1. \A a \in actions : After[a] \in Status
  BY DEF After, Status
<1> QED
  BY <1>1 DEF Hear, TypeOK, Upsert

\* What a step of the daemon does, in the form the steps below use.
LEMMA DaemonSteps ==
    ASSUME TypeOK, NEW n \in Names, DaemonStep(n)
    PROVE  /\ \E c \in Container \cup {Absent} :
                /\ world' = [world EXCEPT ![n] = c]
                /\ c = Absent \/ c.id = world[n].id \/ (world[n] = Absent /\ c.id \in Ids \ Held)
           /\ inflight' \subseteq Upsert
           /\ \A u \in inflight' : u \in inflight \/ (u.name = n /\ u.id = world[n].id /\ world[n] # Absent)
           /\ pass' = Disturbed(pass, n)
           /\ UNCHANGED <<rows, upsets>>
<1>0. world[n] \in Container \cup {Absent} /\ inflight \subseteq Upsert
  BY DEF TypeOK
<1>1. CASE \E id \in Ids \ Held :
             world[n] = Absent /\ Becomes(n, [id |-> id, running |-> FALSE], {})
  <2>1. PICK id \in Ids \ Held :
          world[n] = Absent /\ Becomes(n, [id |-> id, running |-> FALSE], {})
    BY <1>1
  <2> DEFINE c == [id |-> id, running |-> FALSE]
  <2>2. c \in Container /\ c.id \in Ids \ Held
    BY <2>1 DEF Container
  <2>3. inflight' = inflight
    BY <2>1 DEF Becomes, Hear
  <2>4. world[n] = Absent /\ Becomes(n, c, {})
    BY <2>1
  <2> HIDE DEF c
  <2> QED
    BY <1>0, <2>2, <2>3, <2>4 DEF Becomes
<1>2. ASSUME world[n] # Absent,
             NEW c \in {Turn(n), Absent},
             NEW actions \in SUBSET {"start", "restart", "die", "stop", "kill"},
             Becomes(n, c, actions)
      PROVE  /\ \E d \in Container \cup {Absent} :
                  /\ world' = [world EXCEPT ![n] = d]
                  /\ d = Absent \/ d.id = world[n].id
             /\ inflight' \subseteq Upsert
             /\ \A u \in inflight' : u \in inflight \/ (u.name = n /\ u.id = world[n].id)
             /\ pass' = Disturbed(pass, n)
             /\ UNCHANGED <<rows, upsets>>
  <2>1. world[n] \in Container /\ world[n].id \in Ids
    BY <1>0, <1>2 DEF Container
  <2>2. Turn(n) \in Container /\ Turn(n).id = world[n].id
    BY <2>1 DEF Turn, Container
  <2>3. inflight' \subseteq Upsert /\ \A u \in inflight' : u \in inflight \/ (u.name = n /\ u.id = world[n].id)
    BY <1>2, <2>1, HearType DEF Becomes
  <2> QED
    BY <1>2, <2>2, <2>3 DEF Becomes
<1>3. CASE world[n] # Absent
  <2>1. PICK c \in {Turn(n), Absent}, a \in SUBSET {"start", "restart", "die", "stop", "kill"} :
          Becomes(n, c, a)
    <3>1. CASE Becomes(n, Turn(n), {"start", "restart"})
      BY <3>1
    <3>2. CASE Becomes(n, Absent, {})
      BY <3>2
    <3>3. CASE Becomes(n, Turn(n), {"kill", "die", "stop"})
      BY <3>3
    <3>4. CASE Becomes(n, Turn(n), {"die"})
      BY <3>4
    <3> QED
      BY <1>3, <3>1, <3>2, <3>3, <3>4 DEF DaemonStep
  <2> QED
    BY <1>2, <1>3, <2>1
<1> QED
  BY <1>1, <1>3 DEF DaemonStep

-----------------------------------------------------------------------------
\* What Delete leaves of a pass.
LEMMA DeleteFields ==
    ASSUME TypeOK, NEW gone, gone \subseteq Names, Delete(gone), NEW p \in Passes
    PROVE  /\ pass'[p] \in PassType
           /\ pass'[p].pc = pass[p].pc /\ pass'[p].kind = pass[p].kind
           /\ pass'[p].list = pass[p].list /\ pass'[p].todo = pass[p].todo
           /\ pass'[p].quiet = pass[p].quiet \ gone
           /\ \A n \in Names : /\ pass'[p].known[n].row = pass[p].known[n].row
                              /\ pass'[p].known[n].gone = (pass[p].known[n].gone \/ n \in gone)
<1> DEFINE P == pass[p]
           k == [n \in Names |-> [P.known[n] EXCEPT !.gone = P.known[n].gone \/ n \in gone]]
           q == P.quiet \ gone
<1>1. P \in PassType /\ P.known \in [Names -> Seen] /\ P.quiet \subseteq Names
  BY PassFields
<1>2. ASSUME NEW n \in Names
      PROVE  /\ [P.known[n] EXCEPT !.gone = P.known[n].gone \/ n \in gone] \in Seen
             /\ k[n].row = P.known[n].row /\ k[n].gone = (P.known[n].gone \/ n \in gone)
  BY <1>1 DEF Seen
<1>3. k \in [Names -> Seen] /\ q \subseteq Names
  BY <1>1, <1>2
<1>4. pass'[p] = [P EXCEPT !.quiet = q, !.known = k]
  <2>1. k = Gone(P.known, gone)
    BY DEF Gone
  <2> QED
    BY <2>1 DEF Delete
<1> HIDE DEF P, k, q
<1>5. /\ pass'[p] \in PassType
      /\ pass'[p].pc = P.pc /\ pass'[p].kind = P.kind /\ pass'[p].list = P.list
      /\ pass'[p].todo = P.todo /\ pass'[p].quiet = q /\ pass'[p].known = k
  BY <1>1, <1>3, <1>4 DEF PassType
<1> QED
  BY <1>2, <1>5 DEF P, q

\* What a process that starts anew does at first.
LEMMA StartFields ==
    ASSUME TypeOK, NEW ps \in Starts
    PROVE  /\ ps \in [Passes -> PassType]
           /\ \A p \in Passes : ps[p] = Begun("scan") \/ ps[p] = Idle
<1>1. Begun("scan") \in PassType /\ Idle \in PassType
  BY BegunFields, IdleFields
<1>2. PICK p \in Passes, b \in {Begun("scan"), Idle} :
        ps = [q \in Passes |-> IF q = p THEN b ELSE Idle]
  BY DEF Starts
<1> HIDE DEF Begun, Idle
<1> QED
  BY <1>1, <1>2

\* A further upset is within the bound.
LEMMA UpsetType ==
    ASSUME TypeOK, Upset
    PROVE  upsets' \in 0..MaxUpsets
BY DiscoveryConstants DEF TypeOK, Upset

-----------------------------------------------------------------------------
\* A step of one pass that only takes a container off its list.
Written(p, n) == pass' = [Disturbed(pass, n) EXCEPT ![p] = [pass[p] EXCEPT !.todo = @ \ {n}]]
Skipped(p, n) == pass' = [pass EXCEPT ![p].todo = @ \ {n}, ![p].quiet = @ \ {n}]

Ticked(p, n) == Written(p, n) \/ Skipped(p, n)

\* Such a step keeps the type of the passes.
LEMMA TickedType ==
    ASSUME TypeOK, NEW p \in Passes, NEW n \in Names, Ticked(p, n)
    PROVE  pass' \in [Passes -> PassType]
<1>1. /\ pass[p] \in PassType /\ pass[p].todo \subseteq Names /\ pass[p].quiet \subseteq Names
      /\ pass \in [Passes -> PassType]
  BY PassFields DEF TypeOK
<1>2. [pass[p] EXCEPT !.todo = @ \ {n}] \in PassType
  BY <1>1 DEF PassType
<1>3. [pass[p] EXCEPT !.todo = @ \ {n}, !.quiet = @ \ {n}] \in PassType
  BY <1>1 DEF PassType
<1>4. CASE Written(p, n)
  BY <1>2, <1>4, DisturbedType DEF Written
<1>5. CASE Skipped(p, n)
  BY <1>1, <1>3, <1>5 DEF Skipped
<1> QED
  BY <1>4, <1>5 DEF Ticked

\* A pass puts only what it has listed, and only an hourly one reads the table.
Course(P) ==
    /\ P.pc \in {"known", "upsert"} => \A n \in P.todo : P.list[n] # Absent
    /\ P.pc = "known" => P.kind = "discover"

Courses == \A p \in Passes : Course(pass[p])

\* With Courses, TypeOK is inductive: no step of the daemon, the watcher, a pass or a user leaves a
\* value of another type, and a new container has an id of its own.
LEMMA TypeInductive ==
    ASSUME TypeOK, Courses, [Next]_discoVars
    PROVE  TypeOK'
<1> USE DEF TypeOK
<1>1. ASSUME NEW n \in Names, DaemonStep(n)
      PROVE  TypeOK'
  <2>1. PICK c \in Container \cup {Absent} :
          /\ world' = [world EXCEPT ![n] = c]
          /\ c = Absent \/ c.id = world[n].id \/ (world[n] = Absent /\ c.id \in Ids \ Held)
    BY <1>1, DaemonSteps
  <2>2. /\ inflight' \subseteq Upsert /\ pass' = Disturbed(pass, n) /\ UNCHANGED <<rows, upsets>>
    BY <1>1, DaemonSteps
  <2>3. ASSUME NEW k \in Names, NEW m \in Names, k # m, world'[k] # Absent
        PROVE  world'[k].id # world'[m].id
    <3>1. \A x \in Names : world[x].id \in Held /\ (world[x].id = NoId => world[x] = Absent)
      BY DiscoveryConstants DEF Held, Container, Absent
    <3>2. \A x, y \in Names : x # y /\ world[x] # Absent => world[x].id # world[y].id
      OBVIOUS
    <3>3. Absent.id = NoId
      BY DEF Absent
    <3>4. \A x \in Names : world'[x] = IF x = n THEN c ELSE world[x]
      BY <2>1
    <3>5. c = Absent \/ c.id # NoId
      BY DiscoveryConstants DEF Container
    <3> QED
      BY <2>1, <2>3, <3>1, <3>2, <3>3, <3>4, <3>5
  <2> QED
    BY <2>1, <2>2, <2>3, DisturbedType
<1>2. ASSUME NEW u \in inflight, HandleEvent(u)
      PROVE  TypeOK'
  <2>1. u.name \in Names /\ u.id \in Ids /\ u.status \in Status
    BY DEF Upsert
  <2>2. Disturbed(pass, u.name) \in [Passes -> PassType]
    BY DisturbedType
  <2> QED
    BY <1>2, <2>1, <2>2, PutType, UpsetType DEF HandleEvent
<1>3. ASSUME NEW p \in Passes, Discover(p)
      PROVE  TypeOK'
  <2>1. Begun("discover") \in PassType
    BY BegunFields
  <2> QED
    BY <1>3, <2>1 DEF Discover
<1>4. ASSUME NEW p \in Passes, ReadKnown(p)
      PROVE  TypeOK'
  <2> DEFINE k == [n \in Names |-> [row |-> rows[n], gone |-> FALSE]]
  <2>1. k \in [Names -> Seen]
    BY DEF Seen
  <2> HIDE DEF k
  <2>2. CASE pass' = [pass EXCEPT ![p].pc = "upsert", ![p].known = k] /\ UNCHANGED upsets
    <3>1. [pass[p] EXCEPT !.pc = "upsert", !.known = k] \in PassType
      BY <2>1, PassFields DEF PassType
    <3> QED
      BY <1>4, <2>2, <3>1 DEF ReadKnown
  <2>3. CASE Upset /\ pass' = [pass EXCEPT ![p] = Idle]
    BY <1>4, <2>3, IdleFields, UpsetType DEF ReadKnown
  <2> QED
    BY <1>4, <2>2, <2>3 DEF ReadKnown, k
<1>5. ASSUME NEW p \in Passes, NEW n \in Names, UpsertListed(p, n)
      PROVE  TypeOK'
  <2>1. pass' \in [Passes -> PassType]
    BY <1>5, TickedType DEF UpsertListed, Ticked, Written, Skipped
  <2>2. CASE rows' = Put(rows, n, pass[p].list[n].id,
                         IF pass[p].list[n].running THEN "running" ELSE "stopped") /\ UNCHANGED upsets
    <3>1. pass[p].list[n].id \in Ids
      BY <1>5, PassFields DEF UpsertListed, Courses, Course, Container
    <3> QED
      BY <1>5, <2>1, <2>2, <3>1, PutType DEF UpsertListed, Status
  <2>3. CASE Upset /\ UNCHANGED rows
    BY <1>5, <2>1, <2>3, UpsetType DEF UpsertListed
  <2> QED
    BY <1>5, <2>2, <2>3 DEF UpsertListed
<1>6. ASSUME NEW p \in Passes, UpsertsEnd(p)
      PROVE  TypeOK'
  <2> DEFINE t == IF pass[p].kind = "scan" THEN {} ELSE Vanished(p)
  <2>1. t \subseteq Names
    BY DEF Vanished
  <2> HIDE DEF t
  <2>2. [pass[p] EXCEPT !.pc = "mark", !.todo = t] \in PassType
    BY <2>1, PassFields DEF PassType
  <2>3. pass' = [pass EXCEPT ![p] = [pass[p] EXCEPT !.pc = "mark", !.todo = t]]
    BY <1>6 DEF UpsertsEnd, t
  <2> QED
    BY ZenonT(60), <1>6, <2>2, <2>3 DEF UpsertsEnd
<1>7. ASSUME NEW p \in Passes, NEW n \in Names, MarkVanished(p, n)
      PROVE  TypeOK'
  <2>1. pass' \in [Passes -> PassType]
    BY <1>7, TickedType DEF MarkVanished, Ticked, Written, Skipped
  <2>2. CASE /\ rows' = IF pass[p].known[n].gone THEN rows ELSE [rows EXCEPT ![n].status = "stopped"]
             /\ UNCHANGED upsets
    <3>1. [rows[n] EXCEPT !.status = "stopped"] \in Row \cup {NoRow}
      BY DEF Row, NoRow, Status
    <3> QED
      BY <1>7, <2>1, <2>2, <3>1 DEF MarkVanished
  <2>3. CASE Upset /\ UNCHANGED rows
    BY <1>7, <2>1, <2>3, UpsetType DEF MarkVanished
  <2> QED
    BY <1>7, <2>2, <2>3 DEF MarkVanished
<1>8. ASSUME NEW p \in Passes, MarksEnd(p)
      PROVE  TypeOK'
  <2>1. [pass[p] EXCEPT !.pc = "done"] \in PassType
    BY PassFields DEF PassType
  <2> QED
    BY <1>8, <2>1 DEF MarksEnd
<1>9. ASSUME NEW p \in Passes, MarkNotRunning(p)
      PROVE  TypeOK'
  <2>1. CASE /\ rows' = [n \in Names |-> IF n \in NotRunning(p) THEN [rows[n] EXCEPT !.status = "stopped"]
                                                                ELSE rows[n]]
             /\ pass' = [q \in Passes |->
                            IF q = p THEN [pass[p] EXCEPT !.pc = "done"]
                            ELSE [pass[q] EXCEPT !.quiet = @ \ NotRunning(p)]]
             /\ UNCHANGED upsets
    <3>1. \A n \in Names : [rows[n] EXCEPT !.status = "stopped"] \in Row \cup {NoRow}
      BY DEF Row, NoRow, Status
    <3>2. rows' \in [Names -> Row \cup {NoRow}]
      BY <2>1, <3>1
    <3>3. \A q \in Passes : /\ [pass[q] EXCEPT !.pc = "done"] \in PassType
                           /\ [pass[q] EXCEPT !.quiet = @ \ NotRunning(p)] \in PassType
      BY ZenonT(60), PassFields DEF PassType
    <3>4. pass' \in [Passes -> PassType]
      BY <2>1, <3>3
    <3> QED
      BY <1>9, <2>1, <3>2, <3>4 DEF MarkNotRunning
  <2>2. CASE Upset /\ pass' = [pass EXCEPT ![p] = Idle] /\ UNCHANGED rows
    BY <1>9, <2>2, IdleFields, UpsetType DEF MarkNotRunning
  <2> QED
    BY <1>9, <2>1, <2>2 DEF MarkNotRunning
<1>10. ASSUME NEW gone, gone \subseteq Names, Delete(gone)
       PROVE  TypeOK'
  <2>1. pass' \in [Passes -> PassType]
    <3>1. \A p \in Passes : pass'[p] \in PassType
      BY <1>10, DeleteFields
    <3>2. pass' = [p \in Passes |-> pass'[p]]
      BY <1>10 DEF Delete
    <3> QED
      BY <3>1, <3>2
  <2> QED
    BY <1>10, <2>1, UpsetType DEF Delete
<1>11. ASSUME Boot
       PROVE  TypeOK'
  <2>1. pass' \in [Passes -> PassType]
    BY <1>11, StartFields DEF Boot
  <2> QED
    BY <1>11, <2>1, UpsetType DEF Boot
<1>12. CASE UNCHANGED discoVars
  BY <1>12 DEF discoVars
<1>13. ASSUME NEW p \in Passes, PassStep(p)
       PROVE  TypeOK'
  BY <1>4, <1>5, <1>6, <1>7, <1>8, <1>9, <1>13 DEF PassStep
<1>14. CASE DeleteStep
  <2>1. \A gone : gone \subseteq Names /\ Delete(gone) => TypeOK'
    BY <1>10
  <2> HIDE DEF TypeOK
  <2> QED
    BY <1>14, <2>1 DEF DeleteStep
<1> HIDE DEF TypeOK
<1> QED
  BY <1>1, <1>2, <1>3, <1>11, <1>12, <1>13, <1>14 DEF Next

-----------------------------------------------------------------------------
\* What a step does to one pass.  Nothing but the list of names it was told from changes
\* when somebody else disturbs it.
Kept(P, Q) == P.pc = Q.pc /\ P.kind = Q.kind /\ P.list = Q.list /\ P.todo = Q.todo /\ P.known = Q.known

\* Being told of a disturbance.
LEMMA DisturbedKeeps ==
    ASSUME TypeOK, NEW n, NEW q \in Passes
    PROVE  /\ Kept(Disturbed(pass, n)[q], pass[q])
           /\ Disturbed(pass, n)[q].quiet = pass[q].quiet \ {n}
<1>1. pass[q] \in PassType
  BY PassFields
<1>2. Disturbed(pass, n)[q] = [pass[q] EXCEPT !.quiet = pass[q].quiet \ {n}]
  BY DisturbedType
<1> QED
  BY <1>1, <1>2 DEF PassType, Kept

\* What is left to do for a pass of which one container was done.
Rest(todo, p, q, n) == IF q = p THEN todo \ {n} ELSE todo

\* A container was written or marked, or the attempt failed.
LEMMA TickedKeeps ==
    ASSUME TypeOK, NEW p \in Passes, NEW n \in Names, NEW q \in Passes,
           Ticked(p, n)
    PROVE  /\ pass'[q].pc = pass[q].pc /\ pass'[q].kind = pass[q].kind
           /\ pass'[q].list = pass[q].list /\ pass'[q].known = pass[q].known
           /\ pass'[q].todo = Rest(pass[q].todo, p, q, n)
           /\ pass'[q].quiet \subseteq pass[q].quiet
<1> USE DEF Rest
<1>1. pass[q] \in PassType /\ pass \in [Passes -> PassType]
  BY PassFields DEF TypeOK
<1>2. CASE Written(p, n)
  <2>1. CASE q = p
    <3>1. pass'[q] = [pass[q] EXCEPT !.todo = @ \ {n}]
      BY <1>2, <2>1, DisturbedType DEF Written
    <3> QED
      BY <1>1, <1>2, <2>1, <3>1 DEF PassType
  <2>2. CASE q # p
    <3>1. pass'[q] = Disturbed(pass, n)[q]
      BY <1>2, <2>2, DisturbedType DEF Written
    <3> QED
      BY <2>2, <3>1, DisturbedKeeps DEF Kept
  <2> QED
    BY <2>1, <2>2
<1>3. CASE ~Written(p, n) /\ Skipped(p, n)
  <2>1. CASE q = p
    <3>1. pass'[q] = [pass[q] EXCEPT !.todo = @ \ {n}, !.quiet = @ \ {n}]
      BY <1>1, <1>3, <2>1 DEF Skipped
    <3> QED
      BY <1>1, <1>3, <2>1, <3>1 DEF PassType
  <2>2. CASE q # p
    <3>1. pass'[q] = pass[q]
      BY <1>1, <1>3, <2>2 DEF Skipped
    <3> QED
      BY <1>3, <2>2, <3>1
  <2> QED
    BY <2>1, <2>2
<1> QED
  BY <1>2, <1>3 DEF Ticked

\* The other passes are told of a row that was written.
LEMMA WrittenIsToldOf ==
    ASSUME TypeOK, NEW p \in Passes, NEW n \in Names, NEW q \in Passes, q # p, Written(p, n)
    PROVE  n \notin pass'[q].quiet
<1>1. pass'[q] = Disturbed(pass, n)[q]
  BY DisturbedType DEF Written
<1> QED
  BY <1>1, DisturbedKeeps

\* A pass knows itself of a call that failed.
LEMMA SkippedIsToldOf ==
    ASSUME TypeOK, NEW p \in Passes, NEW n, Skipped(p, n)
    PROVE  n \notin pass'[p].quiet
<1>1. pass[p] \in PassType /\ pass \in [Passes -> PassType]
  BY PassFields DEF TypeOK
<1>2. pass'[p] = [pass[p] EXCEPT !.todo = @ \ {n}, !.quiet = @ \ {n}]
  BY <1>1 DEF Skipped
<1> QED
  BY <1>1, <1>2 DEF PassType

\* The end of the upserts.
LEMMA UpsertsEndKeeps ==
    ASSUME TypeOK, NEW p \in Passes, UpsertsEnd(p), NEW q \in Passes
    PROVE  IF q = p THEN /\ pass'[p].pc = "mark" /\ pass'[p].kind = pass[p].kind
                         /\ pass'[p].list = pass[p].list /\ pass'[p].known = pass[p].known
                         /\ pass'[p].quiet = pass[p].quiet
                         /\ pass'[p].todo = IF pass[p].kind = "scan" THEN {} ELSE Vanished(p)
                    ELSE pass'[q] = pass[q]
<1> DEFINE t == IF pass[p].kind = "scan" THEN {} ELSE Vanished(p)
<1>1. pass' = [pass EXCEPT ![p] = [pass[p] EXCEPT !.pc = "mark", !.todo = t]]
  BY DEF UpsertsEnd
<1>2. pass[p] \in PassType /\ pass \in [Passes -> PassType]
  BY PassFields DEF TypeOK
<1> HIDE DEF t
<1>3. q = p => /\ pass'[p].pc = "mark" /\ pass'[p].kind = pass[p].kind
               /\ pass'[p].list = pass[p].list /\ pass'[p].known = pass[p].known
               /\ pass'[p].quiet = pass[p].quiet /\ pass'[p].todo = t
  BY <1>1, <1>2 DEF PassType
<1>4. q # p => pass'[q] = pass[q]
  BY <1>1, <1>2
<1> QED
  BY <1>3, <1>4 DEF t

\* Reading the table, or failing to.
LEMMA ReadKnownKeeps ==
    ASSUME TypeOK, NEW p \in Passes, ReadKnown(p), NEW q \in Passes
    PROVE  IF q # p THEN pass'[q] = pass[q] ELSE
             \/ pass'[p] = Idle
             \/ /\ pass'[p].pc = "upsert" /\ pass'[p].kind = pass[p].kind
                /\ pass'[p].list = pass[p].list /\ pass'[p].todo = pass[p].todo
                /\ pass'[p].quiet = pass[p].quiet
                /\ pass'[p].known = [n \in Names |-> [row |-> rows[n], gone |-> FALSE]]
<1> DEFINE k == [n \in Names |-> [row |-> rows[n], gone |-> FALSE]]
<1>1. \/ pass' = [pass EXCEPT ![p] = Idle]
      \/ pass' = [pass EXCEPT ![p] = [pass[p] EXCEPT !.pc = "upsert", !.known = k]]
  BY DEF ReadKnown
<1>2. pass[p] \in PassType /\ pass \in [Passes -> PassType]
  BY PassFields DEF TypeOK
<1> HIDE DEF k
<1>3. ASSUME q = p
      PROVE  \/ pass'[p] = Idle
             \/ /\ pass'[p].pc = "upsert" /\ pass'[p].kind = pass[p].kind
                /\ pass'[p].list = pass[p].list /\ pass'[p].todo = pass[p].todo
                /\ pass'[p].quiet = pass[p].quiet /\ pass'[p].known = k
  <2>1. CASE pass' = [pass EXCEPT ![p] = Idle]
    BY <1>2, <2>1
  <2>2. CASE pass' = [pass EXCEPT ![p] = [pass[p] EXCEPT !.pc = "upsert", !.known = k]]
    <3>1. pass'[p] = [pass[p] EXCEPT !.pc = "upsert", !.known = k]
      BY <1>2, <2>2
    <3>2. /\ pass'[p].pc = "upsert" /\ pass'[p].kind = pass[p].kind
          /\ pass'[p].list = pass[p].list /\ pass'[p].todo = pass[p].todo
          /\ pass'[p].quiet = pass[p].quiet /\ pass'[p].known = k
      BY <1>2, <3>1 DEF PassType
    <3> QED
      BY <3>2
  <2> QED
    BY <1>1, <2>1, <2>2
<1>4. q # p => pass'[q] = pass[q]
  BY <1>1, <1>2
<1> QED
  BY <1>3, <1>4 DEF k

\* An hourly pass begins.
LEMMA DiscoverKeeps ==
    ASSUME TypeOK, NEW p \in Passes, Discover(p), NEW q \in Passes
    PROVE  pass'[q] = IF q = p THEN Begun("discover") ELSE pass[q]
BY DEF Discover, TypeOK

\* An hourly pass ends.
LEMMA MarksEndKeeps ==
    ASSUME TypeOK, NEW p \in Passes, MarksEnd(p), NEW q \in Passes
    PROVE  IF q # p THEN pass'[q] = pass[q] ELSE
             /\ pass'[p].pc = "done" /\ pass'[p].kind = pass[p].kind /\ pass'[p].list = pass[p].list
             /\ pass'[p].todo = pass[p].todo /\ pass'[p].quiet = pass[p].quiet
             /\ pass'[p].known = pass[p].known
<1>1. pass[p] \in PassType /\ pass \in [Passes -> PassType]
  BY PassFields DEF TypeOK
<1>2. pass' = [pass EXCEPT ![p] = [pass[p] EXCEPT !.pc = "done"]]
  BY DEF MarksEnd
<1> QED
  BY <1>1, <1>2 DEF PassType

\* A scan ends, or fails to.
LEMMA MarkNotRunningKeeps ==
    ASSUME TypeOK, NEW p \in Passes, MarkNotRunning(p), NEW q \in Passes
    PROVE  \/ /\ UNCHANGED rows
              /\ pass'[q] = IF q = p THEN Idle ELSE pass[q]
           \/ /\ rows' = [n \in Names |-> IF n \in NotRunning(p) THEN [rows[n] EXCEPT !.status = "stopped"]
                                                                   ELSE rows[n]]
              /\ pass'[q].kind = pass[q].kind /\ pass'[q].list = pass[q].list
              /\ pass'[q].todo = pass[q].todo /\ pass'[q].known = pass[q].known
              /\ pass'[q].pc = IF q = p THEN "done" ELSE pass[q].pc
              /\ pass'[q].quiet = IF q = p THEN pass[q].quiet ELSE pass[q].quiet \ NotRunning(p)
<1>1. pass[q] \in PassType /\ pass \in [Passes -> PassType]
  BY PassFields DEF TypeOK
<1>2. CASE /\ rows' = [n \in Names |-> IF n \in NotRunning(p) THEN [rows[n] EXCEPT !.status = "stopped"]
                                                              ELSE rows[n]]
           /\ pass' = [x \in Passes |->
                          IF x = p THEN [pass[p] EXCEPT !.pc = "done"]
                          ELSE [pass[x] EXCEPT !.quiet = @ \ NotRunning(p)]]
  <2>1. pass'[q] = IF q = p THEN [pass[q] EXCEPT !.pc = "done"]
                   ELSE [pass[q] EXCEPT !.quiet = pass[q].quiet \ NotRunning(p)]
    BY <1>2
  <2> QED
    BY <1>1, <1>2, <2>1 DEF PassType
<1>3. CASE pass' = [pass EXCEPT ![p] = Idle] /\ UNCHANGED rows
  <2> HIDE DEF Idle
  <2> QED
    BY <1>1, <1>3
<1> QED
  BY <1>2, <1>3 DEF MarkNotRunning

-----------------------------------------------------------------------------
\* Every step keeps the courses.
LEMMA CoursesKept ==
    ASSUME TypeOK, Courses, [Next]_discoVars
    PROVE  Courses'
<1> SUFFICES ASSUME NEW q \in Passes
             PROVE  Course(pass'[q])
  BY DEF Courses
<1>0. Course(pass[q]) /\ Course(Idle) /\ \A k \in {"scan", "discover"} : Course(Begun(k))
  <2>1. Course(pass[q])
    BY DEF Courses
  <2>2. Course(Idle)
    BY IdleFields DEF Course
  <2>3. ASSUME NEW k \in {"scan", "discover"}
        PROVE  Course(Begun(k))
    BY BegunFields DEF Course
  <2> QED
    BY <2>1, <2>2, <2>3
<1>1. ASSUME Kept(pass'[q], pass[q])
      PROVE  Course(pass'[q])
  BY <1>0, <1>1 DEF Kept, Course
<1>2. ASSUME NEW n \in Names, DaemonStep(n)
      PROVE  Course(pass'[q])
  BY <1>1, <1>2, DaemonSteps, DisturbedKeeps
<1>3. ASSUME NEW u \in inflight, HandleEvent(u)
      PROVE  Course(pass'[q])
  BY <1>1, <1>3, DisturbedKeeps DEF HandleEvent
<1>4. ASSUME NEW p \in Passes, Discover(p)
      PROVE  Course(pass'[q])
  BY <1>0, <1>4, DiscoverKeeps
<1>5. ASSUME NEW p \in Passes, ReadKnown(p)
      PROVE  Course(pass'[q])
  BY ZenonT(60), <1>0, <1>5, ReadKnownKeeps DEF ReadKnown, Course
<1>6. ASSUME NEW p \in Passes, NEW n \in Names, UpsertListed(p, n) \/ MarkVanished(p, n)
      PROVE  Course(pass'[q])
  <2>1. Ticked(p, n)
    BY <1>6 DEF UpsertListed, MarkVanished, Ticked, Written, Skipped
  <2>2. pass'[q].pc = pass[q].pc
    BY <2>1, TickedKeeps
  <2>3. pass'[q].list = pass[q].list /\ pass'[q].kind = pass[q].kind
    BY <2>1, TickedKeeps
  <2>4. pass'[q].todo = Rest(pass[q].todo, p, q, n)
    BY <2>1, TickedKeeps
  <2>5. pass'[q].todo \subseteq pass[q].todo
    BY <2>4 DEF Rest
  <2> QED
    BY <1>0, <2>2, <2>3, <2>5 DEF Course
<1>7. ASSUME NEW p \in Passes, UpsertsEnd(p)
      PROVE  Course(pass'[q])
  BY <1>0, <1>7, UpsertsEndKeeps DEF Course
<1>8. ASSUME NEW p \in Passes, MarksEnd(p)
      PROVE  Course(pass'[q])
  BY <1>0, <1>8, MarksEndKeeps DEF Course
<1>9. ASSUME NEW p \in Passes, MarkNotRunning(p)
      PROVE  Course(pass'[q])
  BY ZenonT(60), <1>0, <1>9, MarkNotRunningKeeps DEF Course
<1>10. ASSUME NEW gone, gone \subseteq Names, Delete(gone)
       PROVE  Course(pass'[q])
  BY <1>0, <1>10, DeleteFields DEF Course
<1>11. CASE Boot
  BY <1>0, <1>11, StartFields DEF Boot
<1>12. CASE UNCHANGED discoVars
  BY <1>0, <1>12 DEF discoVars
<1>13. ASSUME NEW p \in Passes, PassStep(p)
       PROVE  Course(pass'[q])
  BY <1>5, <1>6, <1>7, <1>8, <1>9, <1>13 DEF PassStep
<1>14. CASE DeleteStep
  BY <1>10, <1>14 DEF DeleteStep
<1> QED
  BY <1>2, <1>3, <1>4, <1>11, <1>12, <1>13, <1>14 DEF Next

-----------------------------------------------------------------------------
\* The name an id was given to, for everyone who holds the id.
HeldBy(f, P, n) ==
    /\ P.list[n].id \in Ids => f[P.list[n].id] = n
    /\ P.known[n].row.id \in Ids => f[P.known[n].row.id] = n

Owned(f) ==
    /\ \A n \in Names : world[n].id \in Ids => f[world[n].id] = n
    /\ \A n \in Names : rows[n].id \in Ids => f[rows[n].id] = n
    /\ \A u \in inflight : f[u.id] = u.name
    /\ \A p \in Passes, n \in Names : HeldBy(f, pass[p], n)

Owners == [Ids -> Names \cup {NoId}]

\* An id has one owner in the daemon, the table, the events and the passes alike.
OneOwner == \E f \in Owners : Owned(f)

\* Only the daemon gives ids, and it gives none twice.
LEMMA OneOwnerKept ==
    ASSUME TypeOK, Courses, OneOwner, [Next]_discoVars
    PROVE  OneOwner'
<1>0. PICK f \in Owners : Owned(f)
  BY DEF OneOwner
<1>00. /\ \A n \in Names : world[n].id \in Ids => f[world[n].id] = n
       /\ \A n \in Names : rows[n].id \in Ids => f[rows[n].id] = n
       /\ \A u \in inflight : f[u.id] = u.name
       /\ \A p \in Passes, n \in Names : HeldBy(f, pass[p], n)
  BY <1>0 DEF Owned
<1>01. SUFFICES ASSUME ~(\E n \in Names : DaemonStep(n))
                PROVE  Owned(f)'
  <2>1. ASSUME NEW n \in Names, DaemonStep(n)
        PROVE  \E g \in Owners : Owned(g)'
    <3>1. PICK c \in Container \cup {Absent} :
            /\ world' = [world EXCEPT ![n] = c]
            /\ c = Absent \/ c.id = world[n].id \/ (world[n] = Absent /\ c.id \in Ids \ Held)
      BY <2>1, DaemonSteps
    <3>2. /\ inflight' \subseteq Upsert /\ pass' = Disturbed(pass, n) /\ UNCHANGED rows
          /\ \A u \in inflight' : u \in inflight \/ (u.name = n /\ u.id = world[n].id /\ world[n] # Absent)
      BY <2>1, DaemonSteps
    <3>3. PICK g \in Owners : /\ \A i \in Ids \cap Held : g[i] = f[i]
                              /\ c.id \in Ids \ Held => g[c.id] = n
      <4>1. CASE c.id \in Ids \ Held
        <5>1. [f EXCEPT ![c.id] = n] \in Owners
          BY <1>0 DEF Owners
        <5>2. /\ \A i \in Ids \cap Held : [f EXCEPT ![c.id] = n][i] = f[i]
              /\ [f EXCEPT ![c.id] = n][c.id] = n
          BY <1>0, <4>1 DEF Owners
        <5> QED
          BY <5>1, <5>2
      <4> QED
        BY <1>0, <4>1
    <3>4. /\ \A m \in Names : world[m].id \in Held /\ rows[m].id \in Held
          /\ \A u \in inflight : u.id \in Held
          /\ \A p \in Passes, m \in Names : pass[p].list[m].id \in Held /\ pass[p].known[m].row.id \in Held
      <4>1. \A m \in Names : world[m].id \in Held /\ rows[m].id \in Held
        BY DEF Held
      <4>2. \A u \in inflight : u.id \in Held
        BY DEF Held
      <4>3. ASSUME NEW p \in Passes, NEW m \in Names
            PROVE  pass[p].list[m].id \in Held /\ pass[p].known[m].row.id \in Held
        <5> DEFINE S(k, x) == {pass[x].list[k].id, pass[x].known[k].row.id}
        <5>1. \A i \in S(m, p) : i \in UNION {S(k, x) : k \in Names, x \in Passes}
          <6> HIDE DEF S
          <6> QED
            OBVIOUS
        <5>2. UNION {S(k, x) : k \in Names, x \in Passes} \subseteq Held
          BY DEF Held
        <5>3. pass[p].list[m].id \in S(m, p) /\ pass[p].known[m].row.id \in S(m, p)
          OBVIOUS
        <5> HIDE DEF S
        <5>4. \A i \in S(m, p) : i \in Held
          BY <5>1, <5>2
        <5> QED
          BY <5>3, <5>4
      <4> QED
        BY <4>1, <4>2, <4>3
    <3>5. c.id \in Ids => g[c.id] = n
      <4>1. c = Absent => c.id \notin Ids
        BY DiscoveryConstants DEF Absent
      <4>2. c.id = world[n].id /\ c.id \in Ids => c.id \in Held /\ g[c.id] = n
        BY <1>00, <3>3, <3>4
      <4> QED
        BY <3>1, <3>3, <4>1, <4>2
    <3>6. ASSUME NEW m \in Names
          PROVE  /\ world'[m].id \in Ids => g[world'[m].id] = m
                 /\ rows'[m].id \in Ids => g[rows'[m].id] = m
      <4>1. world'[m] = IF m = n THEN c ELSE world[m]
        BY <3>1 DEF TypeOK
      <4> QED
        BY <1>00, <3>2, <3>3, <3>4, <3>5, <4>1
    <3>7. ASSUME NEW u \in inflight'
          PROVE  g[u.id] = u.name
      <4>1. u.id \in Ids
        BY <3>2 DEF Upsert
      <4> QED
        BY <1>00, <3>2, <3>3, <3>4, <4>1
    <3>8. ASSUME NEW p \in Passes, NEW m \in Names
          PROVE  HeldBy(g, pass'[p], m)
      <4>1. Kept(pass'[p], pass[p])
        BY <3>2, DisturbedKeeps
      <4>2. HeldBy(f, pass[p], m)
        BY <1>00
      <4> QED
        BY <3>3, <3>4, <4>1, <4>2 DEF HeldBy, Kept
    <3>9. Owned(g)'
      BY <3>6, <3>7, <3>8 DEF Owned
    <3> QED
      BY <3>3, <3>9
  <2> QED
    BY <1>0, <2>1 DEF OneOwner
<1> DEFINE NewRow(m) == rows'[m].id \in Ids => f[rows'[m].id] = m
           NewPass(p) == \A m \in Names : HeldBy(f, pass'[p], m)
<1>1. ASSUME UNCHANGED world, inflight' \subseteq inflight,
             \A m \in Names : NewRow(m), \A p \in Passes : NewPass(p)
      PROVE  Owned(f)'
  BY <1>00, <1>1 DEF Owned
<1>2. \A p \in Passes : NewPass(p) \/ ~Kept(pass'[p], pass[p])
  BY <1>00 DEF HeldBy, Kept
<1>3. \A m \in Names : rows'[m].id = rows[m].id => NewRow(m)
  BY <1>00
<1>4. ASSUME NEW n \in Names, NEW id, NEW status, rows' = Put(rows, n, id, status), f[id] = n
      PROVE  \A m \in Names : NewRow(m)
  BY <1>00, <1>4 DEF Put, TypeOK
<1>5. ASSUME NEW P, P = Idle \/ \E k \in {"scan", "discover"} : P = Begun(k), NEW m \in Names
      PROVE  HeldBy(f, P, m)
  <2>1. P.known[m].row.id = NoId
    BY <1>5, IdleFields, BegunFields DEF NoRow
  <2>2. P.list[m] = Absent \/ P.list[m] = world[m]
    <3>1. P = Idle => P.list[m] = Absent
      BY IdleFields
    <3>2. ASSUME NEW k \in {"scan", "discover"}, P = Begun(k)
          PROVE  P.list[m] = Absent \/ P.list[m] = world[m]
      BY <3>2, BegunFields DEF ListFor
    <3> QED
      BY <1>5, <3>1, <3>2
  <2> QED
    BY <1>00, <2>1, <2>2, DiscoveryConstants DEF HeldBy, Absent
<1>6. ASSUME NEW u \in inflight, HandleEvent(u)
      PROVE  Owned(f)'
  <2>1. u.name \in Names /\ f[u.id] = u.name
    BY <1>00 DEF TypeOK, Upsert
  <2>2. \A m \in Names : NewRow(m)
    <3>1. CASE rows' = Put(rows, u.name, u.id, u.status)
      BY <1>4, <2>1, <3>1
    <3>2. CASE UNCHANGED rows
      BY <1>3, <3>2
    <3> QED
      BY <1>6, <3>1, <3>2 DEF HandleEvent
  <2>3. \A p \in Passes : NewPass(p)
    BY <1>2, <1>6, DisturbedKeeps DEF HandleEvent
  <2> QED
    BY <1>1, <1>6, <2>2, <2>3 DEF HandleEvent
<1>7. ASSUME NEW p \in Passes, Discover(p)
      PROVE  Owned(f)'
  <2>1. \A q \in Passes : NewPass(q)
    <3>1. \A q \in Passes : pass'[q] = pass[q] \/ pass'[q] = Begun("discover")
      BY <1>7, DiscoverKeeps
    <3> QED
      BY <1>00, <1>5, <3>1
  <2> QED
    BY <1>1, <1>3, <1>7, <2>1 DEF Discover
<1>8. ASSUME NEW p \in Passes, ReadKnown(p)
      PROVE  Owned(f)'
  <2>1. \A q \in Passes : q # p => NewPass(q)
    BY <1>00, <1>8, ReadKnownKeeps
  <2>2. NewPass(p)
    <3>1. CASE pass'[p] = Idle
      BY <1>5, <3>1
    <3>2. CASE /\ pass'[p].list = pass[p].list
               /\ pass'[p].known = [n \in Names |-> [row |-> rows[n], gone |-> FALSE]]
      <4>1. ASSUME NEW m \in Names
            PROVE  HeldBy(f, pass'[p], m)
        <5>1. pass'[p].known[m].row = rows[m]
          BY <3>2
        <5>2. HeldBy(f, pass[p], m) /\ (rows[m].id \in Ids => f[rows[m].id] = m)
          BY <1>00
        <5> QED
          BY <3>2, <5>1, <5>2 DEF HeldBy
      <4> QED
        BY <4>1
    <3> QED
      BY <1>8, <3>1, <3>2, ReadKnownKeeps
  <2> QED
    BY <1>1, <1>3, <1>8, <2>1, <2>2 DEF ReadKnown
<1>9. ASSUME NEW p \in Passes, NEW n \in Names, UpsertListed(p, n) \/ MarkVanished(p, n)
      PROVE  Owned(f)'
  <2>1. ASSUME NEW q \in Passes
        PROVE  pass'[q].list = pass[q].list /\ pass'[q].known = pass[q].known
    <3>1. Ticked(p, n)
      BY <1>9 DEF UpsertListed, MarkVanished, Ticked, Written, Skipped
    <3> QED
      <4>1. pass'[q].list = pass[q].list
        BY <3>1, TickedKeeps
      <4>2. pass'[q].known = pass[q].known
        BY <3>1, TickedKeeps
      <4> QED
        BY <4>1, <4>2
  <2>2. \A q \in Passes : NewPass(q)
    BY <1>00, <2>1 DEF HeldBy
  <2>3. \A m \in Names : NewRow(m)
    <3>1. CASE UNCHANGED rows
      BY <1>3, <3>1
    <3>2. CASE rows' = [rows EXCEPT ![n].status = "stopped"]
      <4>1. \A m \in Names : rows'[m].id = rows[m].id
        BY <3>2 DEF TypeOK, Row, NoRow
      <4> QED
        BY <1>3, <4>1
    <3>3. CASE UpsertListed(p, n) /\ ~UNCHANGED rows
      <4>1. f[pass[p].list[n].id] = n
        BY <1>00, <3>3, PassFields DEF UpsertListed, Courses, Course, HeldBy, Container
      <4> QED
        BY <1>4, <3>3, <4>1 DEF UpsertListed
    <3> QED
      BY <1>9, <3>1, <3>2, <3>3 DEF MarkVanished
  <2> QED
    BY <1>1, <1>9, <2>2, <2>3 DEF UpsertListed, MarkVanished
<1>10. ASSUME NEW p \in Passes, UpsertsEnd(p)
       PROVE  Owned(f)'
  <2>1. \A q \in Passes : pass'[q].list = pass[q].list /\ pass'[q].known = pass[q].known
    BY <1>10, UpsertsEndKeeps
  <2>2. \A q \in Passes : NewPass(q)
    BY <1>00, <2>1 DEF HeldBy
  <2> QED
    BY <1>1, <1>3, <1>10, <2>2 DEF UpsertsEnd
<1>11. ASSUME NEW p \in Passes, MarksEnd(p)
       PROVE  Owned(f)'
  <2>1. \A q \in Passes : pass'[q].list = pass[q].list /\ pass'[q].known = pass[q].known
    BY <1>11, MarksEndKeeps
  <2>2. \A q \in Passes : NewPass(q)
    BY <1>00, <2>1 DEF HeldBy
  <2> QED
    BY <1>1, <1>3, <1>11, <2>2 DEF MarksEnd
<1>12. ASSUME NEW p \in Passes, MarkNotRunning(p)
       PROVE  Owned(f)'
  <2>1. ASSUME NEW q \in Passes
        PROVE  \/ pass'[q] = Idle
               \/ pass'[q].list = pass[q].list /\ pass'[q].known = pass[q].known
    <3> HIDE DEF Idle, MarkNotRunning, NotRunning
    <3> QED
      BY <1>12, MarkNotRunningKeeps, Zenon
  <2>2. \A q \in Passes : NewPass(q)
    BY <1>00, <1>5, <2>1 DEF HeldBy
  <2>3. \A m \in Names : rows'[m].id = rows[m].id
    BY <1>12 DEF MarkNotRunning, TypeOK, Row, NoRow
  <2> QED
    BY <1>1, <1>3, <1>12, <2>2, <2>3 DEF MarkNotRunning
<1>13. ASSUME NEW gone, gone \subseteq Names, Delete(gone)
       PROVE  Owned(f)'
  <2>1. ASSUME NEW q \in Passes, NEW m \in Names
        PROVE  HeldBy(f, pass'[q], m)
    <3>1. HeldBy(f, pass[q], m)
      BY <1>00
    <3> QED
      BY <1>13, <3>1, DeleteFields DEF HeldBy
  <2>2. \A m \in Names : NewRow(m)
    <3>1. \A m \in Names : rows'[m] = NoRow \/ rows'[m] = rows[m]
      BY <1>13 DEF Delete
    <3> QED
      BY <1>00, <3>1, DiscoveryConstants DEF NoRow
  <2> QED
    BY <1>1, <1>13, <2>1, <2>2 DEF Delete
<1>14. CASE Boot
  <2>1. \A q \in Passes : NewPass(q)
    BY <1>5, <1>14, StartFields DEF Boot
  <2> QED
    BY <1>1, <1>3, <1>14, <2>1 DEF Boot
<1>15. CASE UNCHANGED discoVars
  BY <1>00, <1>1, <1>3, <1>15 DEF discoVars
<1>16. ASSUME NEW p \in Passes, PassStep(p)
       PROVE  Owned(f)'
  BY <1>8, <1>9, <1>10, <1>11, <1>12, <1>16 DEF PassStep
<1>17. CASE DeleteStep
  BY <1>13, <1>17 DEF DeleteStep
<1> QED
  BY <1>01, <1>6, <1>7, <1>14, <1>15, <1>16, <1>17 DEF Next

-----------------------------------------------------------------------------
\* What a pass has achieved for a container that nobody disturbed since it began: w is the
\* container, r its row.
RightRow(c) == [id |-> c.id, status |-> IF c.running THEN "running" ELSE "stopped"]

Lost(P, n) ==
    /\ P.known[n].row # NoRow /\ P.known[n].row.status # "stopped"
    /\ \A m \in Names : P.list[m] # Absent => P.list[m].id # P.known[n].row.id

Agree(w, r) == IF w.running THEN r = [id |-> w.id, status |-> "running"] ELSE r.status # "running"

Faithful(P, n, w, r) ==
    /\ P.list[n] = IF P.kind = "scan" /\ ~w.running THEN Absent ELSE w
    /\ P.kind = "scan" => P.known[n].row = NoRow
    /\ P.pc = "known" => (P.list[n] # Absent => n \in P.todo)
    /\ P.pc = "upsert" =>
        /\ P.list[n] # Absent /\ n \notin P.todo => r = RightRow(P.list[n])
        /\ P.list[n] = Absent /\ P.kind = "discover" => r = P.known[n].row /\ P.known[n].gone = FALSE
    /\ P.pc = "mark" =>
        /\ P.list[n] # Absent /\ ~Lost(P, n) => r = RightRow(P.list[n]) /\ n \notin P.todo
        /\ P.list[n] = Absent /\ P.kind = "discover" =>
                P.known[n].gone = FALSE /\ (n \in P.todo \/ r.status # "running")
    /\ P.pc = "done" => (Lost(P, n) /\ P.list[n] # Absent) \/ Agree(w, r)

Honest == \A p \in Passes : \A n \in pass[p].quiet : Faithful(pass[p], n, world[n], rows[n])

\* A pass begins honestly.
LEMMA BegunFaithful ==
    ASSUME TypeOK, NEW kind \in {"scan", "discover"}, NEW n \in Names, NEW r
    PROVE  Faithful(Begun(kind), n, world[n], r)
<1>1. Begun(kind).list[n] = IF kind = "scan" /\ ~world[n].running THEN Absent ELSE world[n]
  BY BegunFields DEF ListFor
<1>2. Begun(kind).known[n].row = NoRow
  BY BegunFields, IdleFields
<1>3. Begun(kind).list[n] # Absent => n \in Begun(kind).todo
  BY BegunFields
<1>4. /\ Begun(kind).kind = kind
      /\ Begun(kind).pc = "known" \/ (Begun(kind).pc = "upsert" /\ kind = "scan")
  BY BegunFields
<1> QED
  BY <1>1, <1>2, <1>3, <1>4 DEF Faithful

\* A row and a container of one id have one name.
LEMMA SameName ==
    ASSUME TypeOK, OneOwner, NEW p \in Passes, NEW n \in Names, NEW m \in Names,
           pass[p].list[m] # Absent, pass[p].list[m].id = rows[n].id
    PROVE  m = n
<1>1. PICK f \in Owners : Owned(f)
  BY DEF OneOwner
<1>2. pass[p].list[m].id \in Ids
  BY PassFields DEF Container
<1> QED
  BY <1>1, <1>2 DEF Owned, HeldBy

\* Lost says of a pass what Vanished says of the model.
LEMMA LostIsVanished ==
    ASSUME NEW p \in Passes, NEW n \in Names
    PROVE  n \in Vanished(p) <=> Lost(pass[p], n)
BY DEF Vanished, Lost, Current, Listed

-----------------------------------------------------------------------------
\* Passes stay honest, whatever the others do.
LEMMA HonestKept ==
    ASSUME TypeOK, Courses, OneOwner, Honest, [Next]_discoVars
    PROVE  Honest'
<1> SUFFICES ASSUME NEW q \in Passes, NEW n \in pass'[q].quiet
             PROVE  Faithful(pass'[q], n, world'[n], rows'[n])
  BY DEF Honest
<1> USE DEF TypeOK
<1>00. n \in Names
  BY TypeInductive, PassFields DEF PassType
<1>0. n \in pass[q].quiet => Faithful(pass[q], n, world[n], rows[n])
  BY DEF Honest
<1> HIDE DEF TypeOK
<1>1. ASSUME Kept(pass'[q], pass[q]), n \in pass[q].quiet, world'[n] = world[n], rows'[n] = rows[n]
      PROVE  Faithful(pass'[q], n, world'[n], rows'[n])
  BY <1>0, <1>1 DEF Kept, Faithful, Lost
<1>2. ASSUME NEW m \in Names, DaemonStep(m)
      PROVE  Faithful(pass'[q], n, world'[n], rows'[n])
  <2>1. n \in pass[q].quiet /\ n # m /\ Kept(pass'[q], pass[q])
    BY <1>2, DaemonSteps, DisturbedKeeps
  <2>2. UNCHANGED rows /\ \E c : world' = [world EXCEPT ![m] = c]
    BY <1>2, DaemonSteps
  <2>3. world'[n] = world[n]
    BY <1>00, <2>1, <2>2 DEF TypeOK
  <2> QED
    BY <1>1, <2>1, <2>2, <2>3
<1>3. ASSUME NEW u \in inflight, HandleEvent(u)
      PROVE  Faithful(pass'[q], n, world'[n], rows'[n])
  <2>1. n \in pass[q].quiet /\ n # u.name /\ Kept(pass'[q], pass[q])
    BY <1>3, DisturbedKeeps DEF HandleEvent
  <2>2. rows'[n] = rows[n] /\ UNCHANGED world
    BY <1>00, <1>3, <2>1 DEF HandleEvent, Put, TypeOK
  <2> QED
    BY <1>1, <2>1, <2>2
<1>4. ASSUME NEW p \in Passes, Discover(p)
      PROVE  Faithful(pass'[q], n, world'[n], rows'[n])
  <2>1. UNCHANGED <<world, rows>>
    BY <1>4 DEF Discover
  <2>2. Faithful(Begun("discover"), n, world[n], rows[n])
    BY <1>00, BegunFaithful
  <2>3. pass'[q] = Begun("discover") \/ pass'[q] = pass[q]
    BY <1>4, DiscoverKeeps
  <2> QED
    BY <1>0, <2>1, <2>2, <2>3
<1>5. ASSUME NEW p \in Passes, ReadKnown(p)
      PROVE  Faithful(pass'[q], n, world'[n], rows'[n])
  <2>1. UNCHANGED <<world, rows>> /\ pass[p].pc = "known"
    BY <1>5 DEF ReadKnown
  <2>2. CASE q # p
    BY <1>0, <1>5, <2>1, <2>2, ReadKnownKeeps
  <2>3. CASE q = p /\ pass'[p] = Idle
    BY <2>3, IdleFields
  <2>4. CASE q = p /\ pass'[p] # Idle
    <3>1. /\ pass'[q].pc = "upsert" /\ pass'[q].kind = pass[q].kind
          /\ pass'[q].list = pass[q].list /\ pass'[q].todo = pass[q].todo
          /\ pass'[q].quiet = pass[q].quiet
          /\ pass'[q].known = [m \in Names |-> [row |-> rows[m], gone |-> FALSE]]
      BY <1>5, <2>4, ReadKnownKeeps
    <3>2. pass'[q].known[n].row = rows[n] /\ pass'[q].known[n].gone = FALSE
      BY <1>00, <3>1
    <3>3. Faithful(pass[q], n, world[n], rows[n]) /\ pass[q].kind = "discover"
      BY <1>0, <2>1, <2>4, <3>1 DEF Courses, Course
    <3> QED
      BY <2>1, <2>4, <3>1, <3>2, <3>3 DEF Faithful
  <2> QED
    BY <2>2, <2>3, <2>4
<1>6. ASSUME NEW gone, gone \subseteq Names, Delete(gone)
      PROVE  Faithful(pass'[q], n, world'[n], rows'[n])
  <2>1. /\ pass'[q].pc = pass[q].pc /\ pass'[q].kind = pass[q].kind
        /\ pass'[q].list = pass[q].list /\ pass'[q].todo = pass[q].todo
        /\ n \in pass[q].quiet /\ n \notin gone
    BY <1>6, DeleteFields
  <2>3. /\ pass'[q].known[n].row = pass[q].known[n].row
        /\ pass'[q].known[n].gone = (pass[q].known[n].gone \/ n \in gone)
    BY <1>00, <1>6, DeleteFields
  <2>4. pass[q].known[n].gone = FALSE => pass'[q].known[n].gone = FALSE
    BY <2>1, <2>3
  <2>2. rows'[n] = rows[n] /\ UNCHANGED world
    BY <1>00, <1>6, <2>1 DEF Delete
  <2> QED
    BY <1>0, <2>1, <2>2, <2>3, <2>4 DEF Faithful, Lost
<1>7. CASE Boot
  <2>1. UNCHANGED <<world, rows>> /\ (pass'[q] = Begun("scan") \/ pass'[q] = Idle)
    BY <1>7, StartFields DEF Boot
  <2>2. Faithful(Begun("scan"), n, world[n], rows[n])
    BY <1>00, BegunFaithful
  <2> QED
    BY <2>1, <2>2, IdleFields
<1>8. CASE UNCHANGED discoVars
  BY <1>0, <1>8 DEF discoVars
<1>9. ASSUME NEW p \in Passes, NEW m \in Names, Ticked(p, m)
      PROVE  /\ n \in pass[q].quiet /\ pass'[q].pc = pass[q].pc /\ pass'[q].kind = pass[q].kind
             /\ pass'[q].list = pass[q].list /\ pass'[q].known = pass[q].known
             /\ pass'[q].todo = IF q = p THEN pass[q].todo \ {m} ELSE pass[q].todo
  <2>1. n \in pass[q].quiet
    BY <1>9, TickedKeeps
  <2>2. pass'[q].pc = pass[q].pc /\ pass'[q].kind = pass[q].kind
    BY <1>9, TickedKeeps
  <2>3. pass'[q].list = pass[q].list
    BY <1>9, TickedKeeps
  <2>4. pass'[q].known = pass[q].known
    BY <1>9, TickedKeeps
  <2>5. pass'[q].todo = Rest(pass[q].todo, p, q, m)
    BY <1>9, TickedKeeps
  <2> QED
    BY <2>1, <2>2, <2>3, <2>4, <2>5 DEF Rest
<1>10. ASSUME NEW p \in Passes, NEW m \in Names, Ticked(p, m), UNCHANGED world,
              rows'[n] = rows[n], q = p => n # m
       PROVE  Faithful(pass'[q], n, world'[n], rows'[n])
  <2>1. /\ n \in pass[q].quiet /\ pass'[q].pc = pass[q].pc /\ pass'[q].kind = pass[q].kind
        /\ pass'[q].list = pass[q].list /\ pass'[q].known = pass[q].known
        /\ n \in pass'[q].todo <=> n \in pass[q].todo
    BY <1>9, <1>10
  <2> QED
    BY <1>0, <1>10, <2>1 DEF Faithful, Lost
<1>11. ASSUME NEW p \in Passes, NEW m \in Names, Skipped(p, m), UNCHANGED <<world, rows>>
       PROVE  Faithful(pass'[q], n, world'[n], rows'[n])
  <2>1. q = p => n # m
    BY <1>11, SkippedIsToldOf
  <2>2. Ticked(p, m)
    BY <1>11 DEF Ticked
  <2> QED
    BY <1>10, <1>11, <2>1, <2>2
<1>12. ASSUME NEW p \in Passes, NEW m \in Names, Written(p, m), UNCHANGED world,
              \A k \in Names \ {m} : rows'[k] = rows[k], q # p \/ n # m
       PROVE  Faithful(pass'[q], n, world'[n], rows'[n])
  <2>1. Ticked(p, m)
    BY <1>12 DEF Ticked
  <2>2. n # m
    BY <1>12, WrittenIsToldOf
  <2> QED
    BY <1>00, <1>10, <1>12, <2>1, <2>2
<1>13. ASSUME NEW p \in Passes, NEW m \in Names, UpsertListed(p, m)
       PROVE  Faithful(pass'[q], n, world'[n], rows'[n])
  <2>1. CASE Skipped(p, m) /\ UNCHANGED rows
    BY <1>11, <1>13, <2>1 DEF UpsertListed
  <2>2. CASE /\ Written(p, m)
             /\ rows' = Put(rows, m, pass[p].list[m].id, IF pass[p].list[m].running THEN "running" ELSE "stopped")
    <3>1. \A k \in Names \ {m} : rows'[k] = rows[k]
      BY <2>2 DEF Put, TypeOK
    <3>2. rows'[m] = RightRow(pass[p].list[m])
      BY <2>2 DEF Put, TypeOK, RightRow
    <3>3. CASE q # p \/ n # m
      BY <1>12, <1>13, <2>2, <3>1, <3>3 DEF UpsertListed
    <3>4. CASE q = p /\ n = m
      <4>1. Ticked(p, m)
        BY <2>2 DEF Ticked
      <4>2. /\ n \in pass[q].quiet /\ pass'[q].pc = "upsert" /\ pass'[q].kind = pass[q].kind
            /\ pass'[q].list = pass[q].list /\ pass'[q].known = pass[q].known
            /\ n \notin pass'[q].todo
        BY <1>9, <1>13, <3>4, <4>1 DEF UpsertListed
      <4>3. pass[q].list[n] # Absent
        BY <1>13, <3>4 DEF UpsertListed, Courses, Course
      <4> QED
        BY <1>0, <1>13, <3>2, <3>4, <4>2, <4>3 DEF Faithful, UpsertListed
    <3> QED
      BY <3>3, <3>4
  <2> QED
    BY <1>13, <2>1, <2>2 DEF UpsertListed, Written, Skipped
<1>14. ASSUME NEW p \in Passes, NEW m \in Names, MarkVanished(p, m)
       PROVE  Faithful(pass'[q], n, world'[n], rows'[n])
  <2>1. CASE Skipped(p, m) /\ UNCHANGED rows
    BY <1>11, <1>14, <2>1 DEF MarkVanished
  <2>2. CASE /\ Written(p, m)
             /\ rows' = IF pass[p].known[m].gone THEN rows ELSE [rows EXCEPT ![m].status = "stopped"]
    <3>1. \A k \in Names \ {m} : rows'[k] = rows[k]
      BY <2>2 DEF TypeOK
    <3>2. pass[p].known[m].gone = FALSE => rows'[m].status = "stopped"
      BY <2>2 DEF TypeOK, Row, NoRow
    <3>3. CASE q # p \/ n # m
      BY <1>12, <1>14, <2>2, <3>1, <3>3 DEF MarkVanished
    <3>4. CASE q = p /\ n = m
      <4>1. Ticked(p, m)
        BY <2>2 DEF Ticked
      <4>2. /\ n \in pass[q].quiet /\ pass'[q].pc = "mark" /\ pass'[q].kind = "discover"
            /\ pass'[q].list = pass[q].list /\ pass'[q].known = pass[q].known
            /\ pass[q].pc = "mark" /\ pass[q].kind = "discover" /\ n \in pass[q].todo
        BY <1>9, <1>14, <3>4, <4>1 DEF MarkVanished
      <4>3. Lost(pass'[q], n) <=> Lost(pass[q], n)
        BY <4>2 DEF Lost
      <4> QED
        BY <1>0, <1>14, <3>2, <3>4, <4>2, <4>3 DEF Faithful, MarkVanished
    <3> QED
      BY <3>3, <3>4
  <2> QED
    BY <1>14, <2>1, <2>2 DEF MarkVanished, Written, Skipped
<1>15. ASSUME NEW p \in Passes, UpsertsEnd(p)
       PROVE  Faithful(pass'[q], n, world'[n], rows'[n])
  <2>1. UNCHANGED <<world, rows>> /\ pass[p].pc = "upsert" /\ pass[p].todo = {}
    BY <1>15 DEF UpsertsEnd
  <2>2. CASE q # p
    BY <1>0, <1>15, <2>1, <2>2, UpsertsEndKeeps
  <2>3. CASE q = p
    <3>1. /\ pass'[q].pc = "mark" /\ pass'[q].kind = pass[q].kind
          /\ pass'[q].list = pass[q].list /\ pass'[q].known = pass[q].known
          /\ pass'[q].quiet = pass[q].quiet
          /\ pass'[q].todo = IF pass[q].kind = "scan" THEN {} ELSE Vanished(q)
      BY <1>15, <2>3, UpsertsEndKeeps
    <3>2. Faithful(pass[q], n, world[n], rows[n]) /\ pass[q].kind \in {"scan", "discover"}
      BY <1>0, <3>1, PassFields
    <3>3. Lost(pass'[q], n) <=> Lost(pass[q], n)
      BY <3>1 DEF Lost
    <3>4. ASSUME pass[q].list[n] # Absent
          PROVE  rows[n] = RightRow(pass[q].list[n])
      BY <2>1, <2>3, <3>2, <3>4 DEF Faithful
    <3>5. ASSUME pass[q].list[n] # Absent, ~Lost(pass[q], n)
          PROVE  n \notin pass'[q].todo
      BY <1>00, <3>1, <3>5, LostIsVanished
    <3>6. ASSUME pass[q].list[n] = Absent, pass[q].kind = "discover"
          PROVE  pass[q].known[n].gone = FALSE /\ (n \in pass'[q].todo \/ rows[n].status # "running")
      <4>1. rows[n] = pass[q].known[n].row /\ pass[q].known[n].gone = FALSE
        BY <2>1, <2>3, <3>2, <3>6 DEF Faithful
      <4>2. ASSUME rows[n].status = "running"
            PROVE  Lost(pass[q], n)
        <5>1. \A m \in Names : pass[q].list[m] # Absent => pass[q].list[m].id # rows[n].id
          BY <1>00, <3>6, SameName
        <5> QED
          BY <4>1, <4>2, <5>1 DEF Lost, NoRow
      <4> QED
        BY <1>00, <3>1, <3>6, <4>1, <4>2, LostIsVanished
    <3> QED
      BY <2>1, <3>1, <3>2, <3>3, <3>4, <3>5, <3>6 DEF Faithful
  <2> QED
    BY <2>2, <2>3
<1>16. ASSUME NEW p \in Passes, MarksEnd(p)
       PROVE  Faithful(pass'[q], n, world'[n], rows'[n])
  <2>1. /\ UNCHANGED <<world, rows>>
        /\ pass[p].pc = "mark" /\ pass[p].kind = "discover" /\ pass[p].todo = {}
    BY <1>16 DEF MarksEnd
  <2>2. CASE q # p
    BY <1>0, <1>16, <2>1, <2>2, MarksEndKeeps
  <2>3. CASE q = p
    <3>1. /\ pass'[q].pc = "done" /\ pass'[q].kind = pass[q].kind /\ pass'[q].list = pass[q].list
          /\ pass'[q].known = pass[q].known /\ pass'[q].quiet = pass[q].quiet
      BY <1>16, <2>3, MarksEndKeeps
    <3>2. Faithful(pass[q], n, world[n], rows[n])
      BY <1>0, <3>1
    <3>3. Lost(pass'[q], n) <=> Lost(pass[q], n)
      BY <3>1 DEF Lost
    <3>4. ASSUME ~(Lost(pass[q], n) /\ pass[q].list[n] # Absent)
          PROVE  Agree(world[n], rows[n])
      <4>1. pass[q].list[n] = world[n]
        BY <2>1, <2>3, <3>2 DEF Faithful
      <4>2. CASE world[n] = Absent
        BY <2>1, <2>3, <3>2, <4>1, <4>2 DEF Faithful, Agree, Absent
      <4>3. CASE world[n] # Absent
        <5>1. rows[n] = RightRow(world[n])
          BY <2>1, <2>3, <3>2, <3>4, <4>1, <4>3 DEF Faithful
        <5> QED
          BY <5>1 DEF RightRow, Agree
      <4> QED
        BY <4>2, <4>3
    <3> QED
      BY <2>1, <2>3, <3>1, <3>2, <3>3, <3>4 DEF Faithful
  <2> QED
    BY <2>2, <2>3
<1>17. ASSUME NEW p \in Passes, MarkNotRunning(p)
       PROVE  Faithful(pass'[q], n, world'[n], rows'[n])
  <2>1. UNCHANGED world /\ pass[p].pc = "mark" /\ pass[p].kind = "scan"
    BY <1>17 DEF MarkNotRunning
  <2>2. CASE UNCHANGED rows /\ pass'[q] = IF q = p THEN Idle ELSE pass[q]
    BY <1>0, <2>1, <2>2, IdleFields
  <2>3. CASE /\ rows' = [m \in Names |-> IF m \in NotRunning(p) THEN [rows[m] EXCEPT !.status = "stopped"]
                                                                 ELSE rows[m]]
             /\ pass'[q].kind = pass[q].kind /\ pass'[q].list = pass[q].list
             /\ pass'[q].todo = pass[q].todo /\ pass'[q].known = pass[q].known
             /\ pass'[q].pc = IF q = p THEN "done" ELSE pass[q].pc
             /\ pass'[q].quiet = IF q = p THEN pass[q].quiet ELSE pass[q].quiet \ NotRunning(p)
    <3>1. CASE q # p
      <4>1. n \in pass[q].quiet /\ rows'[n] = rows[n] /\ Kept(pass'[q], pass[q])
        BY <1>00, <2>3, <3>1 DEF Kept
      <4> QED
        BY <1>1, <2>1, <4>1
    <3>2. CASE q = p
      <4>1. Faithful(pass[q], n, world[n], rows[n])
        BY <1>0, <2>3, <3>2
      <4>2. pass[q].known[n].row = NoRow
        BY <2>1, <3>2, <4>1 DEF Faithful
      <4>3. ~Lost(pass[q], n)
        BY <4>2 DEF Lost
      <4>4. pass[q].list[n] = IF ~world[n].running THEN Absent ELSE world[n]
        BY <2>1, <3>2, <4>1 DEF Faithful
      <4>5. CASE world[n].running
        <5>1. pass[q].list[n] = world[n] /\ world[n] # Absent
          BY <4>4, <4>5 DEF Absent
        <5>2. rows[n] = RightRow(world[n])
          BY <2>1, <3>2, <4>1, <4>3, <5>1 DEF Faithful
        <5>3. rows[n] = [id |-> world[n].id, status |-> "running"]
          BY <4>5, <5>2 DEF RightRow
        <5>4. n \notin NotRunning(p)
          BY <1>00, <3>2, <4>5, <5>1, <5>3 DEF NotRunning, Running, Listed
        <5> QED
          BY <1>00, <2>1, <2>3, <3>2, <4>1, <4>5, <5>3, <5>4 DEF Faithful, Agree
      <4>6. CASE ~world[n].running
        <5>1. rows'[n].status # "running"
          <6>1. CASE n \in NotRunning(p)
            <7>1. rows'[n] = [rows[n] EXCEPT !.status = "stopped"]
              BY <1>00, <2>3, <6>1
            <7>2. rows[n] \in Row \cup {NoRow}
              BY <1>00 DEF TypeOK
            <7> QED
              BY <7>1, <7>2 DEF Row, NoRow
          <6>2. CASE n \notin NotRunning(p) /\ rows[n].status = "running"
            <7>1. PICK m \in Listed(p) : pass[p].list[m].id = rows[n].id
              BY <1>00, <6>2 DEF NotRunning, Running
            <7>2. m \in Names /\ pass[p].list[m] # Absent
              BY DEF Listed
            <7>3. m = n
              BY <1>00, <7>1, <7>2, SameName
            <7> QED
              BY <3>2, <4>4, <4>6, <7>2, <7>3
          <6>3. CASE n \notin NotRunning(p) /\ rows[n].status # "running"
            BY <1>00, <2>3, <6>3
          <6> QED
            BY <6>1, <6>2, <6>3
        <5> QED
          BY <2>1, <2>3, <3>2, <4>1, <4>6, <5>1 DEF Faithful, Agree
      <4> QED
        BY <4>5, <4>6
    <3> QED
      BY <3>1, <3>2
  <2> QED
    BY <1>17, <2>2, <2>3, MarkNotRunningKeeps
<1>18. ASSUME NEW p \in Passes, PassStep(p)
       PROVE  Faithful(pass'[q], n, world'[n], rows'[n])
  BY <1>5, <1>13, <1>14, <1>15, <1>16, <1>17, <1>18 DEF PassStep
<1>19. CASE DeleteStep
  BY <1>6, <1>19 DEF DeleteStep
<1> QED
  BY <1>2, <1>3, <1>4, <1>7, <1>8, <1>18, <1>19 DEF Next

-----------------------------------------------------------------------------
\* What the table has to do with the daemon, as an inductive invariant.
Kempt == TypeOK /\ Courses /\ OneOwner /\ Honest

\* Nothing is in the table at first, and at most a scan has begun.
LEMMA KemptAtFirst ==
    ASSUME Init
    PROVE  Kempt
<1>1. TypeOK
  <2>1. /\ world \in [Names -> Container \cup {Absent}]
        /\ \A n, m \in Names : n # m /\ world[n] # Absent => world[n].id # world[m].id
        /\ rows \in [Names -> Row \cup {NoRow}] /\ inflight \subseteq Upsert
        /\ upsets \in 0..MaxUpsets
    BY DiscoveryConstants DEF Init
  <2>2. ListFor("scan") \in [Names -> Container \cup {Absent}]
    BY <2>1 DEF ListFor
  <2>3. Begun("scan") \in PassType
    <3> DEFINE l == ListFor("scan")
               t == {n \in Names : ListFor("scan")[n] # Absent}
    <3>1. t \subseteq Names
      OBVIOUS
    <3>2. Begun("scan") = [Idle EXCEPT !.pc = "upsert", !.kind = "scan", !.list = l,
                                       !.quiet = Names, !.todo = t]
      BY DEF Begun
    <3> HIDE DEF l, t
    <3> QED
      BY <2>2, <3>1, <3>2, IdleFields DEF PassType, l
  <2>4. pass \in [Passes -> PassType]
    <3>1. PICK p \in Passes, b \in {Begun("scan"), Idle} :
            pass = [q \in Passes |-> IF q = p THEN b ELSE Idle]
      BY DEF Init, Starts
    <3> HIDE DEF Begun, Idle
    <3> QED
      BY <2>3, <3>1, IdleFields
  <2> QED
    BY <2>1, <2>4 DEF TypeOK
<1>2. \A p \in Passes : pass[p] = Begun("scan") \/ pass[p] = Idle
  BY <1>1, StartFields DEF Init
<1>3. Courses
  BY <1>1, <1>2, IdleFields, BegunFields DEF Courses, Course
<1>4. Honest
  <2>1. ASSUME NEW p \in Passes, NEW n \in pass[p].quiet PROVE pass[p] = Begun("scan") /\ n \in Names
    BY <1>1, <1>2, IdleFields, BegunFields
  <2>2. \A n \in Names : Faithful(Begun("scan"), n, world[n], rows[n])
    BY <1>1, BegunFaithful
  <2> QED
    BY <2>1, <2>2 DEF Honest
<1>5. OneOwner
  <2> DEFINE f == [i \in Ids |-> IF \E n \in Names : world[n].id = i
                                 THEN CHOOSE n \in Names : world[n].id = i ELSE NoId]
  <2>1. f \in Owners
    BY DEF Owners
  <2>2. ASSUME NEW n \in Names, world[n].id \in Ids
        PROVE  f[world[n].id] = n
    <3>1. world[n] # Absent
      BY <2>2, DiscoveryConstants DEF Absent
    <3>2. \A m \in Names : world[m].id = world[n].id => m = n
      BY <1>1, <3>1 DEF TypeOK
    <3> QED
      BY <2>2, <3>2
  <2> HIDE DEF f
  <2>3. \A n \in Names : rows[n].id = NoId
    BY DEF Init, NoRow
  <2>4. ASSUME NEW p \in Passes, NEW n \in Names
        PROVE  HeldBy(f, pass[p], n)
    <3>1. pass[p].known[n].row.id = NoId
      BY <1>1, <1>2, IdleFields, BegunFields DEF NoRow
    <3>2. pass[p].list[n] = Absent \/ pass[p].list[n] = world[n]
      <4>1. Idle.list[n] = Absent
        BY IdleFields
      <4>2. Begun("scan").list[n] = Absent \/ Begun("scan").list[n] = world[n]
        BY <1>1, BegunFields DEF ListFor
      <4> QED
        BY <1>2, <4>1, <4>2
    <3> QED
      BY <2>2, <3>1, <3>2, DiscoveryConstants DEF HeldBy, Absent
  <2>5. Owned(f)
    BY <2>2, <2>3, <2>4, DiscoveryConstants DEF Owned, Init
  <2> QED
    BY <2>1, <2>5 DEF OneOwner
<1> QED
  BY <1>1, <1>3, <1>4, <1>5 DEF Kempt

\* Kempt is an invariant.
LEMMA KemptAlways == Spec => []Kempt
<1>1. Kempt /\ [Next]_discoVars => Kempt'
  BY TypeInductive, CoursesKept, OneOwnerKept, HonestKept DEF Kempt
<1> QED
  BY <1>1, KemptAtFirst, PTL DEF Spec

\* The rows say running, stopped or exited, and no two containers share an id, for any
\* number of containers, passes, events in flight and failures (docker_watcher.go
\* containerStatusFromAction, repo/discovery.go UpsertDiscoveredContainer).
THEOREM TypeCorrect == Spec => []TypeOK
<1>1. Kempt => TypeOK
  BY DEF Kempt
<1> QED
  BY <1>1, KemptAlways, PTL

\* Whatever passes overlap, events are handled late and calls fail, a pass that ends leaves
\* the row right of every container that nobody disturbed and that was not rebuilt
\* (docker.go Discover, docker_discovery.go ScanAll).
THEOREM PassesAreRight == Spec => []PassesReconcile
<1>1. ASSUME Kempt
      PROVE  PassesReconcile
  <2> SUFFICES ASSUME NEW p \in Passes, pass[p].pc = "done", NEW n \in pass[p].quiet, ~Rebuilt(p, n)
               PROVE  Agrees(n)
    BY DEF PassesReconcile
  <2>1. n \in Names
    BY <1>1, PassFields DEF Kempt
  <2>2. Lost(pass[p], n) /\ pass[p].list[n] # Absent => Rebuilt(p, n)
    BY <2>1 DEF Lost, Rebuilt, Current, Listed
  <2>3. Agree(world[n], rows[n])
    BY <1>1, <2>2 DEF Kempt, Honest, Faithful
  <2> QED
    BY <2>3 DEF Agree, Agrees
<1> QED
  BY <1>1, KemptAlways, PTL
=============================================================================

---------------------------- MODULE DetectorsProofs ----------------------------
(***************************************************************************)
(* What holds of Detectors for every set of keys, kinds and readings, with *)
(* a database that may fail and restarts at any time: types, and, while    *)
(* one pass is at work at a time, that the events tell the state.          *)
(***************************************************************************)
EXTENDS Detectors, TLAPS

LEMMA LevelTypes ==
    ASSUME NEW k \in Keys, NEW v \in Readings[k]
    PROVE  /\ Level(k, v) \in Levels
           /\ Kept(k, v) \in Memory /\ Kept(k, v) # Nothing
<1>1. v \in Values
    BY DEF Values
<1>2. Level(k, v) \in {Normal, Warn, Error, Critical} \/ Level(k, v) = v
    BY DetectorConstants DEF Level, SslLevel, StorageLevel, Normal, Warn, Error, Critical
<1>3. Level(k, v) \in Levels
    BY <1>1, <1>2 DEF Levels
<1>4. Level(k, v) # Nothing
    BY <1>2, DetectorConstants DEF Normal, Warn, Error, Critical
<1>5. CASE Kind[k] \in Utilised
    <2>1. v \in Int
        BY <1>5, DetectorConstants
    <2>2. Printed(v) \in Int
        BY <2>1 DEF Printed
    <2>3. Printed(v) \in Memory
        BY <1>1, <2>1 DEF Memory
    <2> QED
        BY <1>3, <1>5, <2>2, <2>3, DetectorConstants DEF Kept
<1>6. CASE Kind[k] \notin Utilised
    BY <1>3, <1>4, <1>6 DEF Kept, Memory
<1> QED
    BY <1>3, <1>5, <1>6

LEMMA LevelTold ==
    ASSUME NEW k \in Keys, NEW v \in Readings[k] PROVE Level(k, v) # Untold
<1>1. Level(k, v) \in {Normal, Warn, Error, Critical} \/ Level(k, v) = v
    BY DetectorConstants DEF Level, SslLevel, StorageLevel, Normal, Warn, Error, Critical
<1> QED
    BY <1>1, DetectorConstants DEF Normal, Warn, Error, Critical

LEMMA OutcomeTypes == Outcomes \subseteq BOOLEAN
BY DEF Outcomes

-----------------------------------------------------------------------------
LEMMA TypeInit == Init => TypeOK
<1> SUFFICES ASSUME Init PROVE TypeOK
    OBVIOUS
<1>1. /\ world = [k \in Keys |-> CHOOSE v \in Readings[k] : TRUE]
      /\ known = [k \in Keys |-> Nothing]
      /\ announced = [k \in Keys |-> Untold]
      /\ base = [k \in Keys |-> Blank(k)]
      /\ faulty = [k \in Keys |-> FALSE]
      /\ pass = [p \in Passes |-> Idle]
    BY DEF Init
<1>2. \A k \in Keys : world[k] \in Readings[k]
    BY <1>1, DetectorConstants
<1>3. world \in [Keys -> Values]
    BY <1>1, <1>2 DEF Values
<1>4. Untold \in Levels /\ \A k \in Keys : Blank(k) \in Levels
    BY DEF Blank, Levels
<1>5. /\ known \in [Keys -> Memory] /\ faulty \in [Keys -> BOOLEAN]
      /\ announced \in [Keys -> Levels] /\ base \in [Keys -> Levels]
    BY <1>1, <1>4 DEF Memory
<1>6. Idle \in PassType /\ Sound(Idle)
    BY DEF Idle, PassType, Sound, Memory
<1> QED
    BY <1>1, <1>2, <1>3, <1>5, <1>6 DEF TypeOK

LEMMA TypeStep == TypeOK /\ [Next]_detVars => TypeOK'
<1> SUFFICES ASSUME TypeOK, [Next]_detVars PROVE TypeOK'
    OBVIOUS
<1> USE DEF TypeOK
<1>idle. Idle \in PassType /\ Sound(Idle)
    BY DEF Idle, PassType, Sound, Memory
<1>1. ASSUME NEW k \in Keys, Change(k) PROVE TypeOK'
    <2>p. PICK v \in Readings[k] : world' = [world EXCEPT ![k] = v]
        BY <1>1 DEF Change
    <2>1. \A h \in Keys : world'[h] \in Readings[h]
        BY <2>p
    <2> QED
        BY <1>1, <2>p, <2>1 DEF Change, Values
<1>2. ASSUME NEW p \in Passes, NEW k \in Keys, Begin(p, k) PROVE TypeOK'
    <2> DEFINE b   == IF Kind[k] \in Stamped THEN Earlier(p, k) ELSE {}
               new == [Idle EXCEPT !.key = k, !.pc = "begun", !.before = b]
    <2>0. b \in SUBSET Passes
        BY DEF Earlier
    <2>1. new \in PassType /\ Sound(new)
        BY <2>0 DEF PassType, Sound, Idle, Memory
    <2>2. \A q \in Passes : /\ Without(p)[q] \in PassType
                            /\ Sound(Without(p)[q])
        BY DEF Without, PassType, Sound
    <2>3. pass' = [Without(p) EXCEPT ![p] = new]
        BY <1>2 DEF Begin
    <2>4. Without(p) \in [Passes -> PassType]
        BY <2>2 DEF Without
    <2> HIDE DEF new
    <2>5. pass' \in [Passes -> PassType] /\ \A q \in Passes : Sound(pass'[q])
        BY <2>1, <2>2, <2>3, <2>4
    <2> QED
        BY <1>2, <2>5 DEF Begin, Sound
<1>10. ASSUME NEW p \in Passes, Probe(p) PROVE TypeOK'
    <2> DEFINE k == pass[p].key
               b == IF Kind[k] \in Stamped THEN pass[p].before ELSE Earlier(p, k)
    <2>1. k \in Keys /\ world[k] \in Readings[k] /\ world[k] \in Values
        BY <1>10 DEF Probe, Sound
    <2>2. b \in SUBSET Passes
        BY DEF Earlier, PassType
    <2> HIDE DEF b
    <2>3. CASE pass' = [pass EXCEPT ![p].pc = "probed", ![p].value = world[k], ![p].before = b]
        <3>1. pass'[p] = [pass[p] EXCEPT !.pc = "probed", !.value = world[k], !.before = b]
            BY <2>3
        <3>2. pass'[p] \in PassType
            BY <2>1, <2>2, <3>1 DEF PassType
        <3>3. pass'[p].key = k /\ pass'[p].value = world[k] /\ pass'[p].pc = "probed"
            BY <3>1 DEF PassType
        <3>4. Sound(pass'[p])
            BY <2>1, <3>3 DEF Sound
        <3> QED
            BY <1>10, <2>3, <3>2, <3>4 DEF Probe, Sound
    <2>4. CASE pass' = [pass EXCEPT ![p] = Idle]
        BY <1>10, <1>idle, <2>4 DEF Probe, Sound
    <2> QED
        BY <1>10, <2>3, <2>4 DEF Probe, b
<1>3. ASSUME NEW p \in Passes, NEW k \in Keys, Forget(p, k) PROVE TypeOK'
    <2>1. Blank(k) \in Levels /\ Nothing \in Memory
        BY DEF Blank, Levels, Memory
    <2> QED
        BY <1>3, <2>1 DEF Forget, Sound
<1>4. ASSUME NEW p \in Passes, Recall(p) PROVE TypeOK'
    <2>p. PICK ok \in BOOLEAN :
            pass' = [pass EXCEPT ![p].pc = IF Kind[pass[p].key] = "container" THEN "tell" ELSE "keep",
                                 ![p].prev = IF ok THEN known[pass[p].key] ELSE Nothing,
                                 ![p].ok = ok]
        BY <1>4, OutcomeTypes DEF Recall
    <2>1. pass[p].key \in Keys /\ pass[p].value \in Readings[pass[p].key]
        BY <1>4 DEF Recall, Sound
    <2>2. known[pass[p].key] \in Memory /\ Nothing \in Memory
        BY <2>1 DEF Memory
    <2> DEFINE pc2   == IF Kind[pass[p].key] = "container" THEN "tell" ELSE "keep"
               prev2 == IF ok THEN known[pass[p].key] ELSE Nothing
    <2>5. pc2 \in {"keep", "tell"} /\ prev2 \in Memory
        BY <2>2
    <2>6. pass' = [pass EXCEPT ![p].pc = pc2, ![p].prev = prev2, ![p].ok = ok]
        BY <2>p
    <2> HIDE DEF pc2, prev2
    <2>3. pass'[p] \in PassType /\ Sound(pass'[p])
        <3>1. pass'[p] = [pass[p] EXCEPT !.pc = pc2, !.prev = prev2, !.ok = ok]
            BY <2>6
        <3>2. pass[p] \in PassType /\ ok \in BOOLEAN
            OBVIOUS
        <3>3. pass'[p] \in PassType
            BY <2>5, <3>1, <3>2 DEF PassType
        <3>4. /\ pass'[p].pc = pc2
              /\ pass'[p].key = pass[p].key
              /\ pass'[p].value = pass[p].value
            BY <3>1, <3>2 DEF PassType
        <3> QED
            BY <2>1, <2>5, <3>3, <3>4 DEF Sound
    <2>4. pass' \in [Passes -> PassType] /\ \A q \in Passes : Sound(pass'[q])
        BY <2>3, <2>6
    <2> QED
        BY <1>4, <2>4 DEF Recall, Sound
<1>5. ASSUME NEW p \in Passes, Swap(p) PROVE TypeOK'
    <2>1. pass[p].key \in Keys /\ pass[p].value \in Readings[pass[p].key]
        BY <1>5 DEF Swap, Sound
    <2>2. pass[p].value \in Memory
        BY <2>1 DEF Memory, Values
    <2>3. pass'[p] \in PassType /\ Sound(pass'[p])
        BY <1>5, <2>1 DEF Swap, PassType, Sound
    <2>4. pass' \in [Passes -> PassType] /\ \A q \in Passes : Sound(pass'[q])
        BY <1>5, <2>3 DEF Swap
    <2> QED
        BY <1>5, <2>1, <2>2, <2>4 DEF Swap, Sound
<1>6. ASSUME NEW p \in Passes, Keep(p) PROVE TypeOK'
    <2> DEFINE k == pass[p].key
    <2>1. k \in Keys /\ pass[p].value \in Readings[k]
        BY <1>6 DEF Keep, Sound
    <2>2. Kept(k, pass[p].value) \in Memory
        BY <2>1, LevelTypes
    <2>p. PICK ok \in BOOLEAN :
            /\ known' = known \/ known' = [known EXCEPT ![k] = Kept(k, pass[p].value)]
            /\ pass' = [q \in Passes |->
                      IF q = p
                      THEN IF Kind[k] = "container" THEN Idle
                           ELSE [pass[p] EXCEPT !.pc = "tell", !.ok = @ /\ ok]
                      ELSE [pass[q] EXCEPT !.late = @ \/ (ok /\ q \in pass[p].before)]]
        BY <1>6, OutcomeTypes DEF Keep
    <2>3. \A q \in Passes : pass'[q] \in PassType /\ Sound(pass'[q])
        BY ZenonT(60), <2>p, <2>1, <1>idle DEF PassType, Sound
    <2>4. pass' \in [Passes -> PassType]
        BY <2>p, <2>3
    <2> QED
        BY ZenonT(60), <1>6, <2>p, <2>1, <2>2, <2>3, <2>4 DEF Keep, Sound
<1>7. ASSUME NEW p \in Passes, Tell(p) PROVE TypeOK'
    <2> DEFINE k == pass[p].key
    <2>1. k \in Keys /\ pass[p].value \in Readings[k]
        BY <1>7 DEF Tell, Sound
    <2>2. Level(k, pass[p].value) \in Levels
        BY <2>1, LevelTypes
    <2>3. /\ announced' \in [Keys -> Levels] /\ base' \in [Keys -> Levels]
          /\ faulty' \in [Keys -> BOOLEAN]
        BY <1>7, <2>1, <2>2 DEF Tell, Levels
    <2>4. pass' = [pass EXCEPT ![p] = IF Kind[k] = "container" THEN [@ EXCEPT !.pc = "keep"] ELSE Idle]
        BY <1>7 DEF Tell
    <2>5. pass' \in [Passes -> PassType] /\ \A q \in Passes : Sound(pass'[q])
        BY <2>1, <2>4, <1>idle DEF PassType, Sound
    <2> QED
        BY <1>7, <2>3, <2>5 DEF Tell, Sound
<1>8. ASSUME Restart PROVE TypeOK'
    <2>1. \A k \in Keys : Blank(k) \in Levels
        BY DEF Blank, Levels
    <2>2. Nothing \in Memory
        BY DEF Memory
    <2>3. /\ known' \in [Keys -> Memory] /\ faulty' \in [Keys -> BOOLEAN]
          /\ announced' \in [Keys -> Levels] /\ base' \in [Keys -> Levels]
        BY <1>8, <2>1, <2>2 DEF Restart
    <2>4. pass' \in [Passes -> PassType] /\ \A q \in Passes : Sound(pass'[q])
        BY <1>8, <1>idle DEF Restart
    <2> QED
        BY <1>8, <2>3, <2>4 DEF Restart, Sound
<1>9. CASE UNCHANGED detVars
    BY <1>9 DEF detVars, Sound
<1> QED
    BY <1>1, <1>2, <1>3, <1>4, <1>5, <1>6, <1>7, <1>8, <1>9, <1>10 DEF Next

\* Types, for any number of passes (scanner/scheduler.go starts one per tick and per
\* request).
THEOREM TypeCorrect == Spec => []TypeOK
BY TypeInit, TypeStep, PTL DEF Spec

-----------------------------------------------------------------------------
OnePass == \A p, q \in Passes : p = q

LEMMA KeptLevel ==
    ASSUME NEW k \in Keys, NEW v \in Readings[k], Faithful(k) \/ Kind[k] = "health"
    PROVE  LevelKept(k, Kept(k, v)) = Level(k, v)
<1>1. CASE Kind[k] \in Utilised
    BY <1>1 DEF Utilised, Faithful, Exact, Kept, LevelKept, Level
<1>2. CASE Kind[k] \notin Utilised
    BY <1>2 DEF Kept, LevelKept
<1> QED
    BY <1>1, <1>2

\* An event that was written tells what is kept of the reading; a reading of which none
\* was written is at the level that was told before.
LEMMA TellAgrees ==
    ASSUME TypeOK, NEW p \in Passes, Tell(p), InStep(p),
           NEW k \in Keys, NEW v \in Readings[k], k = pass[p].key, v = pass[p].value,
           ~faulty'[k]
    PROVE  Agrees(k, Kept(k, v))'
<1> DEFINE told == Tells(k, pass[p].prev, v)
           first == pass[p].prev = Nothing /\ Kind[k] \notin Pollers
           old == Before(k, pass[p].prev)
<1>1. k \in Keys /\ v \in Readings[k] /\ pass[p].pc = "tell"
    BY DEF Tell
<1>p. PICK ok \in IF told THEN Outcomes ELSE {TRUE} :
        /\ announced' = [announced EXCEPT ![k] = IF told /\ ok THEN Level(k, v) ELSE @]
        /\ base' = [base EXCEPT ![k] = IF told /\ ok THEN Untold
                                       ELSE IF first /\ pass[p].ok THEN Level(k, v) ELSE @]
        /\ faulty' = [faulty EXCEPT ![k] = ~pass[p].ok \/ ~ok \/ (@ /\ ~told)]
    BY DEF Tell
<1>2. pass[p].ok /\ ok /\ (faulty[k] => told)
    BY <1>1, <1>p DEF TypeOK
<1>3. Before(k, Kept(k, v)) = Kept(k, v)
    BY <1>1, LevelTypes DEF Before
<1>5. SUFFICES /\ Faithful(k) => Tale(k)' = LevelKept(k, Kept(k, v))
               /\ Kind[k] = "health" /\ Kept(k, v) = Unhealthy => Tale(k)' = Unhealthy
    BY <1>3 DEF Agrees, Tale
<1>6. CASE told \/ first
    <2>1. Tale(k)' = Level(k, v)
        <3>1. CASE told
            <4>1. announced'[k] = Level(k, v) /\ base'[k] = Untold
                BY <1>1, <1>2, <1>p, <3>1 DEF TypeOK
            <4> QED
                BY <4>1 DEF Tale
        <3>2. CASE first /\ ~told
            <4>1. base'[k] = Level(k, v)
                BY <1>1, <1>2, <1>p, <3>2 DEF TypeOK
            <4>2. Level(k, v) # Untold
                BY <1>1, LevelTold
            <4> QED
                BY <4>1, <4>2 DEF Tale
        <3> QED
            BY <1>6, <3>1, <3>2
    <2>2. Kind[k] = "health" => Level(k, v) = Kept(k, v)
        BY DEF Kept, Utilised
    <2> QED
        BY <1>1, <2>1, <2>2, KeptLevel
<1>7. CASE ~told /\ ~first
    <2>1. Tale(k)' = Tale(k) /\ ~faulty[k]
        <3>1. announced'[k] = announced[k] /\ base'[k] = base[k] /\ ~faulty[k]
            BY <1>1, <1>2, <1>p, <1>7 DEF TypeOK
        <3> QED
            BY <3>1 DEF Tale
    <2>2. old # Nothing
        BY <1>7, DetectorConstants DEF Before, Normal
    <2>3. Agrees(k, pass[p].prev)
        BY <1>1, <1>2, <2>1 DEF InStep
    <2>4. /\ Faithful(k) => Tale(k) = LevelKept(k, old)
          /\ Kind[k] = "health" /\ old = Unhealthy => Tale(k) = Unhealthy
        BY <2>2, <2>3 DEF Agrees, Tale
    <2>5. ASSUME Faithful(k) PROVE LevelKept(k, Kept(k, v)) = LevelKept(k, old)
        <3>1. Kept(k, v) = old \/ (Kind[k] = "disk" /\ Level(k, v) = LevelKept(k, old))
            BY <1>7, <2>2, <2>5 DEF Tells, Faithful
        <3> QED
            BY <1>1, <2>5, <3>1, KeptLevel
    <2>6. ASSUME Kind[k] = "health", Kept(k, v) = Unhealthy PROVE old = Unhealthy
        BY <1>7, <2>2, <2>6 DEF Tells
    <2> QED
        BY <2>1, <2>4, <2>5, <2>6
<1> QED
    BY <1>6, <1>7

LEMMA BlankAgrees ==
    ASSUME NEW k \in Keys, base[k] = Blank(k) PROVE Agrees(k, Nothing)
<1>1. CASE Kind[k] \in Pollers
    <2>1. Before(k, Nothing) = Normal /\ base[k] = Normal /\ Normal # Untold
        BY <1>1, DetectorConstants DEF Before, Blank, Normal
    <2>2. LevelKept(k, Normal) = Normal /\ Kind[k] # "health"
        BY <1>1 DEF LevelKept, Utilised, Pollers, Trackers
    <2> QED
        BY <2>1, <2>2 DEF Agrees, Tale
<1>2. CASE Kind[k] \notin Pollers
    BY <1>2 DEF Agrees, Before
<1> QED
    BY <1>1, <1>2

LEMMA BlankAgreesNext ==
    ASSUME NEW k \in Keys, base'[k] = Blank(k) PROVE Agrees(k, Nothing)'
<1>1. CASE Kind[k] \in Pollers
    <2>1. Before(k, Nothing) = Normal /\ base'[k] = Normal /\ Normal # Untold
        BY <1>1, DetectorConstants DEF Before, Blank, Normal
    <2>2. LevelKept(k, Normal) = Normal /\ Kind[k] # "health"
        BY <1>1 DEF LevelKept, Utilised, Pollers, Trackers
    <2> QED
        BY <2>1, <2>2 DEF Agrees, Tale
<1>2. CASE Kind[k] \notin Pollers
    BY <1>2 DEF Agrees, Before
<1> QED
    BY <1>1, <1>2

LEMMA TracksInit == Init => Tracks
<1> SUFFICES ASSUME Init PROVE Tracks
    OBVIOUS
<1>1. \A p \in Passes : pass[p] = Idle
    BY DEF Init
<1>2. \A k \in Keys : known[k] = Nothing /\ base[k] = Blank(k)
    BY DEF Init
<1>3. ASSUME NEW k \in Keys PROVE Agrees(k, known[k])
    BY <1>2, BlankAgrees
<1>4. \A p \in Passes : InStep(p)
    BY <1>1 DEF InStep, Idle
<1> QED
    BY <1>3, <1>4 DEF Tracks

\* What agrees goes on agreeing while the tale stands.
LEMMA AgreesKept ==
    ASSUME NEW k \in Keys, NEW m, announced'[k] = announced[k], base'[k] = base[k], Agrees(k, m)
    PROVE  Agrees(k, m)'
BY DEF Agrees, Tale

\* With one pass the step of a pass leaves no other pass behind.
LEMMA TracksStep ==
    ASSUME OnePass
    PROVE  TypeOK /\ TypeOK' /\ Tracks /\ [Next]_detVars => Tracks'
<1> SUFFICES ASSUME TypeOK, TypeOK', Tracks, [Next]_detVars PROVE Tracks'
    OBVIOUS
<1>t. /\ DOMAIN pass = Passes /\ \A p \in Passes : Sound(pass[p]) /\ pass[p] \in PassType
      /\ \A k \in Keys : world[k] \in Readings[k]
    BY DEF TypeOK
<1>i. Idle.pc = "idle" /\ Idle.key = NoKey /\ ~Idle.late /\ Idle.ok
    BY DEF Idle
<1>1. ASSUME NEW k \in Keys, Change(k) PROVE Tracks'
    BY <1>1 DEF Change, Tracks, InStep, Midway, Agrees, Tale
<1>2. ASSUME NEW p \in Passes,
             \/ \E k \in Keys : Begin(p, k)
             \/ Probe(p)
      PROVE  Tracks'
    <2>1. /\ pass[p].pc \in {"idle", "begun"}
          /\ pass'[p].pc \in {"idle", "begun", "probed"} /\ pass'[p].late = FALSE
        <3>1. CASE \E k \in Keys : Begin(p, k)
            <4>1. PICK k \in Keys : Begin(p, k)
                BY <3>1
            <4>2. PICK b : pass'[p] = [Idle EXCEPT !.key = k, !.pc = "begun", !.before = b]
                BY <4>1 DEF Begin, Without
            <4>3. pass'[p].pc = "begun" /\ pass'[p].late = FALSE
                BY <4>2 DEF Idle
            <4>4. pass[p].pc = "idle"
                BY <1>i, <4>1 DEF Begin
            <4> QED
                BY <4>3, <4>4
        <3>2. CASE Probe(p)
            <4>1. pass[p].pc = "begun" /\ pass[p].late = FALSE
                BY <1>t, <3>2 DEF Probe, Tracks, InStep, PassType
            <4> QED
                BY <1>i, <1>t, <3>2, <4>1 DEF Probe, PassType
        <3> QED
            BY <1>2, <3>1, <3>2
    <2>2. \A q \in Passes : q = p
        BY DEF OnePass
    <2>3. UNCHANGED <<known, announced, base, faulty>>
        BY <1>2 DEF Begin, Probe
    <2>4. \A q \in Passes : ~Midway(q) /\ ~Midway(q)'
        BY <2>1, <2>2 DEF Midway
    <2>5. \A h \in Keys : ~faulty'[h] => Agrees(h, known[h])'
        BY <2>3, <2>4 DEF Tracks, Agrees, Tale
    <2>6. \A q \in Passes : InStep(q)'
        BY <2>1, <2>2 DEF InStep
    <2> QED
        BY <2>5, <2>6 DEF Tracks
<1>3. ASSUME NEW p \in Passes, NEW k \in Keys, Forget(p, k) PROVE Tracks'
    <2>1. \A q \in Passes : q = p /\ pass'[q].pc = "idle" /\ pass[q].pc = "idle" /\ pass'[q].late = FALSE
        BY <1>3, <1>i DEF Forget, OnePass
    <2>2. \A h \in Keys : ~faulty[h] => Agrees(h, known[h])
        BY <2>1 DEF Tracks, Midway
    <2>3. /\ \A h \in Keys \ {k} : known'[h] = known[h] /\ base'[h] = base[h] /\ faulty'[h] = faulty[h]
          /\ known'[k] = Nothing /\ base'[k] = Blank(k) /\ announced' = announced
        BY <1>3 DEF Forget, TypeOK
    <2>4. Agrees(k, known[k])'
        <3>1. Blank(k)' = Blank(k)
            BY DEF Blank
        <3>2. Agrees(k, Nothing)'
            BY <2>3, BlankAgreesNext
        <3> QED
            BY <2>3, <3>2
    <2>5. \A h \in Keys : ~faulty'[h] => Agrees(h, known[h])'
        BY <2>2, <2>3, <2>4 DEF Agrees, Tale
    <2>6. \A q \in Passes : InStep(q)'
        BY <2>1 DEF InStep
    <2> QED
        BY <2>5, <2>6 DEF Tracks
<1>4. ASSUME NEW p \in Passes, Recall(p) PROVE Tracks'
    <2> DEFINE k == pass[p].key
    <2>p. PICK ok \in BOOLEAN :
            /\ Kind[k] \notin Snapshots => ok
            /\ pass' = [pass EXCEPT ![p].pc = IF Kind[pass[p].key] = "container" THEN "tell" ELSE "keep",
                                    ![p].prev = IF ok THEN known[pass[p].key] ELSE Nothing,
                                    ![p].ok = ok]
        BY <1>4, OutcomeTypes DEF Recall
    <2>1. /\ pass[p].pc = "probed" /\ k \in Keys /\ pass[p].late = FALSE
          /\ UNCHANGED <<known, announced, base, faulty>>
        BY <1>4, <1>t DEF Recall, Sound, Tracks, InStep, PassType
    <2>2. \A q \in Passes : q = p
        BY DEF OnePass
    <2>3. \A h \in Keys : ~faulty[h] => Agrees(h, known[h])
        BY <2>1, <2>2 DEF Tracks, Midway
    <2>4. pass'[p] = [pass[p] EXCEPT !.pc = IF Kind[k] = "container" THEN "tell" ELSE "keep",
                                     !.prev = IF ok THEN known[k] ELSE Nothing,
                                     !.ok = ok]
        BY <2>p, <1>t
    <2>5. /\ pass'[p].pc = IF Kind[k] = "container" THEN "tell" ELSE "keep"
          /\ pass'[p].prev = IF ok THEN known[k] ELSE Nothing
          /\ pass'[p].key = k /\ pass'[p].late = FALSE /\ pass'[p].ok = ok
        BY <2>1, <2>4, <1>t DEF PassType
    <2>6. \A h \in Keys : ~faulty'[h] => Agrees(h, known[h])'
        BY <2>1, <2>3 DEF Agrees, Tale
    <2>7. InStep(p)'
        BY <2>1, <2>5, <2>6 DEF InStep
    <2> QED
        BY <2>2, <2>6, <2>7 DEF Tracks
<1>5. ASSUME NEW p \in Passes, Swap(p) PROVE Tracks'
    <2> DEFINE k == pass[p].key
               v == pass[p].value
    <2>1. /\ pass[p].pc = "probed" /\ k \in Keys /\ pass[p].late = FALSE /\ Kind[k] = "router"
          /\ UNCHANGED <<announced, base, faulty>> /\ known' = [known EXCEPT ![k] = v]
        BY <1>5, <1>t DEF Swap, Sound, Tracks, InStep, PassType
    <2>2. \A q \in Passes : q = p
        BY DEF OnePass
    <2>3. \A h \in Keys : ~faulty[h] => Agrees(h, known[h])
        BY <2>1, <2>2 DEF Tracks, Midway
    <2>4. /\ pass'[p].pc = "tell" /\ pass'[p].prev = known[k] /\ pass'[p].key = k
          /\ pass'[p].late = FALSE /\ pass'[p].value = v
        BY <1>5, <2>1, <1>t DEF Swap, PassType
    <2>5. Kept(k, v) = v
        BY <2>1 DEF Kept, Level, Utilised
    <2>6. known'[k] = v /\ \A h \in Keys \ {k} : known'[h] = known[h]
        BY <2>1 DEF TypeOK
    <2>7. \A h \in Keys \ {k} : ~faulty'[h] => Agrees(h, known[h])'
        BY <2>1, <2>3, <2>6 DEF Agrees, Tale
    <2>8. InStep(p)'
        BY <2>1, <2>3, <2>4, <2>5, <2>6 DEF InStep, Agrees, Tale
    <2>9. Midway(p)'
        BY <2>4 DEF Midway
    <2> QED
        <3>1. ASSUME NEW h \in Keys, ~faulty'[h], \A q \in Passes : pass'[q].key = h => ~Midway(q)'
              PROVE  Agrees(h, known[h])'
            <4>1. h # k
                BY <2>4, <2>9, <3>1
            <4> QED
                BY <2>7, <3>1, <4>1
        <3>2. \A q \in Passes : InStep(q)'
            BY <2>2, <2>8
        <3> QED
            BY <3>1, <3>2 DEF Tracks
<1>6. ASSUME NEW p \in Passes, Keep(p) PROVE Tracks'
    <2>h. PICK k \in Keys : k = pass[p].key /\ pass[p].value \in Readings[k]
        BY <1>6, <1>t DEF Keep, Sound
    <2>v. PICK v \in Readings[k] : v = pass[p].value
        BY <2>h
    <2>k. k = pass[p].key /\ v = pass[p].value
        BY <2>h, <2>v
    <2>1. /\ pass[p].pc = "keep" /\ pass[p].late = FALSE
          /\ UNCHANGED <<announced, base, faulty>>
        BY <1>6, <1>t DEF Keep, Tracks, InStep, PassType
    <2>2. \A q \in Passes : q = p
        BY DEF OnePass
    <2>p. PICK ok \in BOOLEAN :
            /\ Kind[k] \notin Snapshots => ok
            /\ known' = IF ok THEN [known EXCEPT ![k] = Kept(k, v)] ELSE known
            /\ pass'[p] = IF Kind[k] = "container" THEN Idle
                          ELSE [pass[p] EXCEPT !.pc = "tell", !.ok = @ /\ ok]
        BY <1>6, <2>k, <2>1, OutcomeTypes DEF Keep
    <2>3. known \in [Keys -> Memory]
        BY DEF TypeOK
    <2>4. \A h \in Keys \ {k} : ~faulty[h] => Agrees(h, known[h])
        BY <2>2, <2>k DEF Tracks
    <2>5. \A h \in Keys \ {k} : ~faulty'[h] => Agrees(h, known[h])'
        BY <2>1, <2>3, <2>4, <2>p DEF Agrees, Tale
    <2>6. CASE Kind[k] = "container"
        <3>1. pass'[p] = Idle /\ known'[k] = Kept(k, v)
            BY <2>3, <2>6, <2>p DEF Snapshots, Utilised
        <3>2. ~faulty[k] => Agrees(k, Kept(k, v))
            BY <2>1, <2>6, <2>k DEF Tracks, InStep
        <3>3. ~faulty'[k] => Agrees(k, known[k])'
            BY <2>1, <3>1, <3>2 DEF Agrees, Tale
        <3>4. InStep(p)'
            BY <1>i, <3>1 DEF InStep
        <3> QED
            BY <2>2, <2>5, <3>3, <3>4 DEF Tracks
    <2>7. CASE Kind[k] # "container"
        <3>1. /\ pass'[p].pc = "tell" /\ pass'[p].key = k /\ pass'[p].value = v
              /\ pass'[p].prev = pass[p].prev /\ pass'[p].late = FALSE
              /\ pass'[p].ok <=> (pass[p].ok /\ ok)
            BY <1>t, <2>1, <2>7, <2>k, <2>p DEF PassType
        <3>2. ok => known'[k] = Kept(k, v)
            BY <2>3, <2>p
        <3>3. ~Midway(p)
            BY <2>1, <2>7, <2>k DEF Midway
        <3>4. ~faulty[k] => Agrees(k, known[k])
            BY <2>2, <3>3 DEF Tracks
        <3>5. pass[p].ok => known[k] = pass[p].prev
            BY <2>1, <2>7, <2>k DEF Tracks, InStep
        <3>6. (pass'[p].ok /\ ~faulty'[k]) => Agrees(k, pass[p].prev)
            BY <2>1, <3>1, <3>4, <3>5
        <3>7. (pass'[p].ok /\ ~faulty'[k]) => Agrees(k, pass[p].prev)'
            BY <2>1, <3>1, <3>6 DEF Agrees, Tale
        <3>8. InStep(p)'
            BY <2>7, <3>1, <3>2, <3>7 DEF InStep
        <3>9. Midway(p)'
            BY <3>1 DEF Midway
        <3>10. ASSUME NEW h \in Keys, ~faulty'[h], \A q \in Passes : pass'[q].key = h => ~Midway(q)'
               PROVE  Agrees(h, known[h])'
            <4>1. h # k
                BY <3>1, <3>9, <3>10
            <4> QED
                BY <2>5, <3>10, <4>1
        <3>11. \A q \in Passes : InStep(q)'
            BY <2>2, <3>8
        <3> QED
            BY <3>10, <3>11 DEF Tracks
    <2> QED
        BY <2>6, <2>7
<1>7. ASSUME NEW p \in Passes, Tell(p) PROVE Tracks'
    <2>h. PICK k \in Keys : k = pass[p].key /\ pass[p].value \in Readings[k]
        BY <1>7, <1>t DEF Tell, Sound
    <2>v. PICK v \in Readings[k] : v = pass[p].value
        BY <2>h
    <2>k. k = pass[p].key /\ v = pass[p].value
        BY <2>h, <2>v
    <2>1. pass[p].pc = "tell" /\ pass[p].late = FALSE /\ UNCHANGED known
        BY <1>7, <1>t DEF Tell, Tracks, InStep, PassType
    <2>2. \A q \in Passes : q = p
        BY DEF OnePass
    <2>3. pass'[p] = IF Kind[k] = "container" THEN [pass[p] EXCEPT !.pc = "keep"] ELSE Idle
        BY <1>7, <1>t, <2>k DEF Tell
    <2>4. /\ \A h \in Keys \ {k} : /\ announced'[h] = announced[h] /\ base'[h] = base[h]
                                   /\ faulty'[h] = faulty[h]
          /\ ~faulty'[k] => pass[p].ok
        BY <1>7, <2>k DEF Tell, TypeOK
    <2>5. InStep(p)
        BY DEF Tracks
    <2>6. ~faulty'[k] => Agrees(k, Kept(k, v))'
        BY <1>7, <2>5, <2>k, TellAgrees
    <2>7. \A h \in Keys \ {k} : ~faulty[h] => Agrees(h, known[h])
        BY <2>2, <2>k DEF Tracks
    <2>8. \A h \in Keys \ {k} : ~faulty'[h] => Agrees(h, known[h])'
        BY <2>1, <2>4, <2>7 DEF Agrees, Tale
    <2>9. CASE Kind[k] = "container"
        <3>1. pass'[p].pc = "keep" /\ pass'[p].key = k /\ pass'[p].value = v /\ pass'[p].late = FALSE
            BY <1>t, <2>1, <2>3, <2>9, <2>k DEF PassType
        <3>2. InStep(p)'
            BY <2>6, <2>9, <3>1 DEF InStep
        <3>3. Midway(p)'
            BY <2>9, <3>1 DEF Midway
        <3>4. ASSUME NEW h \in Keys, ~faulty'[h], \A q \in Passes : pass'[q].key = h => ~Midway(q)'
              PROVE  Agrees(h, known[h])'
            <4>1. h # k
                BY <3>1, <3>3, <3>4
            <4> QED
                BY <2>8, <3>4, <4>1
        <3>5. \A q \in Passes : InStep(q)'
            BY <2>2, <3>2
        <3> QED
            BY <3>4, <3>5 DEF Tracks
    <2>10. CASE Kind[k] # "container"
        <3>1. pass'[p] = Idle
            BY <2>3, <2>10
        <3>2. pass[p].ok => known[k] = Kept(k, v)
            BY <2>1, <2>5, <2>10, <2>k DEF InStep
        <3>3. ~faulty'[k] => Agrees(k, known[k])'
            BY <2>1, <2>4, <2>6, <3>2 DEF Agrees, Tale
        <3>4. InStep(p)'
            BY <1>i, <3>1 DEF InStep
        <3> QED
            BY <2>2, <2>8, <3>3, <3>4 DEF Tracks
    <2> QED
        BY <2>9, <2>10
<1>8. ASSUME Restart PROVE Tracks'
    <2>1. \A q \in Passes : pass'[q] = Idle
        BY <1>8 DEF Restart
    <2>2. \A q \in Passes : InStep(q)'
        BY <1>i, <2>1 DEF InStep
    <2>3. ASSUME NEW k \in Keys, ~faulty'[k] PROVE Agrees(k, known[k])'
        <3>1. CASE Kind[k] \in InMemory
            <4>1. known'[k] = Nothing /\ base'[k] = Blank(k)
                BY <1>8, <3>1 DEF Restart
            <4> QED
                BY <4>1, BlankAgreesNext
        <3>2. CASE Kind[k] \notin InMemory
            <4>1. /\ known'[k] = known[k] /\ announced'[k] = announced[k] /\ base'[k] = base[k]
                  /\ ~faulty[k] /\ \A q \in Passes : ~(pass[q].key = k /\ pass[q].pc = "tell")
                BY <1>8, <2>3, <3>2 DEF Restart
            <4>2. Kind[k] # "container"
                BY <3>2 DEF InMemory, Pollers
            <4>3. \A q \in Passes : pass[q].key = k => ~Midway(q)
                BY <4>1, <4>2 DEF Midway
            <4>4. Agrees(k, known[k])
                BY <4>1, <4>3 DEF Tracks
            <4> QED
                BY <4>1, <4>4 DEF Agrees, Tale
        <3> QED
            BY <3>1, <3>2
    <2> QED
        BY <2>2, <2>3 DEF Tracks
<1>9. CASE UNCHANGED detVars
    BY <1>9 DEF detVars, Tracks, InStep, Midway, Agrees, Tale
<1> QED
    BY <1>1, <1>2, <1>3, <1>4, <1>5, <1>6, <1>7, <1>8, <1>9 DEF Next

LEMMA BeginsInit == Init => BeginsOnce
BY DEF Init, BeginsOnce, Blank, Idle

LEMMA BeginsStep ==
    ASSUME OnePass
    PROVE  TypeOK /\ TypeOK' /\ BeginsOnce /\ [Next]_detVars => BeginsOnce'
<1> SUFFICES ASSUME TypeOK, TypeOK', BeginsOnce, [Next]_detVars PROVE BeginsOnce'
    OBVIOUS
<1> DEFINE Bare(k) == (Kind[k] \in Snapshots /\ (base[k] # Untold \/ known[k] = Nothing)) =>
                          announced[k] = Untold
           First(p) == (pass[p].pc \in {"keep", "tell"} /\ Kind[pass[p].key] \in Snapshots) =>
                          IF pass[p].prev = Nothing
                          THEN pass[p].ok => announced[pass[p].key] = Untold
                          ELSE known[pass[p].key] # Nothing
<1>b. (\A k \in Keys : Bare(k)) /\ (\A p \in Passes : First(p))
    BY DEF BeginsOnce
<1>q. (\A k \in Keys : Bare(k)') /\ (\A p \in Passes : First(p)') => BeginsOnce'
    BY DEF BeginsOnce
<1>o. \A p, q \in Passes : p = q
    BY DEF OnePass
<1>t. /\ \A p \in Passes : Sound(pass[p]) /\ pass[p] \in PassType
      /\ pass \in [Passes -> PassType]
      /\ known \in [Keys -> Memory] /\ announced \in [Keys -> Levels] /\ base \in [Keys -> Levels]
    BY DEF TypeOK
<1>d. Snapshots \cap InMemory = {} /\ Snapshots \cap Pollers = {} /\ "container" \notin Snapshots /\ "router" \notin Snapshots
    BY DEF Snapshots, InMemory, Utilised, Pollers, Trackers
<1>i. Idle.pc = "idle"
    BY DEF Idle
<1> HIDE DEF Bare, First
<1>1. ASSUME UNCHANGED <<known, announced, base, pass>> PROVE BeginsOnce'
    BY <1>1 DEF BeginsOnce
<1>2. ASSUME NEW p \in Passes, UNCHANGED <<known, announced, base>>,
             pass'[p].pc \notin {"keep", "tell"}
      PROVE  BeginsOnce'
    <2>1. \A k \in Keys : Bare(k)'
        BY <1>2, <1>b DEF Bare
    <2>2. \A q \in Passes : First(q)'
        BY <1>2, <1>o DEF First
    <2> QED
        BY <1>q, <2>1, <2>2
<1>3. ASSUME NEW p \in Passes, NEW k \in Keys, Forget(p, k) PROVE BeginsOnce'
    <2>1. \A h \in Keys \ {k} : known'[h] = known[h] /\ base'[h] = base[h]
        BY <1>3, <1>t DEF Forget
    <2>2. Kind[k] = "container" /\ UNCHANGED <<announced, pass>> /\ pass[p].pc = "idle"
        BY <1>3, <1>i DEF Forget
    <2>3. \A h \in Keys : Bare(h)'
        BY <1>b, <1>d, <2>1, <2>2 DEF Bare
    <2>4. \A q \in Passes : First(q)'
        BY <1>o, <2>2 DEF First
    <2> QED
        BY <1>q, <2>3, <2>4
<1>4. ASSUME NEW p \in Passes, Recall(p) PROVE BeginsOnce'
    <2>1. PICK k \in Keys : k = pass[p].key
        BY <1>4, <1>t DEF Recall, Sound
    <2>2. UNCHANGED <<known, announced, base>>
        BY <1>4 DEF Recall
    <2>3. /\ pass'[p].key = k
          /\ pass'[p].prev = known[k] \/ (pass'[p].prev = Nothing /\ pass'[p].ok = FALSE)
        BY <1>4, <1>t, <2>1 DEF Recall, Outcomes, PassType
    <2>4. First(p)'
        BY <1>b, <2>1, <2>2, <2>3 DEF First, Bare
    <2> QED
        BY <1>b, <1>o, <1>q, <2>2, <2>4 DEF Bare
<1>5. ASSUME NEW p \in Passes, Swap(p) PROVE BeginsOnce'
    <2>1. PICK k \in Keys : k = pass[p].key
        BY <1>5, <1>t DEF Swap, Sound
    <2>2. /\ Kind[k] = "router" /\ UNCHANGED <<announced, base>> /\ pass'[p].key = k
          /\ \A h \in Keys \ {k} : known'[h] = known[h]
        BY <1>5, <1>t, <2>1 DEF Swap, PassType
    <2>3. \A h \in Keys : Bare(h)'
        BY <1>b, <1>d, <2>2 DEF Bare
    <2>4. \A q \in Passes : First(q)'
        BY <1>d, <1>o, <2>2 DEF First
    <2> QED
        BY <1>q, <2>3, <2>4
<1>6. ASSUME NEW p \in Passes, Keep(p) PROVE BeginsOnce'
    <2>1. PICK k \in Keys : k = pass[p].key /\ pass[p].value \in Readings[k]
        BY <1>6, <1>t DEF Keep, Sound
    <2>2. UNCHANGED <<announced, base>> /\ pass[p].pc = "keep"
        BY <1>6 DEF Keep
    <2>3. \A h \in Keys : known'[h] = known[h] \/ known'[h] # Nothing
        BY <1>6, <1>t, <2>1, LevelTypes DEF Keep
    <2>4. \A h \in Keys : Bare(h)'
        BY <1>b, <2>2, <2>3 DEF Bare
    <2>5. CASE Kind[k] = "container"
        <3>1. pass'[p] = Idle
            BY <1>6, <2>1, <2>5 DEF Keep
        <3> QED
            BY <1>i, <1>o, <1>q, <2>4, <3>1 DEF First
    <2>6. CASE Kind[k] # "container"
        <3>1. /\ pass'[p].key = k /\ pass'[p].prev = pass[p].prev
              /\ pass'[p].ok => pass[p].ok
            <4>1. PICK ok \in BOOLEAN : pass'[p] = [pass[p] EXCEPT !.pc = "tell", !.ok = @ /\ ok]
                BY <1>6, <2>1, <2>6, OutcomeTypes DEF Keep
            <4>2. pass[p] \in PassType
                BY <1>t
            <4>3. /\ pass'[p].key = pass[p].key /\ pass'[p].prev = pass[p].prev
                  /\ pass'[p].ok <=> (pass[p].ok /\ ok)
                BY <4>1, <4>2 DEF PassType
            <4> QED
                BY <2>1, <4>3
        <3>2. First(p)'
            BY <1>b, <2>1, <2>2, <2>3, <3>1 DEF First
        <3> QED
            BY <1>o, <1>q, <2>4, <3>2
    <2> QED
        BY <2>5, <2>6
<1>7. ASSUME NEW p \in Passes, Tell(p) PROVE BeginsOnce'
    <2>1. PICK k \in Keys : k = pass[p].key
        BY <1>7, <1>t DEF Tell, Sound
    <2> DEFINE told == Tells(k, pass[p].prev, pass[p].value)
               first == pass[p].prev = Nothing /\ Kind[k] \notin Pollers
    <2>2. UNCHANGED known /\ pass[p].pc = "tell"
        BY <1>7 DEF Tell
    <2>p. PICK ok \in BOOLEAN :
            /\ announced' = [announced EXCEPT ![k] =
                                IF told /\ ok THEN Level(k, pass[p].value) ELSE @]
            /\ base' = [base EXCEPT ![k] = IF told /\ ok THEN Untold
                            ELSE IF first /\ pass[p].ok THEN Level(k, pass[p].value) ELSE @]
        BY <1>7, <2>1, OutcomeTypes DEF Tell
    <2>3. \A h \in Keys \ {k} : Bare(h)'
        BY <1>b, <1>t, <2>2, <2>p DEF Bare
    <2>4. ASSUME Kind[k] \in Snapshots PROVE Bare(k)'
        <3>1. told => pass[p].prev # Nothing
            BY <1>d, <2>4 DEF Tells, Before
        <3>2. CASE told /\ ok
            <4>1. base'[k] = Untold /\ known'[k] # Nothing
                BY <1>b, <1>t, <2>1, <2>2, <2>4, <2>p, <3>1, <3>2 DEF First
            <4> QED
                BY <4>1 DEF Bare
        <3>3. CASE ~(told /\ ok) /\ first /\ pass[p].ok
            BY <1>b, <1>t, <2>1, <2>2, <2>4, <2>p, <3>3 DEF Bare, First
        <3>4. CASE ~(told /\ ok) /\ ~(first /\ pass[p].ok)
            BY <1>b, <1>t, <2>2, <2>p, <3>4 DEF Bare
        <3> QED
            BY <3>2, <3>3, <3>4
    <2>5. Bare(k)'
        BY <2>4 DEF Bare
    <2>6. pass'[p] = IF Kind[k] = "container" THEN [pass[p] EXCEPT !.pc = "keep"] ELSE Idle
        BY <1>7, <1>t, <2>1 DEF Tell
    <2>7. CASE Kind[k] = "container"
        <3>1. pass'[p].key = k
            BY <1>t, <2>1, <2>6, <2>7 DEF PassType
        <3> QED
            BY <1>d, <1>o, <1>q, <2>3, <2>5, <2>7, <3>1 DEF First
    <2>8. CASE Kind[k] # "container"
        BY <1>i, <1>o, <1>q, <2>3, <2>5, <2>6, <2>8 DEF First
    <2> QED
        BY <2>7, <2>8
<1>8. ASSUME Restart PROVE BeginsOnce'
    <2>1. \A k \in Keys : Kind[k] \in Snapshots =>
              known'[k] = known[k] /\ base'[k] = base[k] /\ announced'[k] = announced[k]
        BY <1>8, <1>d DEF Restart
    <2>2. \A k \in Keys : Bare(k)'
        BY <1>b, <2>1 DEF Bare
    <2>3. \A p \in Passes : pass'[p] = Idle
        BY <1>8 DEF Restart
    <2> QED
        BY <1>i, <1>q, <2>2, <2>3 DEF First
<1>9. ASSUME NEW p \in Passes, NEW k \in Keys, Begin(p, k) PROVE BeginsOnce'
    <2>1. \E b : pass'[p] = [Idle EXCEPT !.key = k, !.pc = "begun", !.before = b]
        BY <1>9 DEF Begin, Without
    <2>2. pass'[p].pc = "begun"
        BY <2>1 DEF Idle
    <2> QED
        BY <1>2, <1>9, <2>2 DEF Begin
<1>10. ASSUME NEW p \in Passes, Probe(p) PROVE BeginsOnce'
    <2>1. pass'[p].pc \in {"probed", "idle"}
        BY <1>10, <1>i, <1>t DEF Probe, PassType
    <2> QED
        BY <1>2, <1>10, <2>1 DEF Probe
<1> QED
    BY <1>1, <1>3, <1>4, <1>5, <1>6, <1>7, <1>8, <1>9, <1>10 DEF Next, Change, detVars

LEMMA TracksAlways ==
    ASSUME OnePass PROVE Spec => [](TypeOK /\ Tracks /\ BeginsOnce)
<1>1. Init => TypeOK /\ Tracks /\ BeginsOnce
    BY TypeInit, TracksInit, BeginsInit
<1>2. TypeOK /\ Tracks /\ BeginsOnce /\ [Next]_detVars => (TypeOK /\ Tracks /\ BeginsOnce)'
    BY TypeStep, TracksStep, BeginsStep
<1> QED
    BY <1>1, <1>2, PTL DEF Spec

-----------------------------------------------------------------------------
\* While one pass is at work at a time, no crossing and no recovery is swallowed as long
\* as no call fails, but by the loss of a detector's memory: CheckAndFire, checkThresholds,
\* processInspect, the swap of the router states and captureSnapshot.  The events stay
\* when the memory goes; only a detector that lost it, and never one of a snapshot, may
\* stand at its base line with older events in the table.
THEOREM EventsTell ==
    ASSUME OnePass PROVE Spec => []EventsTellState
<1>1. ASSUME TypeOK, Tracks, BeginsOnce PROVE EventsTellState
    <2> DEFINE Reads(k, l) == \/ announced[k] = l
                              \/ base[k] = l /\ (announced[k] # Untold => Kind[k] \in InMemory)
    <2>1. ASSUME NEW k \in Keys, NEW l, Tale(k) = l PROVE Reads(k, l)
        <3>1. Kind[k] \in Snapshots \cup InMemory
            BY DetectorConstants DEF Kinds
        <3>2. (Kind[k] \in Snapshots /\ base[k] # Untold) => announced[k] = Untold
            BY <1>1 DEF BeginsOnce
        <3> QED
            BY <2>1, <3>1, <3>2 DEF Tale
    <2> HIDE DEF Reads
    <2>2. ASSUME NEW k \in Keys, known[k] # Nothing, ~faulty[k],
                 \A p \in Passes : pass[p].key # k
          PROVE  /\ Faithful(k) => Reads(k, LevelKept(k, known[k]))
                 /\ Kind[k] = "health" /\ known[k] = Unhealthy => Reads(k, Unhealthy)
        <3>1. Agrees(k, known[k]) /\ Before(k, known[k]) = known[k]
            BY <1>1, <2>2 DEF Tracks, Before
        <3>2. Faithful(k) => Tale(k) = LevelKept(k, known[k])
            BY <2>2, <3>1 DEF Agrees
        <3>3. Kind[k] = "health" /\ known[k] = Unhealthy => Tale(k) = Unhealthy
            BY <2>2, <3>1 DEF Agrees
        <3> QED
            BY <2>1, <3>2, <3>3
    <2> QED
        BY <2>2 DEF EventsTellState, Reads
<1> QED
    BY <1>1, TracksAlways, PTL

\* Nor is anything but a pool told twice by one memory, when the disks report no more
\* decimals than are kept: an event that repeats the last one in the table is the first of
\* a detector that lost its memory, and no detector of a snapshot writes one.
THEOREM NothingRepeated ==
    ASSUME OnePass, \A k \in Keys : Faithful(k) \/ Kind[k] \in {"health", "pool"}
    PROVE  Spec => []NoRepeat
<1>1. ASSUME TypeOK, Tracks, BeginsOnce PROVE NoRepeat
    <2> SUFFICES ASSUME NEW p \in Passes, NEW k \in Keys, k = pass[p].key,
                        pass[p].pc = "tell", Kind[k] # "pool",
                        ~faulty[k], pass[p].ok,
                        Tells(k, pass[p].prev, pass[p].value)
                 PROVE  \/ announced[k] # Level(k, pass[p].value)
                        \/ Kind[k] \in InMemory /\ base[k] \notin {Untold, Level(k, pass[p].value)}
                        \/ Kind[k] = "health" /\ Level(k, pass[p].value) = Unhealthy
        <3>1. \A p \in Passes : pass[p].pc = "tell" => pass[p].key \in Keys
            BY <1>1 DEF TypeOK, Sound
        <3> QED
            BY <3>1 DEF NoRepeat
    <2> DEFINE v   == pass[p].value
               old == Before(k, pass[p].prev)
    <2>1. v \in Readings[k]
        BY <1>1 DEF TypeOK, Sound
    <2>2. Agrees(k, pass[p].prev)
        BY <1>1 DEF Tracks, InStep
    <2>3. old # Nothing /\ Kept(k, v) # old
        BY DEF Tells
    <2>4. SUFFICES Tale(k) # Level(k, v) \/ (Kind[k] = "health" /\ Level(k, v) = Unhealthy)
        <3>1. Level(k, v) # Untold /\ Kind[k] \in Snapshots \cup InMemory
            BY <2>1, LevelTold, DetectorConstants DEF Kinds
        <3>2. (Kind[k] \in Snapshots /\ base[k] # Untold) => announced[k] = Untold
            BY <1>1 DEF BeginsOnce
        <3> QED
            BY <3>1, <3>2 DEF Tale
    <2>5. CASE Faithful(k)
        <3>1. Tale(k) = LevelKept(k, old)
            BY <2>2, <2>3, <2>5 DEF Agrees
        <3>2. CASE Kind[k] = "disk"
            BY <3>1, <3>2 DEF Tells
        <3>3. CASE Kind[k] # "disk"
            BY <2>3, <2>5, <3>1, <3>3 DEF Faithful, LevelKept, Kept, Utilised
        <3> QED
            BY <3>2, <3>3
    <2>6. CASE Kind[k] = "health"
        <3>1. Kept(k, v) = v /\ Level(k, v) = v
            BY <2>6 DEF Kept, Level, Utilised
        <3>2. v = Unhealthy \/ (v = Healthy /\ old = Unhealthy)
            BY <2>6, <3>1 DEF Tells
        <3>3. old = Unhealthy => Tale(k) = Unhealthy
            BY <2>2, <2>3, <2>6 DEF Agrees
        <3> QED
            BY <2>6, <3>1, <3>2, <3>3, DetectorConstants
    <2> QED
        BY <2>5, <2>6
<1> QED
    BY <1>1, TracksAlways, PTL
=============================================================================

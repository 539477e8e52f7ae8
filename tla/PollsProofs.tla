------------------------------ MODULE PollsProofs ------------------------------
(***************************************************************************)
(* Proofs about ScanScheduler, AppIngest and ImageUpdates, for any         *)
(* devices, senders, images and bounds: types, and that the rate limiter   *)
(* holds.  Last, that the three side by side still do what each does.      *)
(***************************************************************************)
EXTENDS MC_Polls, TLAPS

(* Scans: types *)

\* A scan that is about to write has a status to write, which its type alone would let be
\* Keep; one that is idle is done.
SoundStep == {step \in Step : /\ step.ph = "write" => step.out \in Written
                              /\ step.ph = "idle" => step = Done}
SoundPass == [pc : {"idle", "scan", "globals"}, bucket : Buckets, at : [Devices -> SoundStep]]

ScanInv == ScanTypeOK /\ pass \in [Slots -> SoundPass]

LEMMA SoundPasses == SoundPass \subseteq Pass
BY DEF SoundPass, SoundStep, Pass

LEMMA StepTypes ==
    /\ Done \in SoundStep /\ ToGet \in SoundStep /\ NoPass \in SoundPass /\ 1 \in Keys
    /\ \A k \in Keys : ToCall(k) \in SoundStep
    /\ \A o \in Written \cup {Keep} : ToWrite(o) \in SoundStep
<1>1. Done \in SoundStep /\ ToGet \in SoundStep
    BY DEF Done, ToGet, SoundStep, Step, Written
<1>2. NoPass \in SoundPass
    BY <1>1 DEF NoPass, SoundPass, Buckets, Tickers
<1>3. \A k \in Keys : ToCall(k) \in SoundStep
    BY DEF ToCall, SoundStep, Step
<1>4. \A o \in Written \cup {Keep} : ToWrite(o) \in SoundStep
    BY <1>1 DEF ToWrite, SoundStep, Step
<1>5. 1 \in Keys
    BY ScanConstants DEF Keys
<1> QED
    BY <1>1, <1>2, <1>3, <1>4, <1>5

LEMMA StartingTypes ==
    ASSUME NEW b \in Buckets, NEW D
    PROVE  Starting(b, D) \in SoundPass /\ [Starting(b, D) EXCEPT !.pc = "globals"] \in SoundPass
BY StepTypes DEF Starting, SoundPass

\* No scanner writes a status the table does not know.
LEMMA OutcomesAreStatuses ==
    ASSUME NEW b, NEW k \in Kinds, NEW a \in Answers
    PROVE  Outcomes(b, k, a) \subseteq Written \cup {Keep}
<1>1. PortainerEnrich(a) \subseteq Written
    BY DEF PortainerEnrich, Written
<1>2. TraefikDiscover(a) \subseteq Written /\ SynologyDiscover(a) \subseteq Written \cup {Keep}
    BY DEF TraefikDiscover, SynologyDiscover, Written, Answers
<1>3. Discoveries(k, a) \subseteq Written \cup {Keep}
    BY <1>2 DEF Discoveries, SNMPDiscover, SNMPPoll, Written
<1>4. TraefikMetrics(a) \subseteq Written \cup {Keep}
    BY DEF TraefikMetrics, Written, Answers
<1>5. ProxmoxMetrics(a) \subseteq Written \cup {Keep}
    BY DEF ProxmoxMetrics, Written, Answers
<1>6. ScanOneComponent(k, a) \subseteq Written /\ SNMPPoll(a) \subseteq Written
    <2>1. SNMPPoll(a) \subseteq Written
        BY DEF SNMPPoll, Written
    <2>2. CASE k = "portainer"
        <3>1. ScanOneComponent(k, a) = PortainerEnrich(a)
            BY <2>2 DEF ScanOneComponent
        <3> QED
            BY <1>1, <2>1, <3>1
    <2>3. CASE k = "snmp"
        <3>1. ScanOneComponent(k, a) = SNMPPoll(a)
            BY <2>3 DEF ScanOneComponent
        <3> QED
            BY <2>1, <3>1
    <2>4. CASE k \in {"traefik", "proxmox", "synology"}
        <3>1. a = "all" \/ a = "some" \/ a = "none" \/ a = "expired"
            BY DEF Answers
        <3>2. CASE a = "all"
            <4>1. ScanOneComponent(k, a) = {"online"}
                BY <2>4, <3>2 DEF ScanOneComponent
            <4> QED
                BY <2>1, <4>1 DEF Written
        <3>3. CASE a = "some"
            <4>1. ScanOneComponent(k, a) \in {{"online", "offline"}, {"degraded", "online"}, {"degraded"}}
                BY <2>4, <3>3 DEF ScanOneComponent
            <4> QED
                BY <2>1, <4>1 DEF Written
        <3>4. CASE a \in {"none", "expired"}
            <4>1. ScanOneComponent(k, a) = {"offline"}
                BY <2>4, <3>4 DEF ScanOneComponent
            <4> QED
                BY <2>1, <4>1 DEF Written
        <3> QED
            BY <3>1, <3>2, <3>3, <3>4
    <2> QED
        BY <2>2, <2>3, <2>4 DEF Kinds
<1> HIDE DEF Written
<1> QED
    BY <1>1, <1>3, <1>4, <1>5, <1>6 DEF Outcomes

LEMMA GoTypes ==
    ASSUME ScanInv, NEW s \in Slots, NEW d \in Devices, NEW step \in SoundStep, Go(s, d, step)
    PROVE  pass' \in [Slots -> SoundPass]
<1>1. pass[s] \in SoundPass
    BY DEF ScanInv
<1>2. PICK p : p = [pass[s] EXCEPT !.at[d] = step]
    OBVIOUS
<1>3. p \in SoundPass
    BY <1>1, <1>2 DEF SoundPass
<1>4. pass' = [pass EXCEPT ![s] = p]
    BY <1>2 DEF Go, ScanInv
<1> QED
    BY <1>3, <1>4 DEF ScanInv

\* What is left to show of a step that moves a pass, or none.
LEMMA InvFromParts ==
    ASSUME pass' \in [Slots -> SoundPass],
           host' \in [Devices -> [reach : Reaches, key : Keys]], device' \in [Devices -> Device],
           poller' \in [Devices -> Keys \cup {0}], edit' \in [Devices -> [busy : BOOLEAN, to : Device]],
           upsets' \in 0 .. MaxUpsets
    PROVE  ScanInv'
<1>1. pass' \in [Slots -> Pass]
    BY SoundPasses
<1> QED
    BY <1>1 DEF ScanInv, ScanTypeOK

LEMMA ScanInvInit == ScanInit => ScanInv
<1> SUFFICES ASSUME ScanInit PROVE ScanInv
    OBVIOUS
<1>1. NoDevice \in Device /\ NoEdit \in [busy : BOOLEAN, to : Device]
    BY StepTypes DEF NoDevice, NoEdit, Device, Kinds
<1>2. pass \in [Slots -> SoundPass] /\ pass \in [Slots -> Pass]
    BY StepTypes, SoundPasses DEF ScanInit
<1> QED
    BY <1>1, <1>2, StepTypes, ScanConstants DEF ScanInit, ScanInv, ScanTypeOK, Reaches

LEMMA ScanningTypes ==
    ASSUME ScanInv, NEW s \in Slots, NEW d \in Devices, Scanning(s, d)
    PROVE  ScanInv'
<1>1. pass[s].at[d] \in SoundStep /\ device[d] \in Device
    BY DEF ScanInv, ScanTypeOK, SoundPass
<1>2. CASE ScanGet(s, d)
    <2>1. device[d].cred \in Keys
        BY <1>1 DEF Device
    <2>2. CASE ~Exists(d)
        <3>1. pass' \in [Slots -> SoundPass]
            BY <1>2, <2>2, StepTypes, GoTypes DEF ScanGet
        <3> QED
            BY <1>2, <2>2, <3>1, InvFromParts DEF ScanGet, ScanInv, ScanTypeOK
    <2>3. CASE Exists(d) /\ KeepsPoller(pass[s].bucket, device[d].kind)
        <3>1. PICK k : k = IF poller[d] = 0 THEN device[d].cred ELSE poller[d]
            OBVIOUS
        <3>2. k \in Keys
            BY <2>1, <3>1 DEF ScanInv, ScanTypeOK
        <3>3. Go(s, d, ToCall(k)) /\ poller' = [poller EXCEPT ![d] = k] /\ UNCHANGED <<host, device, edit, upsets>>
            BY <1>2, <2>3, <3>1 DEF ScanGet
        <3>4. pass' \in [Slots -> SoundPass]
            BY <3>2, <3>3, StepTypes, GoTypes
        <3>5. poller' \in [Devices -> Keys \cup {0}]
            BY <3>2, <3>3 DEF ScanInv, ScanTypeOK
        <3> QED
            BY <3>3, <3>4, <3>5, InvFromParts DEF ScanInv, ScanTypeOK
    <2>4. CASE Exists(d) /\ ~KeepsPoller(pass[s].bucket, device[d].kind)
        <3>1. pass' \in [Slots -> SoundPass]
            BY <1>2, <2>1, <2>4, StepTypes, GoTypes DEF ScanGet
        <3> QED
            BY <1>2, <2>4, <3>1, InvFromParts DEF ScanGet, ScanInv, ScanTypeOK
    <2> QED
        BY <2>2, <2>3, <2>4
<1>3. CASE Answer(s, d) \/ Timeout(s, d)
    <2>1. device[d].kind \in Kinds
        BY <1>1 DEF Device
    <2>2. Says(d, pass[s].at[d].cred) \in Answers /\ "expired" \in Answers
        BY DEF Says, Answers
    <2>3. PICK o \in Written \cup {Keep} : Go(s, d, ToWrite(o))
        BY <1>3, <2>1, <2>2, OutcomesAreStatuses DEF Answer, Timeout
    <2>4. pass' \in [Slots -> SoundPass]
        BY <2>3, StepTypes, GoTypes
    <2> QED
        BY <1>3, <2>4, InvFromParts DEF Answer, Timeout, ScanInv, ScanTypeOK
<1>4. CASE Write(s, d)
    <2>1. pass' \in [Slots -> SoundPass]
        BY <1>4, StepTypes, GoTypes DEF Write
    <2>2. PICK o \in Written : device' = UpdateStatus(d, o)
        BY <1>1, <1>4 DEF Write, SoundStep
    <2>3. [device[d] EXCEPT !.status = o] \in Device
        BY <1>1 DEF Device
    <2>4. device' \in [Devices -> Device]
        BY <2>2, <2>3 DEF UpdateStatus, ScanInv, ScanTypeOK
    <2> QED
        BY <1>4, <2>1, <2>4, InvFromParts DEF Write, ScanInv, ScanTypeOK
<1> QED
    BY <1>2, <1>3, <1>4 DEF Scanning

LEMMA PassTypes ==
    ASSUME ScanInv, NEW s \in Slots, NEW b \in Buckets,
           RunPass(s, b) \/ Globals(s) \/ EndPass(s) \/ \E d \in Devices : Ask(b, d)
    PROVE  pass' \in [Slots -> SoundPass] /\ UNCHANGED <<host, device, poller, edit>>
<1>1. pass \in [Slots -> SoundPass] /\ "snapshot" \in Buckets
    BY DEF ScanInv, Buckets, Tickers
<1>2. CASE RunPass(s, b)
    BY <1>1, <1>2, StartingTypes DEF RunPass
<1>3. CASE Globals(s)
    BY <1>1, <1>3, StartingTypes DEF Globals
<1>4. CASE EndPass(s)
    BY <1>1, <1>4, StepTypes DEF EndPass
<1>5. CASE \E d \in Devices : Ask(b, d)
    <2>1. PICK d \in Devices : Ask(b, d)
        BY <1>5
    <2>2. "request" \in Slots
        BY DEF Slots
    <2>3. PICK p \in SoundPass : pass' = [pass EXCEPT !["request"] = p]
        <3>1. CASE d \in Portainers
            BY <2>1, <3>1, StartingTypes DEF Ask
        <3>2. CASE d \notin Portainers
            BY <2>1, <3>2, StartingTypes DEF Ask
        <3> QED
            BY <3>1, <3>2
    <2> QED
        BY <1>1, <2>1, <2>2, <2>3 DEF Ask
<1> QED
    BY <1>2, <1>3, <1>4, <1>5

LEMMA ScanInvStep ==
    ASSUME ScanInv, [ScanNext]_scanVars
    PROVE  ScanInv'
<1> USE ScanConstants
<1>1. CASE UNCHANGED scanVars
    BY <1>1 DEF ScanInv, ScanTypeOK, scanVars
<1>2. ASSUME NEW s \in Slots, NEW d \in Devices, Scanning(s, d) PROVE ScanInv'
    BY <1>2, ScanningTypes
<1>3. Upset => upsets' \in 0 .. MaxUpsets
    BY DEF Upset, ScanInv, ScanTypeOK
<1>4. ASSUME NEW b \in Tickers, Tick(b) \/ RunJob(b) PROVE ScanInv'
    <2>1. upsets' \in 0 .. MaxUpsets
        BY <1>3, <1>4 DEF Tick, RunJob, ScanInv, ScanTypeOK
    <2>2. b \in Buckets /\ b \in Slots /\ "job" \in Slots
        BY DEF Buckets, Slots
    <2>3. RunPass(b, b) \/ RunPass("job", b)
        BY <1>4 DEF Tick, RunJob
    <2>4. pass' \in [Slots -> SoundPass] /\ UNCHANGED <<host, device, poller, edit>>
        BY <2>2, <2>3, PassTypes
    <2> QED
        BY <2>1, <2>4, InvFromParts DEF ScanInv, ScanTypeOK
<1>5. ASSUME NEW d \in Devices, NEW b \in {"scan", "discover"}, Ask(b, d) PROVE ScanInv'
    <2>1. "request" \in Slots /\ b \in Buckets
        BY DEF Slots, Buckets
    <2>2. pass' \in [Slots -> SoundPass] /\ UNCHANGED <<host, device, poller, edit>>
        BY <1>5, <2>1, PassTypes
    <2> QED
        BY <1>3, <1>5, <2>2, InvFromParts DEF Ask, ScanInv, ScanTypeOK
<1>6. ASSUME NEW s \in Slots, Globals(s) \/ EndPass(s) PROVE ScanInv'
    <2>1. "scan" \in Buckets
        BY DEF Buckets
    <2>2. pass' \in [Slots -> SoundPass] /\ UNCHANGED <<host, device, poller, edit>>
        BY <1>6, <2>1, PassTypes
    <2>3. UNCHANGED upsets
        BY <1>6 DEF Globals, EndPass
    <2> QED
        BY <2>2, <2>3, InvFromParts DEF ScanInv, ScanTypeOK
<1>7. ASSUME NEW d \in Devices, NEW k \in KindsOf[d], AddDevice(d, k) PROVE ScanInv'
    <2>1. k \in Kinds /\ host[d].key \in Keys
        BY DEF ScanInv, ScanTypeOK
    <2>2. [NoDevice EXCEPT !.row = "live", !.kind = k, !.enabled = TRUE, !.cred = host[d].key] \in Device
        BY <2>1 DEF NoDevice, Device
    <2>3. device' \in [Devices -> Device]
        BY <1>7, <2>2 DEF AddDevice, ScanInv, ScanTypeOK
    <2> QED
        BY <1>7, <2>3, InvFromParts DEF AddDevice, ScanInv, ScanTypeOK
<1>8. ASSUME NEW d \in Devices, EditRead(d) PROVE ScanInv'
    <2>1. device[d] \in Device /\ host[d].key \in Keys
        BY DEF ScanInv, ScanTypeOK
    <2>2. PICK on \in BOOLEAN :
            edit' = [edit EXCEPT ![d] = [busy |-> TRUE, to |-> [device[d] EXCEPT !.enabled = on, !.cred = host[d].key]]]
        BY <1>8 DEF EditRead
    <2>3. [device[d] EXCEPT !.enabled = on, !.cred = host[d].key] \in Device
        BY <2>1 DEF Device
    <2>4. edit' \in [Devices -> [busy : BOOLEAN, to : Device]]
        BY <2>2, <2>3 DEF ScanInv, ScanTypeOK
    <2> QED
        BY <1>3, <1>8, <2>4, InvFromParts DEF EditRead, ScanInv, ScanTypeOK
<1>9. ASSUME NEW d \in Devices, EditWrite(d) PROVE ScanInv'
    <2>1. edit[d].to \in Device
        BY DEF ScanInv, ScanTypeOK
    <2>2. device' \in [Devices -> Device]
        BY <1>9, <2>1 DEF EditWrite, ScanInv, ScanTypeOK
    <2>3. NoEdit \in [busy : BOOLEAN, to : Device]
        BY StepTypes DEF NoEdit, NoDevice, Device, Kinds
    <2>4. edit' \in [Devices -> [busy : BOOLEAN, to : Device]]
        BY <1>9, <2>3 DEF EditWrite, ScanInv, ScanTypeOK
    <2> QED
        BY <1>9, <2>2, <2>4, InvFromParts DEF EditWrite, ScanInv, ScanTypeOK
<1>10. ASSUME NEW d \in Devices, RemoveDevice(d) PROVE ScanInv'
    <2>1. [device[d] EXCEPT !.row = "gone"] \in Device
        <3>1. device[d] \in Device
            BY DEF ScanInv, ScanTypeOK
        <3> QED
            BY <3>1 DEF Device
    <2>2. device' = [device EXCEPT ![d] = [device[d] EXCEPT !.row = "gone"]]
        BY <1>10 DEF RemoveDevice, ScanInv, ScanTypeOK
    <2>3. device' \in [Devices -> Device]
        BY <2>1, <2>2 DEF ScanInv, ScanTypeOK
    <2> QED
        BY <1>3, <1>10, <2>3, InvFromParts DEF RemoveDevice, ScanInv, ScanTypeOK
<1>11. ASSUME NEW d \in Devices, NewKey(d) \/ \E r \in Reaches : HostTurns(d, r) PROVE ScanInv'
    <2>1. host' \in [Devices -> [reach : Reaches, key : Keys]]
        <3>1. CASE NewKey(d)
            BY <3>1 DEF NewKey, ScanInv, ScanTypeOK, Keys
        <3>2. CASE \E r \in Reaches : HostTurns(d, r)
            BY <3>2 DEF HostTurns, ScanInv, ScanTypeOK
        <3> QED
            BY <1>11, <3>1, <3>2
    <2> QED
        BY <1>3, <1>11, <2>1, InvFromParts DEF NewKey, HostTurns, ScanInv, ScanTypeOK
<1>12. CASE RestartScans
    <2>1. pass' \in [Slots -> SoundPass] /\ poller' \in [Devices -> Keys \cup {0}]
        BY <1>12, StepTypes DEF RestartScans
    <2>2. NoEdit \in [busy : BOOLEAN, to : Device]
        BY StepTypes DEF NoEdit, NoDevice, Device, Kinds
    <2>3. edit' \in [Devices -> [busy : BOOLEAN, to : Device]]
        BY <1>12, <2>2 DEF RestartScans
    <2> QED
        BY <1>3, <1>12, <2>1, <2>3, InvFromParts DEF RestartScans, ScanInv, ScanTypeOK
<1> QED
    BY <1>1, <1>2, <1>4, <1>5, <1>6, <1>7, <1>8, <1>9, <1>10, <1>11, <1>12 DEF ScanNext

\* Scans, edits, hosts and restarts keep their types; a status that is written is one the
\* table knows.
THEOREM ScanTypeCorrect == ScanSpec => []ScanTypeOK
<1>1. ScanInv => ScanTypeOK
    BY DEF ScanInv
<1> QED
    BY <1>1, ScanInvInit, ScanInvStep, PTL DEF ScanSpec

-----------------------------------------------------------------------------
(* Scans: why every pass can end *)

\* A scan under way can go on, with what the host says, at its deadline or by a write.
MayMove(s, d) ==
    \/ pass[s].at[d].ph \in {"call", "write"}
    \/ pass[s].at[d].ph = "get" /\ (pass[s].pc = "globals" => Alone(s, d))

NoPassStuck == \A s \in Slots :
    pass[s].pc # "idle" => Finished(s) \/ \E d \in Devices : MayMove(s, d)

\* Whatever the devices, none of those a pass scans side by side or one after the other waits
\* for another for good: a pass that has not finished has a scan that can go on.
THEOREM PassesNeverStuck == ScanSpec => []NoPassStuck
<1>1. ASSUME ScanInv PROVE NoPassStuck
    <2> SUFFICES ASSUME NEW s \in Slots, ~Finished(s)
                 PROVE  \E d \in Devices : MayMove(s, d)
        BY DEF NoPassStuck
    <2>1. \A d \in Devices : pass[s].at[d] \in SoundStep
        BY <1>1 DEF ScanInv, SoundPass
    <2>2. PICK d \in Devices : pass[s].at[d] # Done
        BY DEF Finished
    <2>3. CASE \E e \in Devices : pass[s].at[e].ph \in {"call", "write"}
        BY <2>3 DEF MayMove
    <2>4. CASE \A e \in Devices : pass[s].at[e].ph \notin {"call", "write"}
        <3>1. \A e \in Devices : pass[s].at[e].ph \in {"idle", "get"}
            BY <2>1, <2>4 DEF SoundStep, Step
        <3>2. Alone(s, d)
            BY <3>1 DEF Alone
        <3>3. pass[s].at[d].ph = "get"
            BY <2>1, <2>2, <3>1 DEF SoundStep
        <3> QED
            BY <3>2, <3>3 DEF MayMove
    <2> QED
        BY <2>3, <2>4
<1> QED
    BY <1>1, ScanInvInit, ScanInvStep, PTL DEF ScanSpec

\* The steps a scan has before it.
StepsLeft(step) ==
    CASE step.ph = "get" -> 3 [] step.ph = "call" -> 2 [] step.ph = "write" -> 1 [] OTHER -> 0

\* A pass that stays in its phase: what changes of it are scans, and they come nearer their end.
Advances(s) == pass'[s].pc = pass[s].pc /\ pass[s].pc # "idle" =>
    \A d \in Devices : pass'[s].at[d] # pass[s].at[d] =>
        StepsLeft(pass'[s].at[d]) < StepsLeft(pass[s].at[d])

LEMMA ScanningAdvances ==
    ASSUME ScanInv, NEW s \in Slots, NEW d \in Devices, Scanning(s, d)
    PROVE  \E step \in Step : Go(s, d, step) /\ StepsLeft(step) < StepsLeft(pass[s].at[d])
<1>1. StepsLeft(Done) = 0 /\ \A k : StepsLeft(ToCall(k)) = 2
    BY DEF StepsLeft, Done, ToCall
<1>2. \A o : StepsLeft(ToWrite(o)) \in {0, 1}
    BY <1>1 DEF StepsLeft, ToWrite, Done
<1>3. /\ pass[s].at[d].ph = "get" => StepsLeft(pass[s].at[d]) = 3
      /\ pass[s].at[d].ph = "call" => StepsLeft(pass[s].at[d]) = 2
      /\ pass[s].at[d].ph = "write" => StepsLeft(pass[s].at[d]) = 1
    BY DEF StepsLeft
<1>4. Done \in Step /\ (\A k \in Keys : ToCall(k) \in Step) /\ \A o \in Written \cup {Keep} : ToWrite(o) \in Step
    BY StepTypes DEF SoundStep
<1>5. device[d] \in Device /\ poller[d] \in Keys \cup {0}
    BY DEF ScanInv, ScanTypeOK
<1>6. CASE ScanGet(s, d)
    <2>1. pass[s].at[d].ph = "get" /\ (Go(s, d, Done) \/ \E k \in Keys : Go(s, d, ToCall(k)))
        BY <1>5, <1>6 DEF ScanGet, Device
    <2> QED
        BY <1>1, <1>3, <1>4, <2>1
<1>7. CASE Answer(s, d) \/ Timeout(s, d)
    <2>1. Says(d, pass[s].at[d].cred) \in Answers /\ "expired" \in Answers
        BY DEF Says, Answers
    <2>2. PICK o \in Written \cup {Keep} : Go(s, d, ToWrite(o))
        BY <1>5, <1>7, <2>1, OutcomesAreStatuses DEF Answer, Timeout, Device
    <2>3. pass[s].at[d].ph = "call"
        BY <1>7 DEF Answer, Timeout
    <2>4. StepsLeft(ToWrite(o)) < 2
        BY <1>2
    <2> QED
        BY <1>3, <1>4, <2>2, <2>3, <2>4
<1>8. CASE Write(s, d)
    BY <1>1, <1>3, <1>4, <1>8 DEF Write
<1> QED
    BY <1>6, <1>7, <1>8 DEF Scanning

\* Whatever edits, hosts, restarts and other passes do meanwhile: no scan of a pass is begun
\* again or sent back, so with PassesNeverStuck a pass is bounded by its devices.
THEOREM PassesAdvance == ScanSpec => [][\A s \in Slots : Advances(s)]_scanVars
<1>1. ASSUME ScanInv, ScanNext PROVE \A s \in Slots : Advances(s)
    <2> SUFFICES ASSUME NEW s \in Slots PROVE Advances(s)
        OBVIOUS
    <2>1. CASE UNCHANGED pass
        BY <2>1 DEF Advances
    <2>2. ASSUME NEW q \in Slots, NEW e \in Devices, Scanning(q, e) PROVE Advances(s)
        <3>1. PICK step \in Step : Go(q, e, step) /\ StepsLeft(step) < StepsLeft(pass[q].at[e])
            BY <1>1, <2>2, ScanningAdvances
        <3>2. pass \in [Slots -> SoundPass]
            BY <1>1 DEF ScanInv
        <3>3. \A d \in Devices : pass'[s].at[d] = IF q = s /\ d = e THEN step ELSE pass[s].at[d]
            BY <3>1, <3>2 DEF Go, SoundPass
        <3> QED
            BY <3>1, <3>3 DEF Advances
    <2>3. ASSUME NEW q \in Slots, NEW p, pass' = [pass EXCEPT ![q] = p], pass[q].pc # p.pc PROVE Advances(s)
        <3>1. pass \in [Slots -> SoundPass]
            BY <1>1 DEF ScanInv
        <3>2. CASE s = q
            BY <2>3, <3>1, <3>2 DEF Advances
        <3>3. CASE s # q
            BY <2>3, <3>1, <3>3 DEF Advances
        <3> QED
            BY <3>2, <3>3
    <2>4. ASSUME NEW q \in Slots, NEW b, RunPass(q, b) PROVE Advances(s)
        BY <2>3, <2>4 DEF RunPass, Starting
    <2>5. ASSUME NEW b, NEW d, Ask(b, d) PROVE Advances(s)
        <3>1. "request" \in Slots
            BY DEF Slots
        <3>2. \A D : Starting(b, D).pc = "scan" /\ [Starting(b, D) EXCEPT !.pc = "globals"].pc = "globals"
            BY DEF Starting
        <3>3. PICK p : pass' = [pass EXCEPT !["request"] = p] /\ p.pc # "idle" /\ pass["request"].pc = "idle"
            <4>1. CASE d \in Portainers
                BY <2>5, <3>2, <4>1 DEF Ask
            <4>2. CASE d \notin Portainers
                BY <2>5, <3>2, <4>2 DEF Ask
            <4> QED
                BY <4>1, <4>2
        <3> QED
            BY <2>3, <3>1, <3>3
    <2>6. ASSUME NEW q \in Slots, Globals(q) PROVE Advances(s)
        <3>1. [Starting("snapshot", Worker(q)) EXCEPT !.pc = "globals"].pc = "globals"
            BY DEF Starting
        <3> QED
            BY <2>3, <2>6, <3>1 DEF Globals
    <2>7. ASSUME NEW q \in Slots, EndPass(q) PROVE Advances(s)
        BY <2>3, <2>7 DEF EndPass, NoPass
    <2>8. CASE RestartScans
        BY <2>8 DEF RestartScans, NoPass, Advances
    <2>9. ASSUME NEW b \in Tickers, Tick(b) \/ RunJob(b) PROVE Advances(s)
        <3>1. b \in Slots /\ "job" \in Slots
            BY DEF Slots
        <3> QED
            BY <2>4, <2>9, <3>1 DEF Tick, RunJob
    <2> QED
        BY <1>1, <2>1, <2>2, <2>5, <2>6, <2>7, <2>8, <2>9
           DEF ScanNext, AddDevice, EditRead, EditWrite, RemoveDevice, NewKey, HostTurns
<1>2. ScanInv /\ [ScanNext]_scanVars => [\A s \in Slots : Advances(s)]_scanVars
    BY <1>1
<1> QED
    BY <1>2, ScanInvInit, ScanInvStep, PTL DEF ScanSpec

-----------------------------------------------------------------------------
(* Ingest: numbers *)

LEMMA LeastIsLeast ==
    ASSUME NEW m \in Nat, NEW n \in Nat
    PROVE  /\ Least(m, n) \in Nat /\ Least(m, n) <= m /\ Least(m, n) <= n
           /\ Least(m, n) = m \/ Least(m, n) = n
BY DEF Least

LEMMA SomeRoom == /\ MaxCount \in Nat /\ MaxCount > 0
                  /\ \A l \in Limits \cup {0} : l \in Nat /\ l < MaxCount
<1>1. PICK l \in Limits : TRUE
    BY IngestConstants
<1>2. l \in Nat /\ l < MaxCount /\ MaxCount \in Nat
    BY IngestConstants
<1>3. MaxCount > 0
    BY <1>2
<1>4. \A k \in Limits : k \in Nat /\ k < MaxCount
    BY IngestConstants
<1> QED
    BY <1>2, <1>3, <1>4

-----------------------------------------------------------------------------
(* Ingest: types *)

LEMMA CountedCounts ==
    ASSUME NEW w \in [count : 0 .. MaxCount, age : 0 .. WindowAge], NEW l \in Nat
    PROVE  /\ Counted(w, l).w \in [count : 0 .. MaxCount, age : 0 .. WindowAge]
           /\ Counted(w, l).ok \in BOOLEAN
           /\ w.age = WindowAge => Counted(w, l).w.count = 1
           /\ w.age # WindowAge => /\ Counted(w, l).w.count = Least(w.count + 1, MaxCount)
                                   /\ Counted(w, l).ok = (Least(w.count + 1, MaxCount) <= l)
<1>1. CASE w.age = WindowAge
    BY <1>1, SomeRoom DEF Counted, WindowAge
<1>2. CASE w.age # WindowAge
    <2>1. Least(w.count + 1, MaxCount) \in 0 .. MaxCount
        <3>1. w.count \in Nat /\ w.count + 1 \in Nat
            OBVIOUS
        <3> QED
            BY <3>1, SomeRoom DEF Least
    <2> QED
        BY <1>2, <2>1 DEF Counted
<1> QED
    BY <1>1, <1>2

LEMMA IngestTypeInit == ASSUME IngestInit PROVE IngestTypeOK
BY IngestConstants DEF IngestInit, IngestTypeOK, AppRow, NoHook, NoPoll, Profiles, WindowAge

LEMMA AllowKeepsTypes == ASSUME IngestTypeOK, NEW s \in Senders, Allow(s) PROVE IngestTypeOK'
<1>1. hook[s].limit \in Nat
    BY SomeRoom DEF IngestTypeOK
<1>2. PICK r : r = Counted(window, hook[s].limit)
    OBVIOUS
<1>3. r.w \in [count : 0 .. MaxCount, age : 0 .. WindowAge] /\ r.ok \in BOOLEAN
    BY <1>1, <1>2, CountedCounts DEF IngestTypeOK
<1>4. /\ window' = r.w
      /\ taken' = IF window.age = WindowAge THEN 1 ELSE Least(taken + (IF r.ok THEN 1 ELSE 0), MaxCount)
      /\ hook' = [hook EXCEPT ![s] = IF r.ok THEN [@ EXCEPT !.pc = "store"] ELSE NoHook]
      /\ UNCHANGED <<app, events, api, poll, snapshot, edits>>
    BY <1>2 DEF Allow
<1>5. taken' \in 0 .. MaxCount
    BY <1>3, <1>4, SomeRoom DEF IngestTypeOK, Least
<1>6. hook' \in [Senders -> [pc : {"idle", "allow", "store"}, limit : Limits \cup {0}, profile : Profiles]]
    BY <1>4 DEF IngestTypeOK, NoHook, Profiles
<1> QED
    BY <1>3, <1>4, <1>5, <1>6 DEF IngestTypeOK

LEMMA IngestTypeStep ==
    ASSUME IngestTypeOK, [IngestNext]_ingestVars
    PROVE  IngestTypeOK'
<1> USE IngestConstants
<1>1. CASE UNCHANGED ingestVars
    BY <1>1 DEF IngestTypeOK, ingestVars
<1>2. ASSUME NEW s \in Senders, NEW t \in 1 .. MaxToken, Receive(s, t) PROVE IngestTypeOK'
    BY <1>2 DEF Receive, IngestTypeOK, AppRow
<1>3. ASSUME NEW s \in Senders, Hook(s) PROVE IngestTypeOK'
    <2>1. CASE StoreEvent(s)
        <3>1. events' \subseteq Levels
            BY <2>1 DEF StoreEvent, IngestTypeOK
        <3>2. hook' \in [Senders -> [pc : {"idle", "allow", "store"}, limit : Limits \cup {0}, profile : Profiles]]
            BY <2>1 DEF StoreEvent, IngestTypeOK, NoHook, Profiles
        <3> QED
            BY <2>1, <3>1, <3>2 DEF StoreEvent, IngestTypeOK
    <2> QED
        BY <1>3, <2>1, AllowKeepsTypes DEF Hook
<1>4. ASSUME NEW p \in Pollers, StartPoll(p) \/ Polling(p) PROVE IngestTypeOK'
    <2>1. poll' \in [Pollers -> [pc : {"idle", "call", "write"}, profile : Profiles, value : 0 .. 1]]
        <3>1. NoPoll \in [pc : {"idle", "call", "write"}, profile : Profiles, value : 0 .. 1]
            BY DEF NoPoll, Profiles
        <3>2. CASE PollAnswers(p)
            BY <3>2 DEF PollAnswers, IngestTypeOK
        <3>3. CASE StartPoll(p)
            BY <3>3 DEF StartPoll, IngestTypeOK, AppRow
        <3>4. CASE PollFails(p) \/ WriteSnapshot(p)
            BY <3>1, <3>4 DEF PollFails, WriteSnapshot, IngestTypeOK
        <3> QED
            BY <1>4, <3>2, <3>3, <3>4 DEF Polling
    <2>2. events' \subseteq Levels /\ snapshot' \in 0 .. 2
        BY <1>4 DEF StartPoll, Polling, PollAnswers, PollFails, WriteSnapshot, IngestTypeOK, Levels
    <2> QED
        BY <1>4, <2>1, <2>2 DEF StartPoll, Polling, PollAnswers, PollFails, WriteSnapshot, IngestTypeOK
<1>5. CASE ClockSteps
    BY <1>5 DEF ClockSteps, IngestTypeOK, WindowAge
<1>6. CASE ApiChanges
    BY <1>6 DEF ApiChanges, IngestTypeOK
<1>7. CASE UpdateRead
    BY <1>7 DEF UpdateRead, IngestTypeOK
<1>8. CASE UpdateWrite
    <2>1. edits.copy[1] \in Limits
        BY <1>8 DEF UpdateWrite, IngestTypeOK
    <2> QED
        BY <1>8, <2>1 DEF UpdateWrite, IngestTypeOK, AppRow
<1>9. CASE RegenerateToken
    <2>1. [app EXCEPT !.token = @ + 1] \in AppRow
        <3>1. app \in AppRow /\ app.token + 1 \in 1 .. MaxToken
            BY <1>9, IngestConstants DEF RegenerateToken, IngestTypeOK, AppRow
        <3> QED
            BY <3>1 DEF AppRow
    <2>2. [edits EXCEPT !.n = @ + 1] \in [n : 0 .. MaxEdits, copy : {<<>>} \cup {<<l>> : l \in Limits}]
        BY <1>9 DEF RegenerateToken, IngestTypeOK
    <2> QED
        BY <1>9, <2>1, <2>2 DEF RegenerateToken, IngestTypeOK
<1>10. CASE RemoveApp
    <2>1. [app EXCEPT !.live = FALSE] \in AppRow
        BY DEF IngestTypeOK, AppRow
    <2>2. [edits EXCEPT !.n = @ + 1] \in [n : 0 .. MaxEdits, copy : {<<>>} \cup {<<l>> : l \in Limits}]
        BY <1>10 DEF RemoveApp, IngestTypeOK
    <2> QED
        BY <1>10, <2>1, <2>2 DEF RemoveApp, IngestTypeOK
<1> QED
    BY <1>1, <1>2, <1>3, <1>4, <1>5, <1>6, <1>7, <1>8, <1>9, <1>10 DEF IngestNext

\* Requests, polls, edits and the clock keep their types, and only levels the events table
\* takes get into it.
THEOREM IngestTypeCorrect == IngestSpec => []IngestTypeOK
BY IngestTypeInit, IngestTypeStep, PTL DEF IngestSpec

-----------------------------------------------------------------------------
(* Ingest: the limiter *)

\* What passed in a window is part of what was counted in it.
PassedWereCounted == taken <= window.count

LEMMA PassedStep ==
    ASSUME IngestTypeOK, PassedWereCounted, [IngestNext]_ingestVars
    PROVE  PassedWereCounted'
<1>1. ASSUME NEW s \in Senders, Allow(s) PROVE PassedWereCounted'
    <2>1. hook[s].limit \in Nat /\ window.count \in Nat /\ taken \in Nat
        BY SomeRoom DEF IngestTypeOK
    <2>2. PICK r : r = Counted(window, hook[s].limit)
        OBVIOUS
    <2>3. /\ window.age = WindowAge => r.w.count = 1
          /\ window.age # WindowAge => r.w.count = Least(window.count + 1, MaxCount)
          /\ r.ok \in BOOLEAN
        BY <2>1, <2>2, CountedCounts DEF IngestTypeOK
    <2>4. /\ window' = r.w
          /\ taken' = IF window.age = WindowAge THEN 1
                      ELSE Least(taken + (IF r.ok THEN 1 ELSE 0), MaxCount)
        BY <1>1, <2>2 DEF Allow
    <2>5. CASE window.age = WindowAge
        BY <2>3, <2>4, <2>5 DEF PassedWereCounted
    <2>6. CASE window.age # WindowAge
        BY <2>1, <2>3, <2>4, <2>6, SomeRoom DEF PassedWereCounted, Least
    <2> QED
        BY <2>5, <2>6
<1>2. CASE UNCHANGED <<window, taken>>
    BY <1>2 DEF PassedWereCounted
<1>3. CASE ClockSteps
    BY <1>3 DEF ClockSteps, PassedWereCounted, IngestTypeOK
<1>4. ASSUME NEW s \in Senders, StoreEvent(s) \/ \E t \in 1 .. MaxToken : Receive(s, t)
      PROVE  PassedWereCounted'
    BY <1>2, <1>4 DEF StoreEvent, Receive
<1>5. ASSUME NEW p \in Pollers, StartPoll(p) \/ Polling(p) PROVE PassedWereCounted'
    BY <1>2, <1>5 DEF StartPoll, Polling, PollAnswers, PollFails, WriteSnapshot
<1>6. CASE ApiChanges \/ UpdateRead \/ UpdateWrite \/ RegenerateToken \/ RemoveApp
    BY <1>2, <1>6 DEF ApiChanges, UpdateRead, UpdateWrite, RegenerateToken, RemoveApp
<1>7. CASE UNCHANGED ingestVars
    BY <1>2, <1>7 DEF ingestVars
<1> QED
    BY <1>1, <1>3, <1>4, <1>5, <1>6, <1>7 DEF IngestNext, Hook

LEMMA RateFromSteps == IngestInit /\ [][IngestNext]_ingestVars => RateHeld
<1> DEFINE Held == \A s \in Senders :
                      hook[s].pc = "allow" /\ hook'[s].pc = "store" => taken' <= hook[s].limit \/ taken' = 1
<1>1. ASSUME IngestTypeOK, PassedWereCounted, [IngestNext]_ingestVars
      PROVE  [Held]_ingestVars
    <2> SUFFICES ASSUME IngestNext, NEW s \in Senders, hook[s].pc = "allow", hook'[s].pc = "store"
                 PROVE  taken' <= hook[s].limit \/ taken' = 1
        BY <1>1
    <2>1. Allow(s)
        <3>1. ASSUME NEW q \in Senders, StoreEvent(q) \/ (\E t \in 1 .. MaxToken : Receive(q, t))
                                        \/ (q # s /\ Allow(q))
              PROVE  FALSE
            BY <1>1, <3>1 DEF StoreEvent, Receive, Allow, IngestTypeOK, NoHook
        <3>2. CASE UNCHANGED hook
            BY <3>2
        <3> QED
            BY <3>1, <3>2 DEF IngestNext, Hook, StartPoll, Polling, PollAnswers, PollFails, WriteSnapshot,
               ClockSteps, ApiChanges, UpdateRead, UpdateWrite, RegenerateToken, RemoveApp
    <2>2. /\ hook[s].limit \in Nat /\ hook[s].limit < MaxCount
          /\ window.count \in Nat /\ taken \in Nat
        BY <1>1, SomeRoom DEF IngestTypeOK
    <2>3. PICK r : r = Counted(window, hook[s].limit)
        OBVIOUS
    <2>4. window.age # WindowAge => r.ok = (Least(window.count + 1, MaxCount) <= hook[s].limit)
        BY <1>1, <2>2, <2>3, CountedCounts DEF IngestTypeOK
    <2>5. /\ taken' = IF window.age = WindowAge THEN 1
                      ELSE Least(taken + (IF r.ok THEN 1 ELSE 0), MaxCount)
          /\ hook'[s] = IF r.ok THEN [hook[s] EXCEPT !.pc = "store"] ELSE NoHook
        BY <1>1, <2>1, <2>3 DEF Allow, IngestTypeOK
    <2>6. r.ok
        BY <2>5 DEF NoHook
    <2>7. CASE window.age # WindowAge
        <3>1. Least(window.count + 1, MaxCount) <= hook[s].limit
            BY <2>4, <2>6, <2>7
        <3>2. window.count + 1 <= hook[s].limit
            BY <2>2, <3>1, SomeRoom DEF Least
        <3>3. taken' <= taken + 1
            BY <2>2, <2>5, <2>6, <2>7, SomeRoom, LeastIsLeast
        <3> QED
            BY <1>1, <2>2, <2>5, <2>6, <2>7, <3>2, <3>3, SomeRoom DEF PassedWereCounted, Least
    <2> QED
        BY <2>5, <2>7
<1>2. IngestInit => PassedWereCounted
    BY DEF IngestInit, PassedWereCounted
<1> QED
    BY <1>1, <1>2, IngestTypeInit, IngestTypeStep, PassedStep, PTL DEF RateHeld

\* No request passes that the limit it carries does not cover, however many requests
\* reach the limiter at once and whatever becomes of the app's limit meanwhile.
THEOREM RateAlwaysHeld == IngestSpec => RateHeld
BY RateFromSteps, PTL DEF IngestSpec

-----------------------------------------------------------------------------
(* Image checks: types *)

Container == [id : 1 .. MaxMoves + 1, up : BOOLEAN, digest : Digests, source : {"socket", "portainer"}]
Check     == [pc : {"idle", "next", "ask", "write"}, list : [Images -> Row], todo : SUBSET Images,
              at : Images \cup {"none"}, local : 0 .. ConfigHash, remote : 0 .. MaxDigest]

\* A container that is made anew has an id of its own: ids count rebuilds, which are moves.
ImagesInv ==
    /\ ImagesTypeOK
    /\ \A i \in Images : running[i].id <= moves + 1

LEMMA RowTypes ==
    /\ NoRow \in Row /\ NoCheck \in Check
    /\ Digests \subseteq 0 .. MaxDigest /\ Digests \subseteq 0 .. ConfigHash
    /\ ConfigHash \in 0 .. ConfigHash /\ 1 \in Digests
<1>1. MaxDigest \in Nat /\ MaxDigest >= 1 /\ MaxMoves \in Nat
    BY ImageConstants
<1>2. NoRow \in Row
    BY <1>1 DEF NoRow, Row, NoDigest, ConfigHash
<1>3. NoCheck \in Check
    BY <1>1, <1>2 DEF NoCheck, Check, NoDigest, ConfigHash
<1> QED
    BY <1>1, <1>2, <1>3 DEF Digests, ConfigHash

LEMMA ImagesStart == ASSUME ImagesInit PROVE ImagesInv
<1>1. running \in [Images -> Container]
    <2>1. 1 \in 1 .. MaxMoves + 1
        BY ImageConstants
    <2>2. [id : {1}, up : {TRUE}, digest : {1}, source : {"socket", "portainer"}] \subseteq Container
        BY <2>1, RowTypes DEF Container
    <2> QED
        BY <2>2 DEF ImagesInit
<1>2. \A i \in Images : running[i].id <= moves + 1
    <2>1. \A i \in Images : running[i].id = 1
        BY DEF ImagesInit
    <2>2. 1 <= moves + 1
        BY DEF ImagesInit
    <2> QED
        BY <2>1, <2>2
<1> QED
    BY <1>1, <1>2, RowTypes, ImageConstants DEF ImagesInit, ImagesInv, ImagesTypeOK, Container, Check

\* A row as a discovery or an enrichment writes it.
LEMMA RefreshedRows ==
    ASSUME ImagesTypeOK, NEW i \in Images
    PROVE  Refreshed(i) \in Row /\ [Refreshed(i) EXCEPT !.local = running[i].digest] \in Row
<1>1. running[i].id \in 0 .. MaxMoves + 1 /\ running[i].up \in BOOLEAN
      /\ running[i].digest \in 0 .. ConfigHash /\ rowOf[i] \in Row
    <2>1. running[i] \in Container
        BY DEF ImagesTypeOK, Container
    <2> QED
        <3>1. \A n \in 1 .. MaxMoves + 1 : n \in 0 .. MaxMoves + 1
            BY ImageConstants
        <3>2. running[i].digest \in 0 .. ConfigHash
            BY <2>1, RowTypes DEF Container
        <3> QED
            BY <2>1, <3>1, <3>2 DEF ImagesTypeOK, Container
<1>2. Refreshed(i) \in Row
    BY <1>1 DEF Refreshed, Row
<1> QED
    BY <1>1, <1>2 DEF Row

LEMMA FindingsAreChecks ==
    ASSUME ImagesTypeOK, NEW k \in Checkers, NEW i \in Images, NEW d \in 0 .. ConfigHash, Found(k, i, d)
    PROVE  check' \in [Checkers -> Check]
<1>1. check[k] \in Check
    BY DEF ImagesTypeOK, Check
<1>2. /\ [check[k] EXCEPT !.todo = @ \ {i}] \in Check
      /\ [check[k] EXCEPT !.todo = @ \ {i}, !.pc = "ask", !.at = i, !.local = d] \in Check
    BY <1>1 DEF Check
<1>3. CASE d = NoDigest
    <2>1. check' = [check EXCEPT ![k] = [check[k] EXCEPT !.todo = @ \ {i}]]
        BY <1>3 DEF Found, ImagesTypeOK
    <2> QED
        BY <1>2, <2>1 DEF ImagesTypeOK, Check
<1>4. CASE d # NoDigest
    <2>1. check' = [check EXCEPT ![k] = [check[k] EXCEPT !.todo = @ \ {i}, !.pc = "ask", !.at = i, !.local = d]]
        BY <1>4 DEF Found, ImagesTypeOK
    <2> QED
        BY <1>2, <2>1 DEF ImagesTypeOK, Check
<1> QED
    BY <1>3, <1>4

LEMMA CheckSteps ==
    ASSUME ImagesTypeOK, NEW k \in Checkers,
           CheckBegin(k) \/ Checking(k) \/ \E i \in Images : InspectInPart(k, i)
    PROVE  check' \in [Checkers -> Check] /\ rowOf' \in [Images -> Row]
<1>1. check[k] \in Check /\ check \in [Checkers -> Check] /\ rowOf \in [Images -> Row]
    BY DEF ImagesTypeOK, Check
<1>2. CASE CheckBegin(k)
    <2>1. [NoCheck EXCEPT !.pc = "next", !.list = rowOf, !.todo = {i \in Images : rowOf[i].up}] \in Check
        BY <1>1, RowTypes DEF Check
    <2> QED
        BY <1>1, <1>2, <2>1 DEF CheckBegin
<1>3. ASSUME NEW i \in Images, CheckInspect(k, i) PROVE check' \in [Checkers -> Check] /\ UNCHANGED rowOf
    <2> DEFINE d == IF running[i].source = "socket" /\ running[i].id = check[k].list[i].id
                    THEN running[i].digest ELSE check[k].list[i].local
    <2>1. d \in 0 .. ConfigHash
        <3>1. running[i].digest \in 0 .. ConfigHash
            BY RowTypes DEF ImagesTypeOK
        <3>2. check[k].list[i].local \in 0 .. ConfigHash
            BY <1>1 DEF Check, Row
        <3> QED
            BY <3>1, <3>2
    <2>2. Found(k, i, d) /\ UNCHANGED rowOf
        BY <1>3 DEF CheckInspect
    <2> HIDE DEF d
    <2> QED
        BY <2>1, <2>2, FindingsAreChecks
<1>4. ASSUME NEW i \in Images, InspectInPart(k, i) PROVE check' \in [Checkers -> Check] /\ UNCHANGED rowOf
    BY <1>4, RowTypes, FindingsAreChecks DEF InspectInPart
<1>5. CASE AskRegistry(k)
    <2>1. registry.digest \in 0 .. MaxDigest
        BY RowTypes DEF ImagesTypeOK
    <2>2. /\ [check[k] EXCEPT !.pc = "write", !.remote = registry.digest] \in Check
          /\ [check[k] EXCEPT !.pc = "next"] \in Check
        BY <1>1, <2>1 DEF Check
    <2> QED
        BY <1>1, <1>5, <2>2 DEF AskRegistry
<1>6. CASE WriteCheck(k)
    <2> DEFINE W(r) == [r EXCEPT !.local = check[k].local, !.remote = check[k].remote,
                                 !.flag = check[k].local # check[k].remote]
    <2>1. \A r \in Row : W(r) \in Row
        BY <1>1 DEF Check, Row
    <2>2. rowOf' = [rowOf EXCEPT ![check[k].at] = W(rowOf[check[k].at])]
        BY <1>6 DEF WriteCheck
    <2>3. rowOf' \in [Images -> Row]
        <3> HIDE DEF W
        <3> QED
            BY <1>1, <2>1, <2>2
    <2>4. [check[k] EXCEPT !.pc = "next"] \in Check
        BY <1>1 DEF Check
    <2> QED
        BY <1>1, <1>6, <2>3, <2>4 DEF WriteCheck
<1>7. CASE CheckEnds(k)
    BY <1>1, <1>7, RowTypes DEF CheckEnds
<1> QED
    BY <1>1, <1>2, <1>3, <1>4, <1>5, <1>6, <1>7 DEF Checking

LEMMA ImagesStep ==
    ASSUME ImagesInv, [ImagesNext]_imageVars
    PROVE  ImagesInv'
<1> USE ImageConstants DEF ImagesInv
<1>1. CASE UNCHANGED imageVars
    BY <1>1 DEF ImagesTypeOK, imageVars
<1>2. CASE Publish \/ RegistryTurns
    <2>1. registry' \in [digest : Digests, answers : BOOLEAN]
        <3>1. CASE Publish
            BY <3>1 DEF Publish, ImagesTypeOK, Digests
        <3>2. CASE RegistryTurns
            BY <3>2 DEF RegistryTurns, ImagesTypeOK
        <3> QED
            BY <1>2, <3>1, <3>2
    <2>2. moves' \in 0 .. MaxMoves /\ moves <= moves' /\ UNCHANGED <<running, rowOf, check, seen>>
        BY <1>2 DEF Publish, RegistryTurns, Move, ImagesTypeOK
    <2>3. \A i \in Images : running[i].id <= moves' + 1
        BY <2>2 DEF ImagesTypeOK
    <2> QED
        BY <2>1, <2>2, <2>3 DEF ImagesTypeOK
<1>3. CASE RestartChecks
    <2>1. check' \in [Checkers -> Check]
        BY <1>3, RowTypes DEF RestartChecks
    <2>2. moves' \in 0 .. MaxMoves /\ moves <= moves' /\ UNCHANGED <<registry, running, rowOf>> /\ seen' = Images
        BY <1>3 DEF RestartChecks, Move, ImagesTypeOK
    <2>3. \A i \in Images : running[i].id <= moves' + 1
        BY <2>2 DEF ImagesTypeOK
    <2> QED
        BY <2>1, <2>2, <2>3 DEF ImagesTypeOK, Check
<1>4. ASSUME NEW i \in Images, Rebuild(i) \/ StopOrStart(i) PROVE ImagesInv'
    <2>1. moves' = moves + 1 /\ moves' \in 0 .. MaxMoves /\ UNCHANGED <<registry, rowOf, check, seen>>
        BY <1>4 DEF Rebuild, StopOrStart, Move, ImagesTypeOK
    <2>2. running \in [Images -> Container]
        BY DEF ImagesTypeOK, Container
    <2>3. PICK c : running' = [running EXCEPT ![i] = c] /\ c \in Container /\ c.id <= moves + 2
        <3>1. running[i] \in Container /\ running[i].id <= moves + 1
            BY <2>2
        <3>2. CASE Rebuild(i)
            <4>1. PICK d \in {running[i].digest, registry.digest} :
                    running' = [running EXCEPT ![i].id = @ + 1, ![i].up = TRUE, ![i].digest = d]
                BY <3>2 DEF Rebuild
            <4> DEFINE c == [running[i] EXCEPT !.id = running[i].id + 1, !.up = TRUE, !.digest = d]
            <4>2. d \in Digests
                BY <3>1 DEF Container, ImagesTypeOK
            <4>3. PICK n \in Nat : n = running[i].id /\ n + 1 \in 1 .. MaxMoves + 1 /\ n + 1 <= moves + 2
                BY <2>1, <3>1 DEF Container, ImagesTypeOK
            <4>4. c \in Container /\ c.id = n + 1
                BY <3>1, <4>2, <4>3 DEF Container
            <4>5. running' = [running EXCEPT ![i] = c]
                BY <2>2, <4>1
            <4> QED
                BY <4>3, <4>4, <4>5
        <3>3. CASE StopOrStart(i)
            <4> DEFINE c == [running[i] EXCEPT !.up = ~@]
            <4>1. c \in Container /\ c.id = running[i].id
                BY <3>1 DEF Container
            <4>2. running' = [running EXCEPT ![i] = c]
                BY <3>3 DEF StopOrStart
            <4>3. c.id <= moves + 2
                BY <3>1, <4>1 DEF Container, ImagesTypeOK
            <4> QED
                BY <4>1, <4>2, <4>3
        <3> QED
            BY <1>4, <3>2, <3>3
    <2>4. running' \in [Images -> Container]
        BY <2>2, <2>3
    <2>5. \A j \in Images : running'[j].id <= moves' + 1
        <3> SUFFICES ASSUME NEW j \in Images PROVE running'[j].id <= moves' + 1
            OBVIOUS
        <3>1. moves \in Nat /\ running[j].id \in Nat /\ running[j].id <= moves + 1
            BY <2>2 DEF ImagesTypeOK, Container
        <3>2. running'[j] = IF j = i THEN c ELSE running[j]
            BY <2>2, <2>3
        <3> QED
            BY <2>1, <2>3, <3>1, <3>2
    <2> QED
        BY <2>1, <2>4, <2>5 DEF ImagesTypeOK, Container
<1>5. ASSUME NEW i \in Images, DiscoverImage(i) \/ EnrichImage(i) \/ EnrichFails(i) PROVE ImagesInv'
    <2>1. rowOf' \in [Images -> Row]
        <3>1. PICK r \in Row : rowOf' = [rowOf EXCEPT ![i] = r]
            BY <1>5, RefreshedRows DEF DiscoverImage, EnrichImage, EnrichFails
        <3> QED
            BY <3>1 DEF ImagesTypeOK
    <2>2. /\ moves' \in 0 .. MaxMoves /\ moves <= moves' /\ seen' \subseteq Images
          /\ UNCHANGED <<registry, running, check>>
        BY <1>5 DEF DiscoverImage, EnrichImage, EnrichFails, Move, ImagesTypeOK
    <2>3. \A j \in Images : running[j].id <= moves' + 1
        BY <2>2 DEF ImagesTypeOK
    <2> QED
        BY <2>1, <2>2, <2>3 DEF ImagesTypeOK
<1>6. ASSUME NEW k \in Checkers, CheckBegin(k) \/ Checking(k) \/ \E i \in Images : InspectInPart(k, i)
      PROVE  ImagesInv'
    <2>1. check' \in [Checkers -> Check] /\ rowOf' \in [Images -> Row]
        BY <1>6, CheckSteps
    <2>2. /\ moves' \in 0 .. MaxMoves /\ moves <= moves' /\ seen' \subseteq Images
          /\ UNCHANGED <<registry, running>>
        BY <1>6 DEF CheckBegin, Checking, CheckInspect, InspectInPart, AskRegistry, WriteCheck, CheckEnds,
           Move, ImagesTypeOK
    <2>3. \A j \in Images : running[j].id <= moves' + 1
        BY <2>2 DEF ImagesTypeOK
    <2> QED
        BY <2>1, <2>2, <2>3 DEF ImagesTypeOK, Check
<1> QED
    BY <1>1, <1>2, <1>3, <1>4, <1>5, <1>6 DEF ImagesNext

\* Passes, rebuilds and publications keep their types.
THEOREM ImagesTypeCorrect == ImagesSpec => []ImagesTypeOK
<1>1. ImagesInv => ImagesTypeOK
    BY DEF ImagesInv
<1> QED
    BY <1>1, ImagesStart, ImagesStep, PTL DEF ImagesSpec

\* The flag of a row is the verdict on the two digests beside it.
VerdictOfDigests == \A i \in Images :
    running[i].source = "socket" => rowOf[i].flag = (rowOf[i].local # rowOf[i].remote)

LEMMA VerdictStep ==
    ASSUME ImagesTypeOK, VerdictOfDigests, [ImagesNext]_imageVars
    PROVE  VerdictOfDigests'
<1>1. SUFFICES ASSUME NEW j \in Images, running'[j].source = "socket"
               PROVE  rowOf'[j].flag = (rowOf'[j].local # rowOf'[j].remote)
    BY DEF VerdictOfDigests
<1>2. running[j].source = "socket" /\ running[j] \in Container
    <2>1. running[j] \in Container
        BY DEF ImagesTypeOK, Container
    <2>2. running'[j].source = running[j].source
        <3>1. CASE UNCHANGED running
            BY <3>1
        <3>2. ASSUME NEW i \in Images, Rebuild(i) \/ StopOrStart(i) PROVE running'[j].source = running[j].source
            <4>1. running \in [Images -> Container]
                BY DEF ImagesTypeOK, Container
            <4>2. PICK c : running' = [running EXCEPT ![i] = c] /\ c.source = running[i].source
                <5>1. CASE Rebuild(i)
                    <6>1. PICK d : running' = [running EXCEPT ![i].id = @ + 1, ![i].up = TRUE, ![i].digest = d]
                        BY <5>1 DEF Rebuild
                    <6> DEFINE c == [running[i] EXCEPT !.id = running[i].id + 1, !.up = TRUE, !.digest = d]
                    <6>2. running' = [running EXCEPT ![i] = c] /\ c.source = running[i].source
                        BY <4>1, <6>1 DEF Container
                    <6> QED
                        BY <6>2
                <5>2. CASE StopOrStart(i)
                    <6> DEFINE c == [running[i] EXCEPT !.up = ~@]
                    <6>1. running' = [running EXCEPT ![i] = c] /\ c.source = running[i].source
                        BY <4>1, <5>2 DEF StopOrStart, Container
                    <6> QED
                        BY <6>1
                <5> QED
                    BY <3>2, <5>1, <5>2
            <4> QED
                BY <4>1, <4>2
        <3> QED
            BY <3>1, <3>2 DEF ImagesNext, imageVars, Publish, RegistryTurns, RestartChecks, DiscoverImage, EnrichImage,
               EnrichFails, CheckBegin, Checking, CheckInspect, InspectInPart, AskRegistry, WriteCheck, CheckEnds
    <2> QED
        BY <1>1, <2>1, <2>2
<1>3. rowOf[j].flag = (rowOf[j].local # rowOf[j].remote) /\ rowOf[j] \in Row
    BY <1>2 DEF VerdictOfDigests, ImagesTypeOK
<1>4. CASE UNCHANGED rowOf
    BY <1>3, <1>4
<1>5. ASSUME NEW i \in Images, DiscoverImage(i) \/ EnrichFails(i)
      PROVE  rowOf'[j].flag = (rowOf'[j].local # rowOf'[j].remote)
    <2>1. rowOf'[j] = rowOf[j] \/ rowOf'[j] = Refreshed(j)
        BY <1>5 DEF DiscoverImage, EnrichFails, ImagesTypeOK
    <2>2. Refreshed(j).flag = rowOf[j].flag /\ Refreshed(j).local = rowOf[j].local /\ Refreshed(j).remote = rowOf[j].remote
        BY <1>3 DEF Refreshed, Row
    <2> QED
        BY <1>3, <2>1, <2>2
<1>6. ASSUME NEW i \in Images, EnrichImage(i)
      PROVE  rowOf'[j].flag = (rowOf'[j].local # rowOf'[j].remote)
    <2>1. i # j
        BY <1>2, <1>6 DEF EnrichImage
    <2>2. rowOf'[j] = rowOf[j]
        BY <1>6, <2>1 DEF EnrichImage, ImagesTypeOK
    <2> QED
        BY <1>3, <2>2
<1>7. ASSUME NEW k \in Checkers, WriteCheck(k)
      PROVE  rowOf'[j].flag = (rowOf'[j].local # rowOf'[j].remote)
    <2>1. CASE check[k].at = j
        BY <1>3, <1>7, <2>1 DEF WriteCheck, ImagesTypeOK, Row
    <2>2. CASE check[k].at # j
        <3>1. rowOf'[j] = rowOf[j]
            BY <1>7, <2>2 DEF WriteCheck, ImagesTypeOK
        <3> QED
            BY <1>3, <3>1
    <2> QED
        BY <2>1, <2>2
<1> QED
    BY <1>4, <1>5, <1>6, <1>7 DEF ImagesNext, imageVars, Publish, RegistryTurns, RestartChecks, Rebuild, StopOrStart,
       CheckBegin, Checking, CheckInspect, InspectInPart, AskRegistry, CheckEnds

\* Whichever passes overlap, and however late they write: the flag of a container that the
\* socket reaches says whether the two digests stored beside it differ. (One that
\* Portainer reaches has its digest written without a verdict.)
THEOREM FlagsAreVerdicts == ImagesSpec => []VerdictOfDigests
<1>1. ImagesInit => VerdictOfDigests
    <2>1. NoRow.flag = (NoRow.local # NoRow.remote)
        BY DEF NoRow
    <2>2. ImagesInit => \A i \in Images : rowOf[i] = NoRow
        BY DEF ImagesInit
    <2> QED
        BY <2>1, <2>2 DEF VerdictOfDigests
<1> QED
    BY <1>1, ImagesTypeCorrect, VerdictStep, PTL DEF ImagesSpec

-----------------------------------------------------------------------------
(* Side by side *)

\* A step of the three is a step of each, or leaves it alone.
LEMMA PollsSteps ==
    ASSUME [PollsNext]_pollsVars
    PROVE  [ScanNext]_scanVars /\ [IngestNext]_ingestVars /\ [ImagesNext]_imageVars
<1>1. CASE UNCHANGED pollsVars
    BY <1>1 DEF pollsVars
<1>2. CASE PollsNext
    BY <1>2 DEF PollsNext
<1> QED
    BY <1>1, <1>2

\* Whichever of the three moves, each takes the steps it takes alone.
LEMMA PollsKeepComponents ==
    PollsSpec => /\ ScanInit /\ [][ScanNext]_scanVars
                 /\ IngestInit /\ [][IngestNext]_ingestVars
                 /\ ImagesInit /\ [][ImagesNext]_imageVars
<1>1. PollsInit => ScanInit /\ IngestInit /\ ImagesInit
    BY DEF PollsInit
<1> QED
    BY <1>1, PollsSteps, PTL DEF PollsSpec

\* Every variable of all of them keeps its type.
THEOREM PollsTypeCorrect == PollsSpec => []PollsTypeOK
<1>1. ScanTypeOK /\ IngestTypeOK /\ ImagesTypeOK => PollsTypeOK
    BY DEF PollsTypeOK
<1>2. ScanInv => ScanTypeOK
    BY DEF ScanInv
<1>3. ImagesInv => ImagesTypeOK
    BY DEF ImagesInv
<1>4. PollsSpec => []ScanTypeOK
    BY <1>2, PollsKeepComponents, ScanInvInit, ScanInvStep, PTL
<1>5. PollsSpec => []IngestTypeOK
    BY PollsKeepComponents, IngestTypeInit, IngestTypeStep, PTL
<1>6. PollsSpec => []ImagesTypeOK
    BY <1>3, PollsKeepComponents, ImagesStart, ImagesStep, PTL
<1> QED
    BY <1>1, <1>4, <1>5, <1>6, PTL

\* The limiter holds beside the scans and the image checks too.
THEOREM PollsHoldRate == PollsSpec => RateHeld
BY PollsKeepComponents, RateFromSteps, PTL
=============================================================================

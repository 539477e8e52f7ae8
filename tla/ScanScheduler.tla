---------------------------- MODULE ScanScheduler ----------------------------
(***************************************************************************)
(* The scan scheduler and the scans it runs.  Three tickers start a pass   *)
(* each over the enabled devices (infrastructure components); in a pass    *)
(* every device is scanned by a goroutine of its own, under a timeout, and *)
(* jobs over all devices follow.  The job registry starts passes too, and  *)
(* users ask for a scan or a discovery of one device, or edit it.  Hosts   *)
(* go down, hang, answer in part and change their credentials.             *)
(***************************************************************************)
EXTENDS Naturals, FiniteSets

CONSTANTS
    Devices,        \* ids of infrastructure components, which are fresh
    KindsOf,        \* bound: the kinds each is created with
    MaxKey,         \* bound: versions of a host's credentials
    MaxUpsets       \* bound: requests, edits, restarts and changes of a host

Tickers == {"discovery", "metrics", "snapshot"}
Buckets == Tickers \cup {"scan", "discover"}
Slots   == Tickers \cup {"job", "request"}
Kinds   == {"traefik", "proxmox", "synology", "snmp", "portainer"}
Reaches == {"up", "partial", "down", "hangs"}
Written == {"online", "offline", "degraded"}
Keep    == "keep"       \* a scan that leaves the status alone

ASSUME ScanConstants ==
    /\ KindsOf \in [Devices -> SUBSET Kinds]
    /\ MaxKey \in Nat \ {0} /\ MaxUpsets \in Nat

VARIABLES
    host,       \* what the host of each device does, and the credentials it accepts
    device,     \* infrastructure_components
    poller,     \* the credentials of the poller a metrics scanner keeps, 0 for none
    pass,       \* the passes and requests under way, one per slot
    edit,       \* the row that an Update has read and is about to write
    upsets

scanVars == <<host, device, poller, pass, edit, upsets>>

Keys == 1 .. MaxKey

Device == [row : {"new", "live", "gone"}, kind : Kinds, enabled : BOOLEAN,
           status : Written \cup {"unknown"}, cred : Keys]
NoDevice == [row |-> "new", kind |-> "snmp", enabled |-> FALSE,
             status |-> "unknown", cred |-> 1]

\* The scan of one device in a pass: what it is about to do.
Step == [ph : {"idle", "get", "call", "write"}, cred : Keys \cup {0}, out : Written \cup {Keep}]
Done       == [ph |-> "idle", cred |-> 0, out |-> Keep]
ToGet      == [ph |-> "get", cred |-> 0, out |-> Keep]
ToCall(k)  == [ph |-> "call", cred |-> k, out |-> Keep]
ToWrite(s) == IF s = Keep THEN Done ELSE [ph |-> "write", cred |-> 0, out |-> s]

Pass   == [pc : {"idle", "scan", "globals"}, bucket : Buckets, at : [Devices -> Step]]
NoPass == [pc |-> "idle", bucket |-> "metrics", at |-> [d \in Devices |-> Done]]
NoEdit == [busy |-> FALSE, to |-> NoDevice]

ScanInit ==
    /\ host = [d \in Devices |-> [reach |-> "up", key |-> 1]]
    /\ device = [d \in Devices |-> NoDevice]
    /\ poller = [d \in Devices |-> 0]
    /\ pass = [s \in Slots |-> NoPass]
    /\ edit = [d \in Devices |-> NoEdit]
    /\ upsets = 0

Upset == upsets < MaxUpsets /\ upsets' = upsets + 1

-----------------------------------------------------------------------------
(* What a scan makes of an answer, one operator per scanner: the statuses it *)
(* may go on to write.  "expired": the host said nothing within the timeout. *)

Answers == {"all", "some", "none", "expired"}

TraefikDiscover(a) == {IF a \in {"all", "some"} THEN "online" ELSE "offline"}
SynologyDiscover(a) ==
    {CASE a = "all" -> "online" [] a = "some" -> "degraded" [] OTHER -> Keep}
\* A UDP socket connects to a host that is not there: what stays unanswered degrades.
SNMPPoll(a) == {IF a = "all" THEN "online" ELSE "degraded"}
\* Three asks of 20 s in vain are more than the 30 s of a discovery, whose context, then
\* expired, is that of the write; a host that refuses at once is degraded in time.
SNMPDiscover(a) ==
    CASE a = "none" -> {"degraded", Keep} [] a = "expired" -> {Keep} [] OTHER -> SNMPPoll(a)

\* The overview may be unreadable although the ping, of the same path, was answered.  The
\* client's timeout is the scan's own, so the context of the write may have expired.
TraefikMetrics(a) ==
    CASE a = "all" -> {"online"} [] a = "some" -> {"online", Keep}
      [] a = "none" -> {"offline"} [] a = "expired" -> {"offline", Keep}
\* Online as soon as one node of the cluster answers.
ProxmoxMetrics(a) ==
    CASE a = "all" -> {"online"} [] a = "some" -> {"online", Keep} [] OTHER -> {Keep}

\* Mutated PortainerEnrich: a component that cannot be listed is passed over.
PortainerEnrichSkips(a) == {IF a \in {"all", "some"} THEN "online" ELSE Keep}
PortainerEnrich(a) == {IF a \in {"all", "some"} THEN "online" ELSE "offline"}

\* On request: what the pollers write, then offline if one failed.  Of Traefik's scanners
\* only that of the metrics fails on a part of an answer, the overview; Proxmox's metrics,
\* which follow its poll, write online over degraded as soon as one node answers.
ScanOneComponent(k, a) ==
    CASE a = "all" /\ k \in {"traefik", "proxmox", "synology"}  -> {"online"}
      [] a = "some" /\ k = "traefik"  -> {"online", "offline"}
      [] a = "some" /\ k = "proxmox"  -> {"degraded", "online"}
      [] a = "some" /\ k = "synology" -> {"degraded"}
      [] a \in {"none", "expired"} /\ k \in {"traefik", "proxmox", "synology"} -> {"offline"}
      [] k = "snmp" -> SNMPPoll(a)
      [] k = "portainer" -> PortainerEnrich(a)

Discoveries(k, a) ==
    CASE k = "traefik" -> TraefikDiscover(a) [] k = "synology" -> SynologyDiscover(a)
      [] k = "snmp" -> SNMPDiscover(a) [] OTHER -> {Keep}

Outcomes(b, k, a) ==
    CASE b = "scan" -> ScanOneComponent(k, a)
      [] b = "metrics" /\ k = "traefik" -> TraefikMetrics(a)
      [] b = "metrics" /\ k = "proxmox" -> ProxmoxMetrics(a)
      [] b = "snapshot" /\ k = "portainer" -> PortainerEnrich(a)
      [] b = "discovery" -> Discoveries(k, a)
      [] b = "discover" /\ k = "portainer" -> PortainerEnrich(a)
      [] b = "discover" /\ k = "snmp" -> SNMPPoll(a)
      [] b = "discover" /\ k \notin {"portainer", "snmp"} -> Discoveries(k, a)
      [] OTHER -> {Keep}

-----------------------------------------------------------------------------
(* A pass *)

\* The scanners main.go registers that write the status of the device they scan;
\* the others write readings and events, and the rows of other components.
Registered(b, k) ==
    \/ b = "discovery" /\ k \in {"traefik", "synology", "snmp"}
    \/ b = "metrics" /\ k \in {"traefik", "proxmox"}

Exists(d) == device[d].row = "live"
Enabled == {d \in Devices : Exists(d) /\ device[d].enabled}

Starting(b, D) == [pc |-> "scan", bucket |-> b, at |-> [d \in Devices |-> IF d \in D THEN ToGet ELSE Done]]

RunPass(s, b) ==
    /\ pass[s].pc = "idle"
    /\ pass' = [pass EXCEPT ![s] = Starting(b, {d \in Enabled : Registered(b, device[d].kind)})]
    /\ UNCHANGED <<host, device, poller, edit>>

\* A ticker fires again only when its pass has ended: passes are much shorter
\* than the intervals.  Passes of one bucket overlap in the slot of the registry.
Tick(b)   == RunPass(b, b) /\ UNCHANGED upsets
RunJob(b) == Upset /\ RunPass("job", b)

Portainers == {d \in Enabled : device[d].kind = "portainer"}

\* Scan and Discover on request: the row is read, and a disabled one refused.  Either runs,
\* for a Portainer, the worker over all of them.
Ask(b, d) ==
    /\ Upset
    /\ pass["request"].pc = "idle" /\ d \in Enabled
    /\ pass' = [pass EXCEPT !["request"] =
                   IF d \in Portainers THEN [Starting(b, Portainers) EXCEPT !.pc = "globals"]
                   ELSE Starting(b, {d})]
    /\ UNCHANGED <<host, device, poller, edit>>

Go(s, d, step) == pass' = [pass EXCEPT ![s].at[d] = step]

\* The jobs over all components take them one after the other.
Alone(s, d) == \A e \in Devices \ {d} : pass[s].at[e].ph \in {"idle", "get"}

KeepsPoller(b, k) == b = "metrics" /\ k = "proxmox"

\* The scanner reads the row; a metrics scanner keeps its first poller.
ScanGet(s, d) ==
    /\ pass[s].at[d].ph = "get"
    /\ pass[s].pc = "globals" => Alone(s, d)
    /\ IF ~Exists(d) THEN Go(s, d, Done) /\ UNCHANGED poller
       ELSE IF KeepsPoller(pass[s].bucket, device[d].kind)
       THEN LET k == IF poller[d] = 0 THEN device[d].cred ELSE poller[d] IN
            Go(s, d, ToCall(k)) /\ poller' = [poller EXCEPT ![d] = k]
       ELSE Go(s, d, ToCall(device[d].cred)) /\ UNCHANGED poller
    /\ UNCHANGED <<host, device, edit, upsets>>

\* What the host says to a call with credentials k.
Says(d, k) ==
    CASE host[d].reach = "down" \/ k # host[d].key -> "none"
      [] host[d].reach = "partial" -> "some" [] OTHER -> "all"

Answer(s, d) ==
    /\ pass[s].at[d].ph = "call" /\ host[d].reach # "hangs"
    /\ \E o \in Outcomes(pass[s].bucket, device[d].kind, Says(d, pass[s].at[d].cred)) :
          Go(s, d, ToWrite(o))
    /\ UNCHANGED <<host, device, poller, edit, upsets>>

\* Mutated Timeout: a metrics scan is not given a deadline.
TimeoutNotMetrics(s, d) ==
    /\ pass[s].at[d].ph = "call" /\ host[d].reach = "hangs" /\ pass[s].bucket # "metrics"
    /\ \E o \in Outcomes(pass[s].bucket, device[d].kind, "expired") : Go(s, d, ToWrite(o))
    /\ UNCHANGED <<host, device, poller, edit, upsets>>

\* The deadline of the scan, or of its client.
Timeout(s, d) ==
    /\ pass[s].at[d].ph = "call" /\ host[d].reach = "hangs"
    /\ \E o \in Outcomes(pass[s].bucket, device[d].kind, "expired") : Go(s, d, ToWrite(o))
    /\ UNCHANGED <<host, device, poller, edit, upsets>>

UpdateStatus(d, st) == IF Exists(d) THEN [device EXCEPT ![d].status = st] ELSE device

Write(s, d) ==
    /\ pass[s].at[d].ph = "write"
    /\ device' = UpdateStatus(d, pass[s].at[d].out)
    /\ Go(s, d, Done)
    /\ UNCHANGED <<host, poller, edit, upsets>>

Finished(s) == \A d \in Devices : pass[s].at[d] = Done

Worker(s) == IF pass[s].bucket = "snapshot" THEN Portainers ELSE {}

\* wg.Wait, then the jobs over all components: after the snapshots the Portainer
\* worker; the rollups after a discovery are the subject of module Rollups.
Globals(s) ==
    /\ pass[s].pc = "scan" /\ Finished(s) /\ Worker(s) # {}
    /\ pass' = [pass EXCEPT ![s] = [Starting("snapshot", Worker(s)) EXCEPT !.pc = "globals"]]
    /\ UNCHANGED <<host, device, poller, edit, upsets>>

EndPass(s) ==
    /\ pass[s].pc # "idle" /\ Finished(s)
    /\ pass[s].pc = "scan" => Worker(s) = {}
    /\ pass' = [pass EXCEPT ![s] = NoPass]
    /\ UNCHANGED <<host, device, poller, edit, upsets>>

-----------------------------------------------------------------------------
(* The rows, and the world *)

AddDevice(d, k) ==
    /\ device[d].row = "new"
    /\ device' = [device EXCEPT ![d] = [NoDevice EXCEPT !.row = "live", !.kind = k, !.enabled = TRUE,
                                                        !.cred = host[d].key]]
    /\ UNCHANGED <<host, poller, pass, edit, upsets>>

\* PUT writes every column of the row it read, the status among them.
EditRead(d) ==
    /\ Upset
    /\ Exists(d) /\ ~edit[d].busy
    /\ \E on \in BOOLEAN :
          edit' = [edit EXCEPT ![d] = [busy |-> TRUE, to |-> [device[d] EXCEPT !.enabled = on, !.cred = host[d].key]]]
    /\ UNCHANGED <<host, device, poller, pass>>
EditWrite(d) ==
    /\ edit[d].busy
    /\ device' = IF Exists(d) THEN [device EXCEPT ![d] = edit[d].to] ELSE device
    /\ edit' = [edit EXCEPT ![d] = NoEdit]
    /\ UNCHANGED <<host, poller, pass, upsets>>

RemoveDevice(d) ==
    /\ Upset
    /\ Exists(d)
    /\ device' = [device EXCEPT ![d].row = "gone"]
    /\ UNCHANGED <<host, poller, pass, edit>>

HostTurns(d, r) ==
    /\ Upset
    /\ host[d].reach # r
    /\ host' = [host EXCEPT ![d].reach = r]
    /\ UNCHANGED <<device, poller, pass, edit>>

NewKey(d) ==
    /\ Upset
    /\ host[d].key < MaxKey
    /\ host' = [host EXCEPT ![d].key = @ + 1]
    /\ UNCHANGED <<device, poller, pass, edit>>

\* The process ends and starts again: only the table is kept.
RestartScans ==
    /\ Upset
    /\ poller' = [d \in Devices |-> 0]
    /\ pass' = [s \in Slots |-> NoPass]
    /\ edit' = [d \in Devices |-> NoEdit]
    /\ UNCHANGED <<host, device>>

Scanning(s, d) == ScanGet(s, d) \/ Answer(s, d) \/ Timeout(s, d) \/ Write(s, d)

ScanNext ==
    \/ \E b \in Tickers : Tick(b) \/ RunJob(b)
    \/ \E d \in Devices, b \in {"scan", "discover"} : Ask(b, d)
    \/ \E s \in Slots, d \in Devices : Scanning(s, d)
    \/ \E s \in Slots : Globals(s) \/ EndPass(s)
    \/ \E d \in Devices : \E k \in KindsOf[d] : AddDevice(d, k)
    \/ \E d \in Devices : EditRead(d) \/ EditWrite(d) \/ RemoveDevice(d) \/ NewKey(d)
    \/ \E d \in Devices, r \in Reaches : HostTurns(d, r)
    \/ RestartScans

\* The tickers keep firing, calls return or time out, goroutines are scheduled.
ScanFairness ==
    /\ \A b \in Tickers : WF_scanVars(Tick(b))
    /\ \A s \in Slots, d \in Devices : WF_scanVars(Scanning(s, d))
    /\ \A s \in Slots : WF_scanVars(Globals(s) \/ EndPass(s))
    /\ \A d \in Devices : WF_scanVars(EditWrite(d))

ScanSpec == ScanInit /\ [][ScanNext]_scanVars /\ ScanFairness

-----------------------------------------------------------------------------
(* Properties *)

\* Every variable keeps its type.
ScanTypeOK ==
    /\ host \in [Devices -> [reach : Reaches, key : Keys]]
    /\ device \in [Devices -> Device]
    /\ poller \in [Devices -> Keys \cup {0}]
    /\ pass \in [Slots -> Pass]
    /\ edit \in [Devices -> [busy : BOOLEAN, to : Device]]
    /\ upsets \in 0 .. MaxUpsets

\* A host that hangs does not hold up a pass for ever: every pass, job and
\* request that starts ends (scheduler.go, the timeouts of each scan).
ScansEnd == \A s \in Slots : pass[s].pc # "idle" ~> pass[s].pc = "idle"

\* The status an enabled device is due, by its host: Keep where the schedule need not
\* write one, as when a Proxmox or Synology host goes away, of which their scans say
\* nothing, or an SNMP host, of which a discovery that outlasts its deadline cannot.
DueStatus(d) ==
    LET h == host[d] up == h.reach \in {"up", "partial"} known == device[d].cred = h.key IN
    IF ~Exists(d) \/ ~device[d].enabled THEN Keep
    ELSE CASE device[d].kind \in {"traefik", "portainer"} ->
                IF up /\ known THEN "online" ELSE "offline"
           [] device[d].kind \in {"synology", "snmp"} ->
                IF ~up \/ ~known THEN Keep ELSE IF h.reach = "up" THEN "online" ELSE "degraded"
           [] device[d].kind = "proxmox" ->
                IF h.reach = "up" /\ known /\ poller[d] \in {0, h.key} THEN "online" ELSE Keep

\* However edits, requests, late answers and restarts interfered, a status that
\* stays due is shown again: a stale one is not kept (infra_components.last_status).
StatusHeals ==
    \A d \in Devices, st \in Written :
        <>[](DueStatus(d) = st) => []<>(device[d].status = st)
=============================================================================

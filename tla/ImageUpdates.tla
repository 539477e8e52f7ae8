------------------------------ MODULE ImageUpdates ------------------------------
(***************************************************************************)
(* The daily check for newer images.  The poller lists the containers'     *)
(* rows once, then takes one after the other: it inspects the container,   *)
(* asks the registry for the digest of its tag and writes both with their  *)
(* verdict.  Containers are rebuilt and images published meanwhile; the    *)
(* hourly discovery and the Portainer worker write the same rows.          *)
(***************************************************************************)
EXTENDS Naturals

CONSTANTS
    Images,         \* containers, by the names that are the keys of their rows
    SourcesOf,      \* bound: how each may be reached
    MaxDigest,      \* bound: images published under the tag
    MaxMoves        \* bound: rebuilds, publications, failures

ASSUME ImageConstants ==
    /\ SourcesOf \in [Images -> SUBSET {"socket", "portainer"}]
    /\ \A i \in Images : SourcesOf[i] # {}
    /\ MaxDigest \in Nat \ {0} /\ MaxMoves \in Nat

VARIABLES
    registry,   \* the digest its tag names, and whether it answers
    running,    \* the containers as they are
    rowOf,      \* discovered_containers
    check,      \* the passes under way
    seen,       \* the containers discovered since the daily pass ended
    moves

imageVars == <<registry, running, rowOf, check, seen, moves>>

Checkers   == {"daily", "job"}
NoDigest   == 0
ConfigHash == MaxDigest + 1     \* the id of an image, which is no manifest digest
Digests    == 1 .. MaxDigest

Row    == [id : 0 .. MaxMoves + 1, up : BOOLEAN, local : 0 .. ConfigHash, remote : 0 .. MaxDigest, flag : BOOLEAN]
NoRow  == [id |-> 0, up |-> FALSE, local |-> NoDigest, remote |-> NoDigest, flag |-> FALSE]
NoCheck == [pc |-> "idle", list |-> [i \in Images |-> NoRow], todo |-> {}, at |-> "none",
           local |-> NoDigest, remote |-> NoDigest]

Move == moves < MaxMoves /\ moves' = moves + 1

ImagesInit ==
    /\ registry = [digest |-> 1, answers |-> TRUE]
    /\ running \in [Images -> [id : {1}, up : {TRUE}, digest : {1}, source : {"socket", "portainer"}]]
    /\ \A i \in Images : running[i].source \in SourcesOf[i]
    /\ rowOf = [i \in Images |-> NoRow]
    /\ check = [k \in Checkers |-> NoCheck]
    /\ seen = Images
    /\ moves = 0

-----------------------------------------------------------------------------
(* The world *)

Publish ==
    /\ Move /\ registry.digest < MaxDigest
    /\ registry' = [registry EXCEPT !.digest = @ + 1]
    /\ UNCHANGED <<running, rowOf, check, seen>>
RegistryTurns ==
    /\ Move
    /\ registry' = [registry EXCEPT !.answers = ~@]
    /\ UNCHANGED <<running, rowOf, check, seen>>

\* Made anew, from the image it has or from the latest: its id is another.
Rebuild(i) ==
    /\ Move
    /\ \E d \in {running[i].digest, registry.digest} :
          running' = [running EXCEPT ![i].id = @ + 1, ![i].up = TRUE, ![i].digest = d]
    /\ UNCHANGED <<registry, rowOf, check, seen>>
StopOrStart(i) ==
    /\ Move
    /\ running' = [running EXCEPT ![i].up = ~@]
    /\ UNCHANGED <<registry, rowOf, check, seen>>

-----------------------------------------------------------------------------
(* What the discovery of Docker and the Portainer worker write *)

\* The upsert leaves the columns of the check alone.
Refreshed(i) == [rowOf[i] EXCEPT !.id = running[i].id, !.up = running[i].up]

DiscoverImage(i) ==
    /\ running[i].source = "socket"
    /\ rowOf' = [rowOf EXCEPT ![i] = Refreshed(i)]
    /\ seen' = seen \cup {i}
    /\ UNCHANGED <<registry, running, check, moves>>

\* The worker inspects the image too and writes its digest, but no verdict.
EnrichImage(i) ==
    /\ running[i].source = "portainer"
    /\ rowOf' = [rowOf EXCEPT ![i] = [Refreshed(i) EXCEPT !.local = running[i].digest]]
    /\ seen' = seen \cup {i}
    /\ UNCHANGED <<registry, running, check, moves>>

\* An inspection fails: the digest of the row stays.
EnrichFails(i) ==
    /\ Move
    /\ running[i].source = "portainer"
    /\ rowOf' = [rowOf EXCEPT ![i] = Refreshed(i)]
    /\ UNCHANGED <<registry, running, check, seen>>

-----------------------------------------------------------------------------
(* ImageUpdatePoller.Run *)

\* The list, of which only running containers are looked at.  In the day between two
\* passes every container is discovered again; on request a pass begins at any time.
CheckBegin(k) ==
    /\ check[k].pc = "idle"
    /\ IF k = "daily" THEN seen = Images /\ UNCHANGED moves ELSE Move
    /\ check' = [check EXCEPT ![k] = [NoCheck EXCEPT !.pc = "next", !.list = rowOf,
                                      !.todo = {i \in Images : rowOf[i].up}]]
    /\ UNCHANGED <<registry, running, rowOf, seen>>

Found(k, i, d) ==
    check' = IF d = NoDigest THEN [check EXCEPT ![k].todo = @ \ {i}]
             ELSE [check EXCEPT ![k].todo = @ \ {i}, ![k].pc = "ask", ![k].at = i, ![k].local = d]

\* Mutated CheckInspect: the stored digest comes first.
CheckInspectStored(k, i) ==
    LET had == check[k].list[i] IN
    /\ check[k].pc = "next" /\ i \in check[k].todo
    /\ Found(k, i, IF had.local = NoDigest /\ running[i].source = "socket" /\ running[i].id = had.id
                   THEN running[i].digest ELSE had.local)
    /\ UNCHANGED <<registry, running, rowOf, seen, moves>>

\* The socket knows a container by the id it has now; for any other the digest that
\* was stored counts, and a container that has none is passed over.
CheckInspect(k, i) ==
    LET had == check[k].list[i] IN
    /\ check[k].pc = "next" /\ i \in check[k].todo
    /\ Found(k, i, IF running[i].source = "socket" /\ running[i].id = had.id
                   THEN running[i].digest ELSE had.local)
    /\ UNCHANGED <<registry, running, rowOf, seen, moves>>

\* The image cannot be inspected: its id stands for its digest.
InspectInPart(k, i) ==
    /\ Move
    /\ check[k].pc = "next" /\ i \in check[k].todo
    /\ running[i].source = "socket" /\ running[i].id = check[k].list[i].id
    /\ Found(k, i, ConfigHash)
    /\ UNCHANGED <<registry, running, rowOf, seen>>

\* GetLatestDigest; without an answer the row is not touched.
AskRegistry(k) ==
    /\ check[k].pc = "ask"
    /\ check' = [check EXCEPT ![k] = IF registry.answers
                    THEN [@ EXCEPT !.pc = "write", !.remote = registry.digest]
                    ELSE [@ EXCEPT !.pc = "next"]]
    /\ UNCHANGED <<registry, running, rowOf, seen, moves>>

\* UpdateContainerImageCheck, by the id of the row.
WriteCheck(k) ==
    /\ check[k].pc = "write"
    /\ rowOf' = [rowOf EXCEPT ![check[k].at] = [@ EXCEPT !.local = check[k].local, !.remote = check[k].remote,
                                                         !.flag = check[k].local # check[k].remote]]
    /\ check' = [check EXCEPT ![k].pc = "next"]
    /\ UNCHANGED <<registry, running, seen, moves>>

CheckEnds(k) ==
    /\ check[k].pc = "next" /\ check[k].todo = {}
    /\ check' = [check EXCEPT ![k] = NoCheck]
    /\ seen' = IF k = "daily" THEN {} ELSE seen
    /\ UNCHANGED <<registry, running, rowOf, moves>>

\* A process that starts has a daily pass before it three minutes after (its first tick is
\* a day away); nothing is counted on meanwhile, and CheckBegin is free to come late.
RestartChecks ==
    /\ Move
    /\ check' = [k \in Checkers |-> NoCheck]
    /\ seen' = Images
    /\ UNCHANGED <<registry, running, rowOf>>

Checking(k) ==
    (\E i \in Images : CheckInspect(k, i)) \/ AskRegistry(k) \/ WriteCheck(k) \/ CheckEnds(k)

ImagesNext ==
    \/ Publish \/ RegistryTurns \/ RestartChecks
    \/ \E i \in Images : Rebuild(i) \/ StopOrStart(i) \/ DiscoverImage(i) \/ EnrichImage(i) \/ EnrichFails(i)
    \/ \E k \in Checkers : CheckBegin(k) \/ Checking(k) \/ \E i \in Images : InspectInPart(k, i)

\* A discovery every hour, an enrichment with every snapshot, a check every day.
ImagesFairness ==
    /\ \A i \in Images : WF_imageVars(DiscoverImage(i) \/ EnrichImage(i))
    /\ WF_imageVars(CheckBegin("daily"))
    /\ \A k \in Checkers : WF_imageVars(Checking(k))

ImagesSpec == ImagesInit /\ [][ImagesNext]_imageVars /\ ImagesFairness

-----------------------------------------------------------------------------
(* Properties *)

\* Every variable keeps its type.
ImagesTypeOK ==
    /\ registry \in [digest : Digests, answers : BOOLEAN]
    /\ running \in [Images -> [id : 1 .. MaxMoves + 1, up : BOOLEAN, digest : Digests, source : {"socket", "portainer"}]]
    /\ rowOf \in [Images -> Row]
    /\ check \in [Checkers -> [pc : {"idle", "next", "ask", "write"}, list : [Images -> Row], todo : SUBSET Images,
                               at : Images \cup {"none"}, local : 0 .. ConfigHash, remote : 0 .. MaxDigest]]
    /\ seen \subseteq Images
    /\ moves \in 0 .. MaxMoves

\* Digests are written long after they were read, by passes that overlap, beside a
\* worker that writes digests without a verdict.  Once a container runs and the registry
\* answers for good, its flag ends up saying whether it runs the latest image.
FlagHeals ==
    \A i \in Images : <>[](running[i].up /\ registry.answers)
        => <>[](rowOf[i].flag = (running[i].digest # registry.digest))
=============================================================================

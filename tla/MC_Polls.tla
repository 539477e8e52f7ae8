-------------------------------- MODULE MC_Polls --------------------------------
(***************************************************************************)
(* Three components that wait for others to answer, each in the behaviours *)
(* of its own: the first state picks the one that moves, the focus, and    *)
(* the others stay as they start.                                          *)
(***************************************************************************)
EXTENDS ScanScheduler, AppIngest, ImageUpdates

VARIABLE focus
pollsVars == <<scanVars, ingestVars, imageVars, focus>>

MCKindsOf   == [d \in Devices |-> Kinds]
MCSourcesOf == [i \in Images |-> {"socket", "portainer"}]

PollsInit ==
    /\ focus \in {"scans", "ingest", "images"}
    /\ ScanInit
    /\ IngestInit /\ (focus = "ingest" \/ (app.limit = 1 /\ app.profile = "none"))
    /\ ImagesInit /\ (focus = "images" \/ \A i \in Images : running[i].source = "socket")

PollsNext ==
    /\ UNCHANGED focus
    /\ \/ focus = "scans" /\ ScanNext /\ UNCHANGED <<ingestVars, imageVars>>
       \/ focus = "ingest" /\ IngestNext /\ UNCHANGED <<scanVars, imageVars>>
       \/ focus = "images" /\ ImagesNext /\ UNCHANGED <<scanVars, ingestVars>>

\* The fairness of each, in its own focus.
PollsFairness ==
    /\ \A b \in Tickers : WF_scanVars(focus = "scans" /\ Tick(b))
    /\ \A s \in Slots, d \in Devices : WF_scanVars(focus = "scans" /\ Scanning(s, d))
    /\ \A s \in Slots : WF_scanVars(focus = "scans" /\ (Globals(s) \/ EndPass(s)))
    /\ \A d \in Devices : WF_scanVars(focus = "scans" /\ EditWrite(d))
    /\ \A s \in Senders : WF_ingestVars(focus = "ingest" /\ Hook(s))
    /\ \A p \in Pollers : WF_ingestVars(focus = "ingest" /\ Polling(p))
    /\ WF_ingestVars(focus = "ingest" /\ ClockSteps)
    /\ WF_ingestVars(focus = "ingest" /\ UpdateWrite)
    /\ \A i \in Images : WF_imageVars(focus = "images" /\ (DiscoverImage(i) \/ EnrichImage(i)))
    /\ WF_imageVars(focus = "images" /\ CheckBegin("daily"))
    /\ \A k \in Checkers : WF_imageVars(focus = "images" /\ Checking(k))

PollsSpec == PollsInit /\ [][PollsNext]_pollsVars /\ PollsFairness

\* Every variable of the three components keeps its type.
PollsTypeOK == ScanTypeOK /\ IngestTypeOK /\ ImagesTypeOK
=============================================================================

-------------------------------- MODULE MC_Tables --------------------------------
(***************************************************************************)
(* Four components that share nothing but the database file, each in the   *)
(* behaviours of its own: the first state picks the one that moves, the    *)
(* focus, and the others stay as they start.                               *)
(***************************************************************************)
EXTENDS ComponentLinks, DigestRegistry, Digest, DigestReport

VARIABLE focus
tablesVars == <<linksVars, registryVars, digestVars, reportVars, focus>>

CONSTANTS node, engine, guest
MCGuestOf   == [g \in {guest} |-> node]
MCTypesOf   == [c \in Comps |-> CASE c = node -> {"proxmox_node"}
                                  [] c = engine -> {"docker_engine", "traefik"}
                                  [] OTHER -> {}]
MCParentsOf == [c \in Comps |-> IF c = node THEN {guest} ELSE {}]
MCPosted    == ({"container"} \X Conts) \X {<<"proxmox_node", node>>}

MCOffsets  == {-1, 1}
MCNoOffset == {0}

\* Days at the turns of 2024/25, 2025/26 and of the months March and July.
MCStarts    == {2553, 2917, 2978, 3462}
MCSchedules == {[freq |-> "daily", dow |-> 1, dom |-> 1, hour |-> 0],
                [freq |-> "weekly", dow |-> 0, dom |-> 1, hour |-> 1],
                [freq |-> "weekly", dow |-> 1, dom |-> 1, hour |-> 1],
                [freq |-> "monthly", dow |-> 1, dom |-> 1, hour |-> 0]}

\* Groups of checks on either side of each threshold.
G(u, w, o)  == [up |-> u, warn |-> w, other |-> o]
MCGroups    == {G(0, 0, 0), G(2, 0, 0), G(3, 1, 0), G(4, 1, 0), G(1, 0, 1), G(18, 0, 1), G(19, 0, 1)}

TablesInit ==
    /\ focus \in {"guests", "items", "registry", "digest", "report"}
    /\ LinksInit /\ RegistryInit /\ ReportInit
    /\ DigestInit /\ (focus = "digest" \/ (start = 2553 /\ offset = 1))

\* Of the links: virtual machines and their nodes, or the engine, what runs on it and apps.
GuestsMove == UNCHANGED <<apps, conts, routes, mons, underWay>> /\ comps'[engine] = comps[engine]
ItemsMove  == \A c \in {node, guest} : comps'[c] = comps[c]

TablesNext ==
    /\ UNCHANGED focus
    /\ \/ /\ LinksNext /\ UNCHANGED <<registryVars, digestVars, reportVars>>
          /\ (focus = "guests" /\ GuestsMove) \/ (focus = "items" /\ ItemsMove)
       \/ focus = "registry" /\ RegistryNext /\ UNCHANGED <<linksVars, digestVars, reportVars>>
       \/ focus = "digest" /\ DigestNext /\ UNCHANGED <<linksVars, registryVars, reportVars>>
       \/ focus = "report" /\ ReportNext /\ UNCHANGED <<linksVars, registryVars, digestVars>>

TablesSpec == TablesInit /\ [][TablesNext]_tablesVars

\* Every variable of the four components keeps its type.
TablesTypeOK == LinksTypeOK /\ RegistryTypeOK /\ DigestTypeOK /\ ReportTypeOK
=============================================================================

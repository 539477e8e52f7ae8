------------------------- MODULE ComponentLinksProofs -------------------------
(***************************************************************************)
(* Proofs about ComponentLinks, for any apps, components, items and        *)
(* monitors: the tables stay well formed, no row names an app that is      *)
(* gone, every container is linked to its engine, routes yield to other    *)
(* parents and no request leaves a stray app.                              *)
(***************************************************************************)
EXTENDS ComponentLinks, TLAPS

Links == [NodeSet -> NodeSet \cup {NoNode}]

-----------------------------------------------------------------------------
(* The table of links *)

LEMMA NodesAreNodes ==
    /\ \A a \in Apps : App(a) \in NodeSet
    /\ \A c \in Conts : Container(c) \in NodeSet
    /\ \A r \in Routes : Route(r) \in NodeSet
    /\ \A m \in Monitors : Monitor(m) \in NodeSet
    /\ \A t \in CompTypes, c \in Comps : <<t, c>> \in NodeSet
    /\ NoNode \notin NodeSet
BY DEF App, Container, Route, Monitor, NodeSet, NoNode, CompTypes, HostTypes, GuestTypes

\* A container is no other kind of node, and no other kind's parent is a monitor.
LEMMA KindsDiffer ==
    ASSUME NEW c
    PROVE  /\ \A a : App(a) # Container(c)
           /\ \A r : Route(r) # Container(c)
           /\ \A a, b : Container(a) = Container(b) => a = b
           /\ \A x : \A t \in CompTypes : <<t, x>> # Container(c)
           /\ \A a, r : App(a) # Route(r)
           /\ \A m : Monitor(m) # <<"docker_engine", c>>
           /\ \A a, b : App(a) = App(b) => a = b
BY DEF App, Container, Route, Monitor, CompTypes, HostTypes, GuestTypes

LEMMA SetParentSets ==
    ASSUME NEW links \in Links, NEW child \in NodeSet, NEW p \in NodeSet \cup {NoNode}
    PROVE  /\ SetParent(links, child, p) \in Links
           /\ SetParent(links, child, p)[child] = p
           /\ \A n \in NodeSet \ {child} : SetParent(links, child, p)[n] = links[n]
BY DEF SetParent, Links

LEMMA RemoveParentRemoves ==
    ASSUME NEW links \in Links, NEW child \in NodeSet
    PROVE  /\ RemoveParent(links, child) \in Links
           /\ \A n \in NodeSet \ {child} : RemoveParent(links, child)[n] = links[n]
BY DEF RemoveParent, Links

LEMMA IgnoreIfLinkedIgnores ==
    ASSUME NEW links \in Links, NEW child \in NodeSet, NEW p \in NodeSet \cup {NoNode}
    PROVE  /\ IgnoreIfLinked(links, child, p) \in Links
           /\ links[child] = NoNode => IgnoreIfLinked(links, child, p)[child] = p
           /\ \A n \in NodeSet : links[n] # NoNode => IgnoreIfLinked(links, child, p)[n] = links[n]
           /\ \A n \in NodeSet \ {child} : IgnoreIfLinked(links, child, p)[n] = links[n]
BY DEF IgnoreIfLinked, Links

\* Statements about other nodes leave the links of containers alone.
LEMMA ContainersKept ==
    ASSUME NEW links \in Links, NEW child \in NodeSet, NEW p \in NodeSet \cup {NoNode},
           \A c \in Conts : child # Container(c)
    PROVE  \A c \in Conts : /\ SetParent(links, child, p)[Container(c)] = links[Container(c)]
                            /\ RemoveParent(links, child)[Container(c)] = links[Container(c)]
                            /\ IgnoreIfLinked(links, child, p)[Container(c)] = links[Container(c)]
<1>1. \A c \in Conts : Container(c) \in NodeSet \ {child}
    BY NodesAreNodes
<1>2. \A c \in Conts : SetParent(links, child, p)[Container(c)] = links[Container(c)]
    BY <1>1, SetParentSets
<1>3. \A c \in Conts : RemoveParent(links, child)[Container(c)] = links[Container(c)]
    BY <1>1, RemoveParentRemoves
<1>4. \A c \in Conts : IgnoreIfLinked(links, child, p)[Container(c)] = links[Container(c)]
    BY <1>1, IgnoreIfLinkedIgnores
<1> QED
    BY <1>2, <1>3, <1>4

LEMMA ComponentsAreNotContainers ==
    ASSUME NEW t \in CompTypes, NEW x
    PROVE  \A c \in Conts : <<t, x>> # Container(c)
BY KindsDiffer

\* What an app leaves behind when it goes.
LEMMA ForgetForgets ==
    ASSUME NEW S, NEW H, NEW t \in [S -> Item(H)], NEW a \in Apps
    PROVE  /\ Forget(t, a) \in [S -> Item(H)]
           /\ \A x \in S : /\ Forget(t, a)[x].app # a \/ a = None
                           /\ Forget(t, a)[x].app \in {t[x].app, None}
                           /\ Forget(t, a)[x].state = t[x].state
                           /\ Forget(t, a)[x].host = t[x].host
BY DEF Forget, Item

LEMMA RowLives ==
    ASSUME NEW H, NEW x \in Item(H)
    PROVE  /\ \A h \in H : [x EXCEPT !.state = "live", !.host = h] \in Item(H)
           /\ \A a \in Apps \cup {None} : [x EXCEPT !.state = "live", !.app = a] \in Item(H)
BY DEF Item

LEMMA AppSet ==
    ASSUME NEW S, NEW H, NEW t \in [S -> Item(H)], NEW k \in S, NEW a \in Apps \cup {None}
    PROVE  /\ [t EXCEPT ![k].app = a] \in [S -> Item(H)]
           /\ [t EXCEPT ![k].app = a][k].app = a
           /\ \A x \in S : /\ [t EXCEPT ![k].app = a][x].host = t[x].host
                           /\ [t EXCEPT ![k].app = a][x].state = t[x].state
                           /\ x # k => [t EXCEPT ![k].app = a][x] = t[x]
<1>1. [t[k] EXCEPT !.app = a] \in Item(H)
    BY DEF Item
<1>2. \A x \in S : [t EXCEPT ![k].app = a][x] = IF x = k THEN [t[k] EXCEPT !.app = a] ELSE t[x]
    OBVIOUS
<1>3. [t EXCEPT ![k].app = a] \in [S -> Item(H)]
    BY <1>1, <1>2
<1> QED
    BY <1>1, <1>2, <1>3 DEF Item

-----------------------------------------------------------------------------
(* Types *)

\* The rows and the links.
RowsOK ==
    /\ apps \in [Apps -> {"new", "live", "gone"}]
    /\ comps \in [Comps -> CompTypes \cup {"none"}]
    /\ conts \in [Conts -> Item(Comps)]
    /\ routes \in [Routes -> Item(Comps)]
    /\ mons \in [Monitors -> Item({})]
    /\ parent \in Links

\* A request that was answered, and one that is under way.
Idle   == {Answered(f) : f \in 0 .. 2}
Asking == [pc : {"set", "undo", "sync", "link"}, mode : {"existing", "create"},
           item : NodeSet, app : Apps, faults : 0 .. 2]

LEMMA RequestKinds ==
    /\ \A r \in Idle : r.pc = "idle" /\ r.mode = "existing" /\ r.item = NoNode /\ r.faults \in 0 .. 2
    /\ \A r \in Asking : r.pc # "idle"
    /\ \A f \in 0 .. 2 : Answered(f) \in Idle /\ OneMore(f) \in 0 .. 2 /\ Answered(f).faults = f
    /\ \A f \in 0 .. 2 : OneMore(f) = IF f = 0 THEN 1 ELSE 2
BY DEF Idle, Asking, Answered, NoReq, OneMore

LEMMA LinksTypeInit == ASSUME LinksInit PROVE LinksTypeOK
<1>1. req \in Idle
    BY DEF LinksInit, Idle, Answered, NoReq
<1> QED
    BY <1>1, LinkConstants DEF LinksInit, LinksTypeOK, Item, NewItem, Idle, NoUpsert

UpsertsOK ==
    /\ upsert \in [Conts -> [pc : {"idle", "off", "sync", "link"}, on : Comps \cup {None}]]
    /\ \A c \in Conts : upsert[c].pc \in {"sync", "link"} => upsert[c].on \in Comps

UnderWayOK == UpsertsOK /\ cut \in Apps \cup {None} /\ req \in Idle \cup Asking

LEMMA AskingRequest ==
    ASSUME LinksTypeOK, req.pc # "idle"
    PROVE  req.item \in NodeSet /\ req.app \in Apps /\ req.faults \in 0 .. 2 /\ req.pc \in {"set", "undo", "sync", "link"}
BY RequestKinds DEF LinksTypeOK, Idle, Asking

\* The statements about apps and items only set fields of their rows.
LEMMA RowsTypeStep ==
    ASSUME LinksTypeOK, [LinksNext]_linksVars
    PROVE  RowsOK'
<1> USE LinkConstants DEF Links, RowsOK
<1>1. CASE UNCHANGED linksVars
    BY <1>1 DEF LinksTypeOK, linksVars
<1>2. ASSUME NEW a \in Apps, CreateApp(a) \/ DeleteApp(a) \/ UnlinkApp(a) PROVE RowsOK'
    <2>1. CASE CreateApp(a)
        BY <2>1 DEF CreateApp, LinksTypeOK
    <2>2. CASE DeleteApp(a)
        BY <2>2, ForgetForgets DEF DeleteApp, DropApp, LinksTypeOK
    <2>3. CASE UnlinkApp(a)
        BY <2>3, NodesAreNodes, RemoveParentRemoves DEF UnlinkApp, LinksTypeOK
    <2> QED
        BY <1>2, <2>1, <2>2, <2>3
<1>3. ASSUME NEW c \in Comps, NEW t \in TypesOf[c], Update(c, t) PROVE RowsOK'
    <2>1. t \in CompTypes /\ <<t, c>> \in NodeSet /\ comps' \in [Comps -> CompTypes \cup {"none"}]
        BY <1>3, NodesAreNodes DEF Update, LinksTypeOK
    <2>2. parent' \in Links
        <3>1. CASE UNCHANGED parent
            BY <3>1 DEF LinksTypeOK
        <3>2. ASSUME NEW p \in ParentsOf[c] \cap LiveComps,
                     parent' = SetParent(parent, <<t, c>>, <<comps'[p], p>>)
              PROVE  parent' \in Links
            <4>1. p \in Comps /\ comps'[p] \in CompTypes
                BY <1>3, <2>1, <3>2 DEF Update, LinksTypeOK, LiveComps, CompTypes, HostTypes, GuestTypes
            <4> QED
                BY <2>1, <3>2, <4>1, NodesAreNodes, SetParentSets DEF LinksTypeOK
        <3>3. CASE parent' = RemoveParent(parent, <<t, c>>)
            BY <2>1, <3>3, RemoveParentRemoves DEF LinksTypeOK
        <3> QED
            BY <1>3, <3>1, <3>2, <3>3 DEF Update
    <2> QED
        BY <1>3, <2>1, <2>2 DEF Update, LinksTypeOK
<1>4. ASSUME NEW c \in Comps, NEW t \in TypesOf[c], NEW p \in Comps \cup {None}, Create(c, t, p)
      PROVE  RowsOK'
    <2>1. t \in CompTypes /\ <<t, c>> \in NodeSet /\ comps' \in [Comps -> CompTypes \cup {"none"}]
        BY <1>4, NodesAreNodes DEF Create, LinksTypeOK
    <2>2. CASE p = None
        BY <1>4, <2>1, <2>2 DEF Create, LinksTypeOK
    <2>3. CASE p # None
        <3>1. p \in Comps /\ comps[p] \in CompTypes
            BY <1>4, <2>3 DEF Create, LinksTypeOK, LiveComps
        <3>2. CompNode(p) \in NodeSet
            BY <3>1, NodesAreNodes DEF CompNode
        <3>3. parent' \in Links
            BY <1>4, <2>1, <2>3, <3>2, SetParentSets DEF Create, Tried, LinksTypeOK
        <3> QED
            BY <1>4, <2>1, <3>3 DEF Create, LinksTypeOK
    <2> QED
        BY <2>2, <2>3
<1>5. ASSUME NEW c \in Comps, Delete(c) PROVE RowsOK'
    BY <1>5 DEF Delete, LinksTypeOK, Item
<1>6. ASSUME NEW c \in Comps, NEW a \in Apps, LinkApp(c, a) PROVE RowsOK'
    <2>1. comps[c] \in CompTypes
        BY <1>6 DEF LinkApp, LinksTypeOK, LiveComps
    <2>2. CompNode(c) \in NodeSet /\ App(a) \in NodeSet
        BY <2>1, NodesAreNodes DEF CompNode
    <2> QED
        BY <1>6, <2>2, SetParentSets DEF LinkApp, LinksTypeOK
<1>7. ASSUME NEW g \in Guests, PollGuest(g) PROVE RowsOK'
    <2>1. <<"vm_other", g>> \in NodeSet /\ <<"proxmox_node", GuestOf[g]>> \in NodeSet
        BY NodesAreNodes DEF CompTypes, HostTypes, GuestTypes
    <2>2. comps' \in [Comps -> CompTypes \cup {"none"}]
        BY <1>7 DEF PollGuest, LinksTypeOK, CompTypes, GuestTypes
    <2> QED
        BY <1>7, <2>1, <2>2, SetParentSets DEF PollGuest, Tried, LinksTypeOK
<1>8. ASSUME NEW g \in Guests, NEW t \in GuestTypes, DiscoverGuest(g, t) PROVE RowsOK'
    <2>1. <<t, g>> \in NodeSet /\ <<"proxmox_node", GuestOf[g]>> \in NodeSet
        BY NodesAreNodes DEF CompTypes, HostTypes
    <2>2. comps' \in [Comps -> CompTypes \cup {"none"}]
        BY <1>8 DEF DiscoverGuest, LinksTypeOK, CompTypes
    <2>3. parent' \in Links
        BY <1>8, <2>1, SetParentSets DEF DiscoverGuest, Tried, LinksTypeOK
    <2> QED
        BY <1>8, <2>2, <2>3 DEF DiscoverGuest, LinksTypeOK
<1>9. ASSUME NEW c \in Conts, DeleteContainer(c) \/ UnlinkContainer(c) PROVE RowsOK'
    <2>1. CASE DeleteContainer(c)
        BY <2>1 DEF DeleteContainer, LinksTypeOK, Item
    <2>2. CASE UnlinkContainer(c)
        <3>1. conts \in [Conts -> Item(Comps)] /\ conts' = [conts EXCEPT ![c].app = None]
            BY <2>2 DEF UnlinkContainer, LinksTypeOK
        <3>2. conts' \in [Conts -> Item(Comps)]
            BY ONLY <3>1, AppSet
        <3> QED
            BY <2>2, <3>2 DEF UnlinkContainer, LinksTypeOK
    <2> QED
        BY <1>9, <2>1, <2>2
<1>10. ASSUME NEW c \in Conts, NEW e \in Comps, UpsertContainer(c, e) PROVE RowsOK'
    <2>1. [conts[c] EXCEPT !.state = "live", !.host = e] \in Item(Comps)
        BY RowLives DEF LinksTypeOK
    <2> QED
        BY <1>10, <2>1 DEF UpsertContainer, LinksTypeOK
<1>11. ASSUME NEW r \in Routes, NEW e \in Comps, NEW c \in Conts \cup {None}, DiscoverRoute(r, e, c)
       PROVE  RowsOK'
    <2>1. PICK app \in Apps \cup {None} : app = IF c = None THEN None ELSE conts[c].app
        BY DEF LinksTypeOK, Item
    <2>2. routes' \in [Routes -> Item(Comps)]
        BY <1>11, <2>1 DEF DiscoverRoute, LinksTypeOK, Item
    <2>3. PICK up \in {parent, IgnoreIfLinked(parent, Route(r), <<"traefik", e>>)} :
            parent' \in {up} \cup IF app = None THEN {} ELSE {IgnoreIfLinked(up, App(app), Route(r))}
        BY <1>11, <2>1 DEF DiscoverRoute
    <2>4. up \in Links
        BY <2>3, NodesAreNodes, IgnoreIfLinkedIgnores DEF LinksTypeOK, CompTypes, HostTypes
    <2>5. parent' \in Links
        BY <2>1, <2>3, <2>4, NodesAreNodes, IgnoreIfLinkedIgnores
    <2> QED
        BY <1>11, <2>2, <2>5 DEF DiscoverRoute, LinksTypeOK
<1>12. ASSUME NEW r \in Routes, UnlinkRoute(r) PROVE RowsOK'
    <2>1. routes' \in [Routes -> Item(Comps)]
        <3>1. routes \in [Routes -> Item(Comps)]
            BY DEF LinksTypeOK
        <3>2. routes' = [routes EXCEPT ![r].app = None]
            BY <1>12 DEF UnlinkRoute
        <3> QED
            BY <3>1, <3>2, AppSet
    <2>2. parent' \in Links
        BY <1>12, NodesAreNodes, RemoveParentRemoves DEF UnlinkRoute, Tried, LinksTypeOK, Item
    <2> QED
        BY <1>12, <2>1, <2>2 DEF UnlinkRoute, LinksTypeOK
<1>13. ASSUME NEW a \in Apps, NEW mode \in {"existing", "create"}, NEW item \in Items,
              LinkBegin(item, a, mode)
       PROVE  RowsOK'
    <2>1. item \in NodeSet
        BY DEF Items, Live, NodeSet, LinksTypeOK
    <2> QED
        BY <1>13, <2>1 DEF LinkBegin, LinksTypeOK
<1>14. CASE LinkSet
    <2>1. req.pc = "set" /\ req.app \in Apps /\ req.item \in Items
        BY <1>14 DEF LinkSet, LiveApps
    <2>3. CASE req.item[1] = "container" /\ conts' = [conts EXCEPT ![req.item[2]].app = req.app]
               /\ UNCHANGED routes
        <3>1. PICK c \in Conts : c = req.item[2]
            BY <2>1, <2>3 DEF Items, Live, LinksTypeOK
        <3>2. conts' = [conts EXCEPT ![c].app = req.app]
            BY <2>3, <3>1
        <3>3. conts' \in [Conts -> Item(Comps)]
            <4>1. conts \in [Conts -> Item(Comps)]
                BY DEF LinksTypeOK
            <4> QED
                BY ONLY <2>1, <3>2, <4>1, AppSet
        <3> QED
            BY <1>14, <2>3, <3>3 DEF LinkSet, LinksTypeOK
    <2>4. CASE req.item[1] = "traefik_route" /\ UNCHANGED conts
               /\ routes' = [routes EXCEPT ![req.item[2]].app = req.app]
        <3>1. PICK r \in Routes : r = req.item[2]
            BY <2>1, <2>4 DEF Items, Live, LinksTypeOK
        <3>2. routes' = [routes EXCEPT ![r].app = req.app]
            BY <2>4, <3>1
        <3>3. routes' \in [Routes -> Item(Comps)]
            <4>1. routes \in [Routes -> Item(Comps)]
                BY DEF LinksTypeOK
            <4> QED
                BY ONLY <2>1, <3>2, <4>1, AppSet
        <3> QED
            BY <1>14, <2>4, <3>3 DEF LinkSet, LinksTypeOK
    <2> QED
        BY <1>14, <2>3, <2>4 DEF LinkSet
<1>15. CASE LinkFails
    BY <1>15 DEF LinkFails, LinksTypeOK
<1>15u. CASE LinkUndo
    <2>1. CASE req.app \in LiveApps /\ DropApp(req.app)
        <3>1. req.app \in Apps
            BY <2>1 DEF LiveApps
        <3>2. /\ apps' \in [Apps -> {"new", "live", "gone"}]
              /\ conts' \in [Conts -> Item(Comps)]
              /\ routes' \in [Routes -> Item(Comps)]
              /\ mons' \in [Monitors -> Item({})]
            BY <2>1, <3>1, ForgetForgets DEF DropApp, LinksTypeOK
        <3> QED
            BY <1>15u, <3>2 DEF LinkUndo, LinksTypeOK
    <2>2. CASE UNCHANGED <<apps, conts, routes, mons>>
        BY <1>15u, <2>2 DEF LinkUndo, LinksTypeOK
    <2> QED
        BY <1>15u, <2>1, <2>2 DEF LinkUndo
<1>16. CASE LinkSync \/ LinkEnds
    <2>1. req.item \in NodeSet /\ req.app \in Apps /\ App(req.app) \in NodeSet
        BY <1>16, AskingRequest, NodesAreNodes DEF LinkSync, LinkEnds
    <2>2. parent \in Links
        BY DEF LinksTypeOK
    <2>3. parent' \in {parent, SetParent(parent, App(req.app), req.item), IgnoreIfLinked(parent, App(req.app), req.item)}
        BY <1>16 DEF LinkSync, LinkEnds
    <2>4. parent' \in Links
        BY <2>1, <2>2, <2>3, SetParentSets, IgnoreIfLinkedIgnores
    <2> QED
        BY <1>16, <2>4 DEF LinkSync, LinkEnds, LinksTypeOK
<1>17. ASSUME NEW m \in Monitors, DeleteCheck(m) PROVE RowsOK'
    BY <1>17 DEF DeleteCheck, LinksTypeOK, Item, NewItem
<1>18. ASSUME NEW m \in Monitors, NEW a \in Apps \cup {None}, CreateCheck(m, a) PROVE RowsOK'
    <2>1. mons' \in [Monitors -> Item({})]
        <3>1. [mons[m] EXCEPT !.state = "live", !.app = a] \in Item({})
            BY RowLives DEF LinksTypeOK
        <3> QED
            BY <1>18, <3>1 DEF CreateCheck, LinksTypeOK
    <2>2. parent' \in Links
        BY <1>18, NodesAreNodes, IgnoreIfLinkedIgnores DEF CreateCheck, Tried, LinksTypeOK
    <2> QED
        BY <1>18, <2>1, <2>2 DEF CreateCheck, LinksTypeOK
<1>19. ASSUME NEW m \in Monitors, NEW a \in Apps \cup {None}, UpdateCheck(m, a) PROVE RowsOK'
    <2>1. mons' \in [Monitors -> Item({})]
        <3>1. mons \in [Monitors -> Item({})] /\ mons' = [mons EXCEPT ![m].app = a]
            BY <1>19 DEF UpdateCheck, LinksTypeOK
        <3> QED
            BY ONLY <3>1, AppSet
    <2>2. PICK f \in {parent, [n \in NodeSet |-> IF parent[n] = Monitor(m) THEN NoNode ELSE parent[n]]} :
            parent' \in {f} \cup IF a = None THEN {} ELSE {IgnoreIfLinked(f, App(a), Monitor(m))}
        BY <1>19 DEF UpdateCheck
    <2>3. f \in Links
        BY <2>2 DEF LinksTypeOK
    <2>4. parent' \in Links
        BY ONLY <2>2, <2>3, NodesAreNodes, IgnoreIfLinkedIgnores DEF Links
    <2> QED
        BY <1>19, <2>1, <2>4 DEF UpdateCheck, LinksTypeOK
<1>20. ASSUME NEW l \in Posted, PostLink(l[1], l[2]) \/ DropLink(l[1]) PROVE RowsOK'
    <2>1. l[1] \in NodeSet /\ l[2] \in NodeSet
        OBVIOUS
    <2> QED
        BY <1>20, <2>1, SetParentSets, RemoveParentRemoves DEF PostLink, DropLink, LinksTypeOK
<1>21. ASSUME NEW c \in Conts, SyncContainer(c) \/ LinkContainer(c) PROVE RowsOK'
    <2>1. CASE SyncContainer(c)
        <3>1. parent' \in Links
            <4>1. CASE upsert[c].on \in LiveComps
                <5>1. CompNode(upsert[c].on) \in NodeSet
                    BY <4>1, NodesAreNodes DEF CompNode, LiveComps, LinksTypeOK
                <5> QED
                    BY <2>1, <4>1, <5>1, NodesAreNodes, SetParentSets DEF SyncContainer, Tried, LinksTypeOK
            <4> QED
                BY <2>1, <4>1 DEF SyncContainer, LinksTypeOK
        <3> QED
            BY <2>1, <3>1 DEF SyncContainer, LinksTypeOK
    <2>2. CASE LinkContainer(c)
        <3>1. upsert[c].on \in Comps
            BY <2>2 DEF LinkContainer, LinksTypeOK
        <3>2. <<"docker_engine", upsert[c].on>> \in NodeSet
            BY <3>1, NodesAreNodes DEF CompTypes, HostTypes
        <3>3. parent' \in Links
            BY <2>2, <3>2, NodesAreNodes, SetParentSets DEF LinkContainer, LinksTypeOK
        <3> QED
            BY <2>2, <3>3 DEF LinkContainer, LinksTypeOK
    <2> QED
        BY <1>21, <2>1, <2>2
<1>22. CASE CutLink
    <2>1. App(cut) \in NodeSet
        BY <1>22, NodesAreNodes DEF CutLink, LinksTypeOK
    <2>2. parent' \in Links
        BY <1>22, <2>1, RemoveParentRemoves DEF CutLink, Tried, LinksTypeOK
    <2> QED
        BY <1>22, <2>2 DEF CutLink, LinksTypeOK
<1>23. CASE LinksRestart
    BY <1>23 DEF LinksRestart, LinksTypeOK
<1> QED
    BY <1>1, <1>2, <1>3, <1>4, <1>5, <1>6, <1>7, <1>8, <1>9, <1>10, <1>11, <1>12, <1>13, <1>14,
       <1>15, <1>15u, <1>16, <1>17, <1>18, <1>19, <1>20, <1>21, <1>22, <1>23 DEF LinksNext, RouteStep

\* Statements that may take the app of the request away from its item.
LEMMA UndoneRequest ==
    ASSUME LinksTypeOK, NEW n, Undoes(n)
    PROVE  /\ req' \in Idle \cup Asking
           /\ req'.pc = req.pc /\ req'.mode = req.mode /\ req'.app = req.app /\ req'.item = req.item
           /\ req' = req \/ req'.faults = 2
           /\ req.pc # "idle" /\ n = App(req.app) => req'.faults = 2
<1>1. req \in Idle \cup Asking
    BY DEF LinksTypeOK, Idle, Asking
<1> QED
    BY <1>1 DEF Undoes, Idle, Asking, Answered, NoReq

\* The table goes on holding upserts while one of them takes a step.
LEMMA UpsertsTyped ==
    ASSUME LinksTypeOK, NEW c \in Conts,
           NEW new \in [pc : {"idle", "off"}, on : {None}] \cup [pc : {"sync", "link"}, on : Comps],
           upsert' = [upsert EXCEPT ![c] = new]
    PROVE  UpsertsOK'
BY DEF LinksTypeOK, UpsertsOK

\* What is under way stays a list of upserts, an unlinking and a request.
LEMMA UnderWayTypeStep ==
    ASSUME LinksTypeOK, [LinksNext]_linksVars
    PROVE  UnderWayOK'
<1>0. req \in Idle \cup Asking /\ (req.pc # "idle" => req \in Asking) /\ UpsertsOK /\ cut \in Apps \cup {None}
    BY RequestKinds DEF LinksTypeOK, Idle, Asking, UpsertsOK
<1>1. CASE UNCHANGED underWay
    BY <1>0, <1>1 DEF underWay, UnderWayOK, UpsertsOK
<1>2. ASSUME NEW n, UNCHANGED upsert \/ MovesUpsert(n), UNCHANGED cut \/ cut' \in Apps \cup {None}, Undoes(n)
      PROVE  UnderWayOK'
    <2>1. UpsertsOK'
        BY <1>0, <1>2 DEF MovesUpsert, UpsertsOK, Off
    <2> QED
        BY <1>0, <1>2, <2>1, UndoneRequest DEF UnderWayOK
<1>3. ASSUME NEW a \in Apps, UnlinkApp(a) PROVE UnderWayOK'
    BY <1>2, <1>3 DEF UnlinkApp
<1>4. ASSUME NEW l \in Posted, PostLink(l[1], l[2]) \/ DropLink(l[1]) PROVE UnderWayOK'
    BY <1>2, <1>4 DEF PostLink, DropLink
<1>5. ASSUME NEW c \in Conts, UnlinkContainer(c) PROVE UnderWayOK'
    <2>1. conts[c].app \in Apps \cup {None}
        BY DEF LinksTypeOK, Item
    <2> QED
        BY <1>2, <1>5, <2>1 DEF UnlinkContainer
<1>6. CASE CutLink
    BY <1>2, <1>6 DEF CutLink
<1>7. ASSUME NEW r \in Routes, UnlinkRoute(r) PROVE UnderWayOK'
    BY <1>2, <1>7 DEF UnlinkRoute
<1>8. ASSUME NEW c \in Conts, NEW e \in Comps, UpsertContainer(c, e) PROVE UnderWayOK'
    BY <1>0, <1>8, UpsertsTyped DEF UpsertContainer, UnderWayOK
<1>9. ASSUME NEW c \in Conts, SyncContainer(c) PROVE UnderWayOK'
    <2>1. upsert[c] \in [pc : {"idle", "off", "sync", "link"}, on : Comps \cup {None}] /\ upsert[c].on \in Comps
        BY <1>0, <1>9 DEF SyncContainer, UpsertsOK
    <2>2. [upsert[c] EXCEPT !.pc = "link"] = [pc |-> "link", on |-> upsert[c].on]
        BY <2>1
    <2>3. upsert' = [upsert EXCEPT ![c] = [upsert[c] EXCEPT !.pc = "link"]]
        BY <1>0, <1>9 DEF SyncContainer, UpsertsOK
    <2>4. upsert' = [upsert EXCEPT ![c] = [pc |-> "link", on |-> upsert[c].on]]
        BY <2>2, <2>3
    <2> QED
        BY <1>0, <1>9, <2>1, <2>4, UpsertsTyped DEF SyncContainer, UnderWayOK
<1>10. ASSUME NEW c \in Conts, LinkContainer(c) PROVE UnderWayOK'
    BY <1>0, <1>10, UpsertsTyped DEF LinkContainer, NoUpsert, Off, UnderWayOK
<1>11. ASSUME NEW a \in Apps, NEW mode \in {"existing", "create"}, NEW item \in Items,
              LinkBegin(item, a, mode)
       PROVE  UnderWayOK'
    <2>1. item \in NodeSet
        BY DEF Items, Live, NodeSet, LinksTypeOK
    <2> QED
        BY <1>0, <1>11, <2>1 DEF LinkBegin, UnderWayOK, UpsertsOK, Asking
<1>12. ASSUME req.pc # "idle", UNCHANGED <<upsert, cut>>,
              \/ \E f \in 0 .. 2 : req' = Answered(f)
              \/ \E to \in {"set", "undo", "sync", "link"}, f \in 0 .. 2 : req' = [req EXCEPT !.pc = to, !.faults = f]
       PROVE  UnderWayOK'
    <2>1. req' \in Idle \cup Asking
        BY <1>0, <1>12 DEF Idle, Asking
    <2> QED
        BY <1>0, <1>12, <2>1 DEF UnderWayOK, UpsertsOK
<1>13. req.faults \in 0 .. 2 /\ OneMore(req.faults) \in 0 .. 2
    BY <1>0, RequestKinds DEF Asking
<1>14. CASE LinkSet
    <2>1. req' = [req EXCEPT !.pc = "sync", !.faults = req.faults]
        BY <1>0, <1>14 DEF LinkSet, Asking
    <2> QED
        BY <1>12, <1>13, <1>14, <2>1 DEF LinkSet
<1>15. CASE LinkFails
    BY <1>12, <1>13, <1>15 DEF LinkFails
<1>16. CASE LinkUndo
    BY <1>12, <1>13, <1>16 DEF LinkUndo
<1>17. CASE LinkSync
    BY <1>12, <1>13, <1>17 DEF LinkSync
<1>18. CASE LinkEnds
    BY <1>12, <1>13, <1>18 DEF LinkEnds
<1>19. CASE LinksRestart
    <2>1. UpsertsOK'
        BY <1>0, <1>19 DEF LinksRestart, UpsertsOK, NoUpsert, Off
    <2> QED
        BY <1>0, <1>19, <2>1, RequestKinds DEF LinksRestart, UnderWayOK
<1> QED
    <2>1. CASE UNCHANGED linksVars
        BY <1>1, <2>1 DEF linksVars, underWay
    <2> QED
        BY <1>1, <1>3, <1>4, <1>5, <1>6, <1>7, <1>8, <1>9, <1>10, <1>11, <1>14, <1>15, <1>16, <1>17,
           <1>18, <1>19, <2>1
           DEF LinksNext, RouteStep, CreateApp, DeleteApp, Update, Create, Delete, LinkApp, PollGuest,
               DiscoverGuest, DeleteContainer, DiscoverRoute, CreateCheck, UpdateCheck, DeleteCheck

LEMMA LinksTypeStep ==
    ASSUME LinksTypeOK, [LinksNext]_linksVars
    PROVE  LinksTypeOK'
BY RowsTypeStep, UnderWayTypeStep DEF RowsOK, UnderWayOK, UpsertsOK, LinksTypeOK, Links, Idle, Asking

\* Links are kept between nodes, whatever is created, retyped, discovered and deleted.
THEOREM LinksTypeCorrect == LinksSpec => []LinksTypeOK
BY LinksTypeInit, LinksTypeStep, PTL DEF LinksSpec

-----------------------------------------------------------------------------
(* Apps that rows name *)

LEMMA DropAppDrops ==
    ASSUME LinksTypeOK, AppRefsLive, NEW a \in Apps, DropApp(a)
    PROVE  AppRefsLive'
<1>1. a # None /\ LiveApps' = LiveApps \ {a}
    BY LinkConstants DEF DropApp, LiveApps, LinksTypeOK
<1>2. conts \in [Conts -> Item(Comps)] /\ routes \in [Routes -> Item(Comps)]
      /\ mons \in [Monitors -> Item({})]
    BY DEF LinksTypeOK
<1>3. \A c \in Conts : Forget(conts, a)[c].app \in {conts[c].app, None} \ {a}
    BY ONLY <1>1, <1>2, ForgetForgets
<1>4. \A r \in Routes : Forget(routes, a)[r].app \in {routes[r].app, None} \ {a}
    BY ONLY <1>1, <1>2, ForgetForgets
<1>5. \A m \in Monitors : Forget(mons, a)[m].app \in {mons[m].app, None} \ {a}
    BY ONLY <1>1, <1>2, ForgetForgets
<1> QED
    BY <1>1, <1>3, <1>4, <1>5 DEF DropApp, AppRefsLive

LEMMA AppRefsStep ==
    ASSUME LinksTypeOK, AppRefsLive, [LinksNext]_linksVars
    PROVE  AppRefsLive'
<1>1. CASE UNCHANGED <<apps, conts, routes, mons>>
    BY <1>1 DEF AppRefsLive, LiveApps
<1>2. ASSUME NEW a \in Apps, apps[a] = "new", apps' = [apps EXCEPT ![a] = "live"],
             UNCHANGED <<conts, routes, mons>>
      PROVE  AppRefsLive'
    <2>1. LiveApps \subseteq LiveApps'
        BY <1>2 DEF LiveApps, LinksTypeOK
    <2> QED
        BY <1>2, <2>1 DEF AppRefsLive
<1>3. ASSUME NEW a \in Apps, CreateApp(a) \/ DeleteApp(a) \/ UnlinkApp(a) PROVE AppRefsLive'
    BY <1>1, <1>2, <1>3, DropAppDrops DEF CreateApp, DeleteApp, UnlinkApp, LiveApps
<1>4. CASE \E c \in Comps : \/ \E t \in TypesOf[c] : \/ Update(c, t)
                                                      \/ \E p \in Comps \cup {None} : Create(c, t, p)
                            \/ \E a \in Apps : LinkApp(c, a)
    BY <1>1, <1>4 DEF Update, Create, LinkApp
<1>5. ASSUME NEW c \in Comps, Delete(c) PROVE AppRefsLive'
    BY <1>5 DEF Delete, AppRefsLive, LiveApps, LinksTypeOK
<1>6. ASSUME NEW g \in Guests, PollGuest(g) \/ \E t \in GuestTypes : DiscoverGuest(g, t)
      PROVE  AppRefsLive'
    BY <1>1, <1>6 DEF PollGuest, DiscoverGuest
<1>7. ASSUME NEW c \in Conts, DeleteContainer(c) PROVE AppRefsLive'
    BY <1>7 DEF DeleteContainer, AppRefsLive, LiveApps, LinksTypeOK
<1>8. ASSUME NEW c \in Conts, UnlinkContainer(c) PROVE AppRefsLive'
    <2>1. \A x \in Conts : conts'[x].app \in {conts[x].app, None}
        BY <1>8 DEF UnlinkContainer, LinksTypeOK, Item
    <2> QED
        BY <1>8, <2>1 DEF UnlinkContainer, AppRefsLive, LiveApps
<1>9. ASSUME NEW c \in Conts, NEW e \in Comps, UpsertContainer(c, e) PROVE AppRefsLive'
    <2>1. \A x \in Conts : conts'[x].app = conts[x].app
        BY <1>9 DEF UpsertContainer, LinksTypeOK, Item
    <2> QED
        BY <1>9, <2>1 DEF UpsertContainer, AppRefsLive, LiveApps
<1>10. ASSUME NEW r \in Routes, NEW e \in Comps, NEW c \in Conts \cup {None}, DiscoverRoute(r, e, c)
       PROVE  AppRefsLive'
    <2> DEFINE app == IF c = None THEN None ELSE conts[c].app
    <2>1. app \in LiveApps \cup {None}
        BY DEF AppRefsLive
    <2>2. \A x \in Routes : routes'[x].app \in {routes[x].app, app}
        BY <1>10 DEF DiscoverRoute, LinksTypeOK
    <2> QED
        BY <1>10, <2>1, <2>2 DEF DiscoverRoute, AppRefsLive, LiveApps
<1>11. ASSUME NEW r \in Routes, UnlinkRoute(r) PROVE AppRefsLive'
    <2>1. \A x \in Routes : routes'[x].app \in {routes[x].app, None}
        BY <1>11 DEF UnlinkRoute, LinksTypeOK, Item
    <2> QED
        BY <1>11, <2>1 DEF UnlinkRoute, AppRefsLive, LiveApps
<1>12. ASSUME NEW a \in Apps, NEW mode \in {"existing", "create"}, NEW item \in Items,
              LinkBegin(item, a, mode)
       PROVE  AppRefsLive'
    BY <1>1, <1>2, <1>12 DEF LinkBegin
<1>13. CASE LinkSet
    <2>1. req.app \in LiveApps /\ req.item \in Items
        BY <1>13 DEF LinkSet
    <2>2. \A x \in Conts : conts'[x].app \in {conts[x].app, req.app}
        BY <1>13, <2>1 DEF LinkSet, LinksTypeOK, Item
    <2>3. \A x \in Routes : routes'[x].app \in {routes[x].app, req.app}
        BY <1>13, <2>1 DEF LinkSet, LinksTypeOK, Item
    <2> QED
        BY <1>13, <2>1, <2>2, <2>3 DEF LinkSet, AppRefsLive, LiveApps
<1>14. CASE LinkUndo
    BY <1>1, <1>14, DropAppDrops DEF LinkUndo, LiveApps
<1>15. CASE LinkFails \/ LinkSync \/ LinkEnds \/ CutLink \/ LinksRestart
    BY <1>1, <1>15 DEF LinkFails, LinkSync, LinkEnds, CutLink, LinksRestart
<1>19. ASSUME NEW c \in Conts, SyncContainer(c) \/ LinkContainer(c) PROVE AppRefsLive'
    BY <1>1, <1>19 DEF SyncContainer, LinkContainer
<1>20. ASSUME NEW l \in Posted, PostLink(l[1], l[2]) \/ DropLink(l[1]) PROVE AppRefsLive'
    BY <1>1, <1>20 DEF PostLink, DropLink
<1>16. ASSUME NEW m \in Monitors, NEW a \in Apps \cup {None}, CreateCheck(m, a) \/ UpdateCheck(m, a)
       PROVE  AppRefsLive'
    <2>1. a \in LiveApps \cup {None}
        BY <1>16 DEF CreateCheck, UpdateCheck
    <2>2. \A x \in Monitors \ {m} : mons'[x] = mons[x]
        BY <1>16 DEF CreateCheck, UpdateCheck, LinksTypeOK
    <2>3. mons'[m].app = a
        <3>1. mons \in [Monitors -> Item({})]
            BY DEF LinksTypeOK
        <3>2. CASE CreateCheck(m, a)
            BY <3>1, <3>2 DEF CreateCheck, Item
        <3>3. CASE UpdateCheck(m, a)
            BY <3>1, <3>3, AppSet DEF UpdateCheck
        <3> QED
            BY <1>16, <3>2, <3>3
    <2> QED
        BY <1>16, <2>1, <2>2, <2>3 DEF CreateCheck, UpdateCheck, AppRefsLive, LiveApps
<1>17. CASE UNCHANGED linksVars
    BY <1>1, <1>17 DEF linksVars
<1>18. ASSUME NEW m \in Monitors, DeleteCheck(m) PROVE AppRefsLive'
    BY <1>18 DEF DeleteCheck, NewItem, AppRefsLive, LiveApps, LinksTypeOK
<1> QED
    BY <1>3, <1>4, <1>5, <1>6, <1>7, <1>8, <1>9, <1>10, <1>11, <1>12, <1>13, <1>14, <1>15,
       <1>16, <1>17, <1>18, <1>19, <1>20 DEF LinksNext, RouteStep

\* No container, route or check names an app that was deleted, whichever request about it
\* was half done.
THEOREM AppRefsAlwaysLive == LinksSpec => []AppRefsLive
<1>1. LinksInit => AppRefsLive
    BY DEF LinksInit, AppRefsLive, NewItem
<1> QED
    BY <1>1, LinksTypeCorrect, AppRefsStep, PTL DEF LinksSpec

-----------------------------------------------------------------------------
(* Routes *)

\* Discovery and linking of routes sets the parents of routes and of apps that had none.
LEMMA RouteStepRests ==
    ASSUME LinksTypeOK, RouteStep
    PROVE  /\ \A c \in Conts : parent'[Container(c)] = parent[Container(c)]
           /\ \A a \in Apps : parent[App(a)] \notin ({"traefik_route"} \X Routes) \cup {NoNode}
                                => parent'[App(a)] = parent[App(a)]
<1> USE DEF Links
<1>a. parent \in Links /\ (\A c \in Conts : Container(c) \in NodeSet) /\ (\A a \in Apps : App(a) \in NodeSet)
    BY NodesAreNodes DEF LinksTypeOK
<1> DEFINE Kept(new) == /\ \A c \in Conts : new[Container(c)] = parent[Container(c)]
                        /\ \A a \in Apps : parent[App(a)] \notin ({"traefik_route"} \X Routes) \cup {NoNode}
                                              => new[App(a)] = parent[App(a)]
<1>1. ASSUME NEW r \in Routes, NEW e \in Comps, NEW c \in Conts \cup {None}, DiscoverRoute(r, e, c)
      PROVE  Kept(parent')
    <2>1. PICK app \in Apps \cup {None} : app = IF c = None THEN None ELSE conts[c].app
        BY DEF LinksTypeOK, Item
    <2>2. PICK up \in {parent, IgnoreIfLinked(parent, Route(r), <<"traefik", e>>)} :
            parent' \in {up} \cup IF app = None THEN {} ELSE {IgnoreIfLinked(up, App(app), Route(r))}
        BY <1>1, <2>1 DEF DiscoverRoute
    <2>3. up \in Links
        BY <1>a, <2>2, NodesAreNodes, IgnoreIfLinkedIgnores DEF CompTypes, HostTypes
    <2>4. \A n \in NodeSet \ {Route(r)} : up[n] = parent[n]
        BY <1>a, <2>2, NodesAreNodes, IgnoreIfLinkedIgnores DEF CompTypes, HostTypes
    <2>5. (\A x \in Conts : up[Container(x)] = parent[Container(x)])
          /\ (\A a \in Apps : up[App(a)] = parent[App(a)])
        BY <1>a, <2>4, KindsDiffer
    <2>6. CASE parent' = up
        BY <2>5, <2>6
    <2>7. CASE app # None /\ parent' = IgnoreIfLinked(up, App(app), Route(r))
        <3>1. \A n \in NodeSet \ {App(app)} : parent'[n] = up[n]
            BY <2>3, <2>7, NodesAreNodes, IgnoreIfLinkedIgnores
        <3>2. \A n \in NodeSet : up[n] # NoNode => parent'[n] = up[n]
            BY <2>3, <2>7, NodesAreNodes, IgnoreIfLinkedIgnores
        <3> QED
            BY <1>a, <2>5, <2>7, <3>1, <3>2, KindsDiffer
    <2> QED
        BY <2>2, <2>6, <2>7
<1>2. ASSUME NEW r \in Routes, UnlinkRoute(r) PROVE Kept(parent')
    <2>1. PICK a \in Apps \cup {None} : a = routes[r].app
        BY DEF LinksTypeOK, Item
    <2>2. CASE a # None /\ parent[App(a)] = Route(r) /\ parent' = RemoveParent(parent, App(a))
        <3>1. Route(r) \in {"traefik_route"} \X Routes
            BY DEF Route
        <3>2. \A n \in NodeSet \ {App(a)} : parent'[n] = parent[n]
            BY <1>a, <2>2, RemoveParentRemoves
        <3> QED
            BY <1>a, <2>2, <3>1, <3>2, KindsDiffer
    <2>3. CASE UNCHANGED parent
        BY <2>3
    <2> QED
        BY <1>2, <2>1, <2>2, <2>3 DEF UnlinkRoute, Tried
<1>3. CASE req.item[1] = "traefik_route" /\ LinkSync
    <2>1. req.item \in NodeSet /\ req.app \in Apps
        BY <1>3, AskingRequest DEF LinkSync
    <2>2. parent' \in {parent, IgnoreIfLinked(parent, App(req.app), req.item)}
        BY <1>3 DEF LinkSync
    <2>3. /\ \A n \in NodeSet \ {App(req.app)} : parent'[n] = parent[n]
          /\ \A n \in NodeSet : parent[n] # NoNode => parent'[n] = parent[n]
        BY <1>a, <2>1, <2>2, IgnoreIfLinkedIgnores
    <2> QED
        BY <1>a, <2>1, <2>3, KindsDiffer
<1>4. Kept(parent')
    BY <1>1, <1>2, <1>3 DEF RouteStep
<1> QED
    BY <1>4

\* An app that hangs from a container, a component or a check keeps its parent, whatever is
\* found out about routes or done to them.
THEOREM RoutesAlwaysYield == LinksSpec => RoutesYield
<1>1. LinksTypeOK /\ [LinksNext]_linksVars =>
        [\A a \in Apps :
            (/\ parent[App(a)] \notin ({"traefik_route"} \X Routes) \cup {NoNode}
             /\ parent'[App(a)] # parent[App(a)])
                => ~RouteStep]_linksVars
    BY RouteStepRests
<1> QED
    BY <1>1, LinksTypeCorrect, PTL DEF LinksSpec, RoutesYield

-----------------------------------------------------------------------------
(* Apps made by a request *)

\* No app that is not tied has such a parent, and none that LinkApp or a request linked.
LastResort == ({"monitor"} \X Monitors) \cup {NoNode}

\* Of a request that makes an app: it is not new; an UPDATE that failed counts; and with no
\* second fault the route names the app it was given, and a container's app was linked.
RequestInv ==
    (req.pc # "idle" /\ req.mode = "create") =>
        /\ apps[req.app] # "new"
        /\ req.item[1] \in {"container", "traefik_route"}
        /\ req.pc = "undo" => req.faults > 0
        /\ req.faults < 2 =>
            /\ req.pc \in {"set", "sync"} => req.faults = 0
            /\ (req.pc = "sync" /\ req.item[1] = "traefik_route" /\ apps[req.app] = "live")
                    => routes[req.item[2]].state = "live" /\ routes[req.item[2]].app = req.app
            /\ (req.pc = "link" /\ req.faults = 0) => parent[App(req.app)] \notin LastResort

\* The row of an app that was made goes, and no row of that id comes.
LEMMA AppsAge ==
    ASSUME LinksTypeOK, [LinksNext]_linksVars, NEW a \in Apps, apps[a] # "new"
    PROVE  apps'[a] \in {apps[a], "gone"}
<1>1. CASE UNCHANGED apps
    BY <1>1
<1>2. ASSUME NEW b \in Apps, apps[b] = "new", apps' = [apps EXCEPT ![b] = "live"]
      PROVE  apps'[a] \in {apps[a], "gone"}
    BY <1>2 DEF LinksTypeOK
<1>3. ASSUME NEW b \in Apps, apps' = [apps EXCEPT ![b] = "gone"]
      PROVE  apps'[a] \in {apps[a], "gone"}
    BY <1>3 DEF LinksTypeOK
<1>4. ASSUME NEW b \in Apps, CreateApp(b) \/ DeleteApp(b) \/ UnlinkApp(b)
      PROVE  apps'[a] \in {apps[a], "gone"}
    BY <1>1, <1>2, <1>3, <1>4 DEF CreateApp, DeleteApp, DropApp, UnlinkApp
<1>5. ASSUME NEW b \in Apps, NEW mode \in {"existing", "create"}, NEW item \in Items, LinkBegin(item, b, mode)
      PROVE  apps'[a] \in {apps[a], "gone"}
    BY <1>1, <1>2, <1>5 DEF LinkBegin
<1>6. CASE LinkUndo
    BY <1>1, <1>3, <1>6 DEF LinkUndo, DropApp, LiveApps
<1> QED
    BY <1>1, <1>4, <1>5, <1>6
       DEF linksVars, LinksNext, RouteStep, Update, Create, Delete, LinkApp, PostLink, DropLink, PollGuest,
           DiscoverGuest, DeleteContainer, UnlinkContainer, CutLink, UpsertContainer, SyncContainer,
           LinkContainer, DiscoverRoute, UnlinkRoute, LinkSet, LinkFails, LinkSync, LinkEnds, DeleteCheck,
           CreateCheck, UpdateCheck, LinksRestart

\* Every route goes on naming an app that is not deleted.
RoutesKept(a) ==
    \A r \in Routes : (routes[r].state = "live" /\ routes[r].app = a /\ apps'[a] = "live")
                        => routes'[r].state = "live" /\ routes'[r].app = a

ParentKept(a) == parent[App(a)] \notin LastResort => parent'[App(a)] \notin LastResort

LEMMA RequestRests ==
    ASSUME LinksTypeOK, [LinksNext]_linksVars, RequestInv, req' = req,
           \A a \in Apps : RoutesKept(a), \A a \in Apps : ParentKept(a)
    PROVE  RequestInv'
<1> SUFFICES ASSUME req.pc # "idle", req.mode = "create" PROVE RequestInv'
    BY DEF RequestInv
<1>1. req.app \in Apps /\ req.item \in NodeSet /\ apps'[req.app] \in {apps[req.app], "gone"}
    BY AskingRequest, AppsAge DEF RequestInv
<1>2. req.item[1] = "traefik_route" => req.item[2] \in Routes
    BY <1>1 DEF NodeSet, CompTypes, HostTypes, GuestTypes
<1> QED
    BY <1>1, <1>2 DEF RequestInv, RoutesKept, ParentKept

\* Someone unlinks n: the app of the request, or another.
LEMMA RequestUndone ==
    ASSUME LinksTypeOK, [LinksNext]_linksVars, RequestInv, NEW n, Undoes(n),
           \A a \in Apps : App(a) # n => RoutesKept(a) /\ ParentKept(a),
           UNCHANGED apps
    PROVE  RequestInv'
<1> SUFFICES ASSUME req.pc # "idle", req.mode = "create" PROVE RequestInv'
    BY UndoneRequest DEF RequestInv
<1>1. req.app \in Apps /\ req.item \in NodeSet /\ apps'[req.app] = apps[req.app]
    BY AskingRequest
<1>2. req.item[1] = "traefik_route" => req.item[2] \in Routes
    BY <1>1 DEF NodeSet, CompTypes, HostTypes, GuestTypes
<1>3. CASE req'.faults = 2
    BY <1>1, <1>3, UndoneRequest DEF RequestInv
<1>4. CASE req' = req /\ req.faults # 2
    <2>1. n # App(req.app)
        BY <1>4, UndoneRequest
    <2> QED
        BY <1>1, <1>2, <1>4, <2>1 DEF RequestInv, RoutesKept, ParentKept
<1> QED
    BY <1>3, <1>4, UndoneRequest

\* What a link may be replaced by without leaving an app untied.
LEMMA ParentsKept ==
    ASSUME LinksTypeOK, NEW child \in NodeSet, NEW p \in NodeSet \cup {NoNode},
           parent' \in {parent, SetParent(parent, child, p), IgnoreIfLinked(parent, child, p)},
           (parent' = SetParent(parent, child, p) /\ \E a \in Apps : child = App(a)) => p \notin LastResort
    PROVE  \A a \in Apps : ParentKept(a)
<1>1. parent \in Links /\ \A a \in Apps : App(a) \in NodeSet
    BY NodesAreNodes DEF LinksTypeOK, Links
<1> SUFFICES ASSUME NEW a \in Apps, parent[App(a)] \notin LastResort PROVE parent'[App(a)] \notin LastResort
    BY DEF ParentKept
<1>2. CASE parent' = SetParent(parent, child, p)
    <2>1. CASE App(a) = child
        <3>1. p \notin LastResort
            BY <1>2, <2>1
        <3>2. SetParent(parent, child, p)[child] = p
            BY ONLY <1>1, SetParentSets
        <3> QED
            BY <1>2, <2>1, <3>1, <3>2
    <2>2. CASE App(a) # child
        <3>1. SetParent(parent, child, p)[App(a)] = parent[App(a)]
            BY ONLY <1>1, <2>2, SetParentSets
        <3> QED
            BY <1>2, <3>1
    <2> QED
        BY <2>1, <2>2
<1>3. CASE parent' = IgnoreIfLinked(parent, child, p)
    <2>1. parent[App(a)] # NoNode
        BY DEF LastResort
    <2> QED
        BY <1>1, <1>3, <2>1, IgnoreIfLinkedIgnores
<1> QED
    BY <1>2, <1>3

LEMMA ParentsRemoved ==
    ASSUME LinksTypeOK, NEW child \in NodeSet, parent' \in {parent, RemoveParent(parent, child)}
    PROVE  \A a \in Apps : App(a) # child => ParentKept(a)
BY NodesAreNodes, RemoveParentRemoves DEF LinksTypeOK, Links, ParentKept

LEMMA ComponentsAreNotApps ==
    ASSUME NEW t \in CompTypes, NEW x
    PROVE  /\ \A a : <<t, x>> # App(a)
           /\ <<t, x>> \notin LastResort
BY DEF CompTypes, HostTypes, GuestTypes, App, LastResort, NoNode

LEMMA RequestStep ==
    ASSUME LinksTypeOK, RequestInv, [LinksNext]_linksVars
    PROVE  RequestInv'
<1> USE LinkConstants
<1>a. UNCHANGED routes => \A a \in Apps : RoutesKept(a)
    BY DEF RoutesKept
<1>b. UNCHANGED parent => \A a \in Apps : ParentKept(a)
    BY DEF ParentKept
<1>1. CASE UNCHANGED <<routes, parent, req>>
    BY <1>1, <1>a, <1>b, RequestRests
<1>2. ASSUME NEW a \in Apps, CreateApp(a) \/ UnlinkApp(a) PROVE RequestInv'
    BY <1>1, <1>2, <1>a, NodesAreNodes, ParentsRemoved, RequestUndone DEF CreateApp, underWay, UnlinkApp
<1>3. ASSUME NEW a \in Apps, DeleteApp(a) PROVE RequestInv'
    <2>1. \A b \in Apps : RoutesKept(b)
        <3> SUFFICES ASSUME NEW r \in Routes, NEW b \in Apps,
                            routes[r].state = "live", routes[r].app = b, apps'[b] = "live"
                     PROVE  routes'[r].state = "live" /\ routes'[r].app = b
            BY DEF RoutesKept
        <3>1. b # a
            BY <1>3 DEF DeleteApp, DropApp, LinksTypeOK
        <3> QED
            BY <1>3, <3>1 DEF DeleteApp, DropApp, Forget, LinksTypeOK, Item
    <2> QED
        BY <1>3, <1>b, <2>1, RequestRests DEF DeleteApp, underWay
<1>4. ASSUME UNCHANGED <<routes, req>>, NEW t \in CompTypes, NEW x \in Comps, NEW p \in NodeSet,
             parent' \in {parent, SetParent(parent, <<t, x>>, p), RemoveParent(parent, <<t, x>>)}
      PROVE  RequestInv'
    <2>1. <<t, x>> \in NodeSet /\ \A a \in Apps : App(a) # <<t, x>>
        BY NodesAreNodes, ComponentsAreNotApps
    <2>2. CASE parent' = RemoveParent(parent, <<t, x>>)
        BY <1>4, <1>a, <2>1, <2>2, ParentsRemoved, RequestRests
    <2>3. CASE parent' \in {parent, SetParent(parent, <<t, x>>, p)}
        BY <1>4, <1>a, <2>1, <2>3, ParentsKept, RequestRests
    <2> QED
        BY <1>4, <2>2, <2>3
<1>5. ASSUME NEW c \in Comps, NEW t \in TypesOf[c], Update(c, t) PROVE RequestInv'
    <2>1. t \in CompTypes /\ <<t, c>> \in NodeSet
        BY NodesAreNodes
    <2>2. ASSUME NEW p \in ParentsOf[c] \cap LiveComps, parent' = SetParent(parent, <<t, c>>, <<comps'[p], p>>)
          PROVE  RequestInv'
        <3>1. p \in Comps /\ comps'[p] \in CompTypes
            BY <1>5, <2>1, <2>2 DEF Update, LinksTypeOK, LiveComps, CompTypes, HostTypes, GuestTypes
        <3>2. <<comps'[p], p>> \in NodeSet
            BY <3>1, NodesAreNodes
        <3> QED
            BY <1>4, <1>5, <2>1, <2>2, <3>2 DEF Update, underWay
    <2>3. CASE parent' \in {parent, RemoveParent(parent, <<t, c>>)}
        BY <1>4, <1>5, <2>1, <2>3 DEF Update, underWay
    <2> QED
        BY <1>5, <2>2, <2>3 DEF Update
<1>6. ASSUME NEW c \in Comps, NEW t \in TypesOf[c], NEW p \in Comps \cup {None}, Create(c, t, p)
      PROVE  RequestInv'
    <2>1. CASE p = None
        BY <1>1, <1>6, <2>1 DEF Create, underWay
    <2>2. CASE p # None
        <3>1. p \in Comps /\ comps[p] \in CompTypes
            BY <1>6, <2>2 DEF Create, LinksTypeOK, LiveComps
        <3>2. CompNode(p) \in NodeSet
            BY <3>1, NodesAreNodes DEF CompNode
        <3> QED
            BY <1>4, <1>6, <2>2, <3>2 DEF Create, Tried, underWay
    <2> QED
        BY <2>1, <2>2
<1>7. ASSUME NEW c \in Comps, Delete(c) PROVE RequestInv'
    BY <1>1, <1>7 DEF Delete, underWay
<1>8. ASSUME NEW c \in Comps, NEW a \in Apps, LinkApp(c, a) PROVE RequestInv'
    <2>1. comps[c] \in CompTypes
        BY <1>8 DEF LinkApp, LinksTypeOK, LiveComps
    <2>2. CompNode(c) \in NodeSet /\ App(a) \in NodeSet /\ CompNode(c) \notin LastResort
        BY <2>1, NodesAreNodes, ComponentsAreNotApps DEF CompNode
    <2> QED
        BY <1>8, <1>a, <2>2, ParentsKept, RequestRests DEF LinkApp, underWay
<1>9. ASSUME NEW l \in Posted, PostLink(l[1], l[2]) \/ DropLink(l[1]) PROVE RequestInv'
    <2>1. l[1] \in NodeSet /\ l[2] \in NodeSet
        OBVIOUS
    <2>2. \A a \in Apps : App(a) # l[1] => ParentKept(a)
        <3>1. CASE parent' = SetParent(parent, l[1], l[2])
            <4>1. parent \in Links /\ \A a \in Apps : App(a) \in NodeSet
                BY NodesAreNodes DEF LinksTypeOK, Links
            <4>2. \A a \in Apps : App(a) # l[1] => SetParent(parent, l[1], l[2])[App(a)] = parent[App(a)]
                BY ONLY <2>1, <4>1, SetParentSets
            <4> QED
                BY <3>1, <4>2 DEF ParentKept
        <3>2. CASE parent' = RemoveParent(parent, l[1])
            BY <2>1, <3>2, ParentsRemoved
        <3> QED
            BY <1>9, <3>1, <3>2 DEF PostLink, DropLink
    <2> QED
        BY <1>9, <1>a, <2>2, RequestUndone DEF PostLink, DropLink
<1>10. ASSUME NEW g \in Guests, PollGuest(g) \/ \E t \in GuestTypes : DiscoverGuest(g, t)
       PROVE  RequestInv'
    <2>1. <<"proxmox_node", GuestOf[g]>> \in NodeSet /\ GuestTypes \subseteq CompTypes /\ "vm_other" \in CompTypes
        BY NodesAreNodes DEF CompTypes, HostTypes, GuestTypes
    <2>2. CASE PollGuest(g)
        BY <1>4, <2>1, <2>2 DEF PollGuest, Tried, underWay
    <2>3. ASSUME NEW t \in GuestTypes, DiscoverGuest(g, t) PROVE RequestInv'
        BY <1>4, <2>1, <2>3 DEF DiscoverGuest, Tried, underWay
    <2> QED
        BY <1>10, <2>2, <2>3
<1>11. ASSUME NEW c \in Conts, DeleteContainer(c) \/ \E e \in Comps : UpsertContainer(c, e) PROVE RequestInv'
    BY <1>1, <1>11 DEF DeleteContainer, UpsertContainer, underWay
<1>12. ASSUME NEW c \in Conts, SyncContainer(c) \/ LinkContainer(c) PROVE RequestInv'
    <2>1. Container(c) \in NodeSet /\ \A a \in Apps : App(a) # Container(c)
        BY NodesAreNodes, KindsDiffer
    <2>2. \A a \in Apps : parent'[App(a)] = parent[App(a)]
        BY <1>12, <2>1, NodesAreNodes
           DEF SyncContainer, LinkContainer, Tried, SetParent, LinksTypeOK
    <2> QED
        BY <1>12, <1>a, <2>2, RequestRests DEF SyncContainer, LinkContainer, ParentKept
<1>13. ASSUME NEW c \in Conts, UnlinkContainer(c) PROVE RequestInv'
    BY <1>13, <1>a, <1>b, RequestUndone DEF UnlinkContainer
<1>14. CASE CutLink
    <2>1. App(cut) \in NodeSet
        BY <1>14, NodesAreNodes DEF CutLink, LinksTypeOK
    <2> QED
        BY <1>14, <1>a, <2>1, ParentsRemoved, RequestUndone DEF CutLink, Tried
<1>15. ASSUME NEW r \in Routes, NEW e \in Comps, NEW c \in Conts \cup {None}, DiscoverRoute(r, e, c)
       PROVE  RequestInv'
    <2>1. \A x \in Routes : routes[x].state = "live" => routes'[x].state = "live" /\ routes'[x].app = routes[x].app
        BY <1>15 DEF DiscoverRoute, LinksTypeOK, Item
    <2>2. \A a \in Apps : RoutesKept(a)
        BY <2>1 DEF RoutesKept
    <2>3. \A a \in Apps : ParentKept(a)
        <3> SUFFICES ASSUME NEW a \in Apps, parent[App(a)] # NoNode PROVE parent'[App(a)] = parent[App(a)]
            BY DEF ParentKept, LastResort
        <3>1. PICK app \in Apps \cup {None} : app = IF c = None THEN None ELSE conts[c].app
            BY DEF LinksTypeOK, Item
        <3>2. PICK up \in {parent, IgnoreIfLinked(parent, Route(r), <<"traefik", e>>)} :
                parent' \in {up} \cup IF app = None THEN {} ELSE {IgnoreIfLinked(up, App(app), Route(r))}
            BY <1>15, <3>1 DEF DiscoverRoute
        <3>3. up \in Links /\ up[App(a)] = parent[App(a)]
            BY <3>2, NodesAreNodes, IgnoreIfLinkedIgnores DEF LinksTypeOK, Links, CompTypes, HostTypes
        <3> QED
            BY <3>2, <3>3, NodesAreNodes, IgnoreIfLinkedIgnores
    <2> QED
        BY <1>15, <2>2, <2>3, RequestRests DEF DiscoverRoute, underWay
<1>16. ASSUME NEW r \in Routes, UnlinkRoute(r) PROVE RequestInv'
    <2>1. PICK a \in Apps \cup {None} : a = routes[r].app
        BY DEF LinksTypeOK, Item
    <2>2. \A b \in Apps : App(b) # App(a) => RoutesKept(b)
        <3>1. \A x \in Routes : x # r => routes'[x] = routes[x]
            BY <1>16 DEF UnlinkRoute, LinksTypeOK
        <3> QED
            BY <2>1, <3>1 DEF RoutesKept
    <2>3. \A b \in Apps : App(b) # App(a) => ParentKept(b)
        <3>1. CASE a # None
            BY <1>16, <1>b, <2>1, <3>1, NodesAreNodes, ParentsRemoved DEF UnlinkRoute, Tried
        <3>2. CASE a = None
            BY <1>16, <1>b, <2>1, <3>2 DEF UnlinkRoute
        <3> QED
            BY <3>1, <3>2
    <2> QED
        BY <1>16, <2>1, <2>2, <2>3, RequestUndone DEF UnlinkRoute
<1>17. ASSUME NEW a \in Apps, NEW mode \in {"existing", "create"}, NEW item \in Items,
              LinkBegin(item, a, mode)
       PROVE  RequestInv'
    <2>1. item[1] \in {"container", "traefik_route"}
        BY DEF Items
    <2>2. mode = "create" => apps'[a] = "live"
        BY <1>17 DEF LinkBegin, LinksTypeOK
    <2> QED
        BY <1>17, <2>1, <2>2 DEF LinkBegin, RequestInv
<1>18. CASE LinkSet
    <2>1. req.item \in Items /\ req' = [req EXCEPT !.pc = "sync"] /\ req \in Asking
        BY <1>18, RequestKinds DEF LinkSet, LinksTypeOK, Idle, Asking
    <2>2. /\ req'.pc = "sync" /\ req'.mode = req.mode /\ req'.item = req.item
          /\ req'.app = req.app /\ req'.faults = req.faults
        BY <2>1 DEF Asking
    <2>3. ASSUME req.item[1] = "traefik_route"
          PROVE  routes'[req.item[2]].state = "live" /\ routes'[req.item[2]].app = req.app
        <3>1. routes \in [Routes -> Item(Comps)]
            BY DEF LinksTypeOK
        <3>2. req.item[2] \in Routes /\ routes[req.item[2]].state = "live"
            BY <2>1, <2>3, <3>1 DEF Items, Live
        <3>3. routes' = [routes EXCEPT ![req.item[2]].app = req.app]
            BY <1>18, <2>3 DEF LinkSet
        <3> QED
            BY <3>1, <3>2, <3>3 DEF Item
    <2> QED
        BY <1>18, <2>2, <2>3 DEF LinkSet, RequestInv
<1>19. CASE LinkFails
    <2>1. req \in Asking
        BY <1>19, RequestKinds DEF LinkFails, LinksTypeOK, Idle, Asking
    <2>2. CASE req.mode = "create"
        <3>1. /\ req'.pc = "undo" /\ req'.mode = req.mode /\ req'.item = req.item
              /\ req'.app = req.app /\ req'.faults = OneMore(req.faults)
            BY <1>19, <2>1, <2>2 DEF LinkFails, Asking
        <3> QED
            BY <1>19, <2>2, <3>1 DEF LinkFails, RequestInv, OneMore
    <2>3. CASE req.mode # "create"
        BY <1>19, <2>1, <2>3, RequestKinds DEF LinkFails, RequestInv, Asking
    <2> QED
        BY <2>2, <2>3
<1>20. CASE LinkUndo \/ LinkEnds \/ LinksRestart
    <2>1. req'.pc = "idle"
        BY <1>20 DEF LinkUndo, LinkEnds, LinksRestart, Answered, NoReq
    <2> QED
        BY <2>1 DEF RequestInv
<1>21. CASE LinkSync
    <2>1. req \in Asking
        BY <1>21, RequestKinds DEF LinkSync, LinksTypeOK, Idle, Asking
    <2>2. CASE req.item[1] = "container"
        <3>1. PICK f \in {req.faults, OneMore(req.faults)} :
                /\ req' = [req EXCEPT !.pc = "link", !.faults = f]
                /\ f = 0 => parent' = SetParent(parent, App(req.app), req.item)
            BY <1>21, <2>2 DEF LinkSync, OneMore
        <3>2. /\ req'.pc = "link" /\ req'.mode = req.mode /\ req'.item = req.item
              /\ req'.app = req.app /\ req'.faults = f
            BY <2>1, <3>1 DEF Asking
        <3>3. req.item \notin LastResort
            BY <2>2 DEF LastResort, NoNode
        <3>4. f = 0 => parent'[App(req.app)] \notin LastResort
            BY <2>1, <3>1, <3>3, NodesAreNodes, SetParentSets DEF Asking, LinksTypeOK, Links
        <3> QED
            BY <1>21, <3>2, <3>4 DEF LinkSync, RequestInv
    <2>3. CASE req.item[1] # "container"
        <3>1. req'.pc = "idle"
            BY <1>21, <2>3 DEF LinkSync, Answered, NoReq
        <3> QED
            BY <3>1 DEF RequestInv
    <2> QED
        BY <2>2, <2>3
<1>22. ASSUME NEW m \in Monitors, NEW a \in Apps \cup {None}, CreateCheck(m, a) PROVE RequestInv'
    <2>1. CASE a = None
        BY <1>1, <1>22, <2>1 DEF CreateCheck, underWay
    <2>2. CASE a # None
        <3>1. a \in Apps /\ parent' \in {parent, IgnoreIfLinked(parent, App(a), Monitor(m))}
            BY <1>22, <2>2 DEF CreateCheck, Tried
        <3>2. \A b \in Apps : ParentKept(b)
            <4> SUFFICES ASSUME NEW b \in Apps, parent[App(b)] # NoNode PROVE parent'[App(b)] = parent[App(b)]
                BY DEF ParentKept, LastResort
            <4> QED
                BY <3>1, NodesAreNodes, IgnoreIfLinkedIgnores DEF LinksTypeOK, Links
        <3> QED
            BY <1>22, <1>a, <3>2, RequestRests DEF CreateCheck, underWay
    <2> QED
        BY <2>1, <2>2
<1>23. ASSUME NEW m \in Monitors, NEW a \in Apps \cup {None}, UpdateCheck(m, a) PROVE RequestInv'
    <2>1. PICK f \in {parent, [n \in NodeSet |-> IF parent[n] = Monitor(m) THEN NoNode ELSE parent[n]]} :
            parent' \in {f} \cup IF a = None THEN {} ELSE {IgnoreIfLinked(f, App(a), Monitor(m))}
        BY <1>23 DEF UpdateCheck
    <2>2. f \in Links
        BY <2>1 DEF LinksTypeOK, Links
    <2>3. \A b \in Apps : ParentKept(b)
        <3> SUFFICES ASSUME NEW b \in Apps, parent[App(b)] \notin LastResort PROVE parent'[App(b)] = parent[App(b)]
            BY DEF ParentKept
        <3>1. f[App(b)] = parent[App(b)] /\ f[App(b)] # NoNode
            BY <2>1, NodesAreNodes DEF LastResort, Monitor
        <3>2. ASSUME a \in Apps
              PROVE  IgnoreIfLinked(f, App(a), Monitor(m))[App(b)] = parent[App(b)]
            BY <2>2, <3>1, <3>2, NodesAreNodes, IgnoreIfLinkedIgnores
        <3> QED
            BY <2>1, <3>1, <3>2
    <2> QED
        BY <1>23, <1>a, <2>3, RequestRests DEF UpdateCheck, underWay
<1>24. ASSUME NEW m \in Monitors, DeleteCheck(m) PROVE RequestInv'
    BY <1>1, <1>24 DEF DeleteCheck, underWay
<1>25. CASE UNCHANGED linksVars
    BY <1>1, <1>25 DEF linksVars
<1> QED
    BY <1>2, <1>3, <1>5, <1>6, <1>7, <1>8, <1>9, <1>10, <1>11, <1>12, <1>13, <1>14, <1>15, <1>16,
       <1>17, <1>18, <1>19, <1>20, <1>21, <1>22, <1>23, <1>24, <1>25 DEF LinksNext, RouteStep

LEMMA AnsweredStep ==
    ASSUME LinksTypeOK, RequestInv, LinksNext, NEW a \in Apps, a = req.app,
           req.pc # "idle", req.mode = "create", req'.pc = "idle", req'.faults < 2, apps'[a] = "live"
    PROVE  Tied(a)'
<1>1. req \in Asking /\ req.app \in Apps /\ req.item \in NodeSet /\ App(req.app) \in NodeSet
    BY RequestKinds, AskingRequest, NodesAreNodes DEF LinksTypeOK, Idle, Asking
<1>2. parent \in Links
    BY DEF LinksTypeOK, Links
<1>3. LinkFails \/ LinkUndo \/ LinkSync \/ LinkEnds \/ LinksRestart
    <2>1. ~(UNCHANGED req) /\ \A n : ~Undoes(n)
        BY UndoneRequest
    <2>2. ~LinkSet
        BY <1>1 DEF LinkSet, Asking
    <2>3. \A item, b, mode : ~LinkBegin(item, b, mode)
        BY DEF LinkBegin
    <2> QED
        BY <2>1, <2>2, <2>3
           DEF LinksNext, RouteStep, CreateApp, DeleteApp, UnlinkApp, Update, Create, Delete, LinkApp,
               PostLink, DropLink, PollGuest, DiscoverGuest, DeleteContainer, UnlinkContainer, CutLink,
               UpsertContainer, SyncContainer, LinkContainer, DiscoverRoute, UnlinkRoute, DeleteCheck,
               CreateCheck, UpdateCheck, underWay
<1>4. ~LinkFails
    BY <1>1 DEF LinkFails, Asking
<1>5. ~LinksRestart
    BY DEF LinksRestart, Answered, NoReq
<1>6. ~LinkUndo
    <2>1. ASSUME LinkUndo PROVE req'.faults \in {req.faults, OneMore(req.faults)} /\ req.faults > 0
        BY <2>1 DEF LinkUndo, Answered, NoReq, RequestInv
    <2>2. ASSUME LinkUndo, req' = Answered(OneMore(req.faults)) PROVE FALSE
        BY <1>1, <2>1, <2>2 DEF Answered, NoReq, OneMore, Asking
    <2>3. ASSUME IF req.app \in LiveApps THEN DropApp(req.app) ELSE UNCHANGED <<apps, conts, routes, mons>>
          PROVE  apps'[req.app] # "live"
        BY <1>1, <2>3 DEF LiveApps, DropApp, LinksTypeOK
    <2> QED
        BY <2>2, <2>3 DEF LinkUndo
<1>7. CASE LinkEnds
    <2>1. CASE parent' = SetParent(parent, App(req.app), req.item)
        BY <1>1, <1>2, <2>1, NodesAreNodes, SetParentSets DEF Tied
    <2>2. CASE UNCHANGED parent /\ req' = Answered(OneMore(req.faults))
        <3>1. req.faults = 0
            BY <1>1, <2>2 DEF Answered, NoReq, OneMore, Asking
        <3>2. parent[App(req.app)] # NoNode
            BY <1>7, <3>1 DEF LinkEnds, RequestInv, LastResort
        <3> QED
            BY <2>2, <3>2 DEF Tied
    <2> QED
        BY <1>7, <2>1, <2>2 DEF LinkEnds
<1>8. CASE LinkSync
    <2>1. req.item[1] = "traefik_route"
        BY <1>1, <1>8 DEF LinkSync, RequestInv, Asking
    <2>2. CASE parent' = IgnoreIfLinked(parent, App(req.app), req.item)
        <3>1. IgnoreIfLinked(parent, App(req.app), req.item)[App(req.app)] # NoNode
            <4>1. PICK n \in NodeSet, p \in NodeSet : n = App(req.app) /\ p = req.item /\ p # NoNode
                BY <1>1, NodesAreNodes
            <4>2. IgnoreIfLinked(parent, n, p)[n] # NoNode
                BY ONLY <1>2, <4>1, IgnoreIfLinkedIgnores
            <4> QED
                BY <4>1, <4>2
        <3> QED
            BY <2>2, <3>1 DEF Tied
    <2>3. CASE UNCHANGED parent /\ req' = Answered(OneMore(req.faults))
        <3>1. req.faults = 0
            BY <1>1, <2>3 DEF Answered, NoReq, OneMore, Asking
        <3>2. routes'[req.item[2]].app = req.app
            BY <1>8, <2>1, <3>1 DEF LinkSync, RequestInv
        <3>3. req.item[2] \in Routes
            BY <1>1, <2>1 DEF NodeSet, CompTypes, HostTypes, GuestTypes
        <3> QED
            BY <3>2, <3>3 DEF Tied
    <2> QED
        BY <1>8, <2>1, <2>2, <2>3 DEF LinkSync
<1> QED
    BY <1>3, <1>4, <1>5, <1>6, <1>7, <1>8

\* A request that creates an app for an item and of which at most one statement fails, the
\* rollback's included, ends with the app deleted or with a parent or an item of its own.
THEOREM NoAppLeftBehind == LinksSpec => NoStrayApp
<1>1. LinksInit => RequestInv
    BY DEF LinksInit, NoReq, RequestInv
<1>2. LinksTypeOK /\ RequestInv /\ [LinksNext]_linksVars =>
        [\A a \in Apps :
            (req.pc # "idle" /\ req.mode = "create" /\ req.app = a /\ req'.pc = "idle" /\ req'.faults < 2)
                => (apps'[a] = "live" => Tied(a)')]_linksVars
    BY AnsweredStep
<1> QED
    BY <1>1, <1>2, RequestStep, LinksTypeCorrect, PTL DEF LinksSpec, NoStrayApp

-----------------------------------------------------------------------------
(* Containers and their engines *)

\* The engine of every row exists; an upsert that is under way is the one that wrote it.
EngineInv ==
    \A c \in Live(conts) :
        /\ conts[c].host \in LiveComps
        /\ upsert[c].pc \in {"sync", "link"} => conts[c].host = upsert[c].on
        /\ upsert[c].pc = "idle" => parent[Container(c)] = <<"docker_engine", conts[c].host>>

\* What a step leaves alone that touches neither a container's row nor, of one of which no
\* upsert went wrong, its link, nor takes a component away.
OthersRest ==
    /\ conts' \in [Conts -> Item(Comps)]
    /\ \A x \in Conts : conts'[x].state = conts[x].state /\ conts'[x].host = conts[x].host
    /\ LiveComps \subseteq LiveComps'
    /\ \A x \in Conts : \/ upsert'[x] = upsert[x]
                        \/ upsert'[x].pc = "off"
                        \/ upsert'[x].pc = "idle" /\ upsert[x].pc = "idle"
    /\ \A x \in Conts : upsert'[x].pc = "idle" => parent'[Container(x)] = parent[Container(x)]

LEMMA EngineRests == ASSUME LinksTypeOK, EngineInv, OthersRest PROVE EngineInv'
<1> SUFFICES ASSUME NEW c \in Live(conts')
             PROVE  /\ conts'[c].host \in LiveComps'
                    /\ upsert'[c].pc \in {"sync", "link"} => conts'[c].host = upsert'[c].on
                    /\ upsert'[c].pc = "idle" => parent'[Container(c)] = <<"docker_engine", conts'[c].host>>
    BY DEF EngineInv
<1>1. c \in Conts /\ c \in Live(conts) /\ conts'[c].host = conts[c].host
    BY DEF underWay, OthersRest, Live, LinksTypeOK
<1> QED
    BY <1>1 DEF underWay, OthersRest, EngineInv

LEMMA ContainerEngineStep ==
    ASSUME LinksTypeOK, EngineInv, [LinksNext]_linksVars
    PROVE  EngineInv'
<1> USE LinkConstants DEF Links
<1>a. LinksTypeOK'
    BY LinksTypeStep
<1>b. conts' \in [Conts -> Item(Comps)] /\ parent \in Links /\ conts \in [Conts -> Item(Comps)]
    BY <1>a DEF LinksTypeOK
<1>c. \A c \in Conts : Container(c) \in NodeSet
    BY NodesAreNodes
<1>1. CASE UNCHANGED linksVars
    BY <1>1, <1>b, EngineRests DEF linksVars, underWay, OthersRest, LiveComps
<1>2. ASSUME NEW a \in Apps, CreateApp(a) \/ DeleteApp(a) \/ UnlinkApp(a) PROVE EngineInv'
    <2>1. \A x \in Conts : conts'[x].state = conts[x].state /\ conts'[x].host = conts[x].host
        BY <1>2, <1>b, ForgetForgets DEF CreateApp, DeleteApp, DropApp, UnlinkApp
    <2>2. \A x \in Conts : parent'[Container(x)] = parent[Container(x)]
        BY <1>2, <1>b, <1>c, NodesAreNodes, KindsDiffer, RemoveParentRemoves
           DEF CreateApp, DeleteApp, DropApp, UnlinkApp
    <2> QED
        BY <1>2, <1>b, <2>1, <2>2, EngineRests
           DEF underWay, OthersRest, LiveComps, CreateApp, DeleteApp, DropApp, UnlinkApp
<1>3. ASSUME NEW c \in Comps, NEW t \in TypesOf[c], Update(c, t) PROVE EngineInv'
    <2>1. t \in CompTypes /\ <<t, c>> \in NodeSet
        BY NodesAreNodes
    <2>2. LiveComps \subseteq LiveComps'
        BY <1>3, <2>1 DEF Update, LiveComps, LinksTypeOK, CompTypes, HostTypes, GuestTypes
    <2>3. \A x \in Conts : parent'[Container(x)] = parent[Container(x)]
        <3>1. CASE UNCHANGED parent
            BY <3>1
        <3>2. ASSUME NEW p \in ParentsOf[c] \cap LiveComps,
                     parent' = SetParent(parent, <<t, c>>, <<comps'[p], p>>)
              PROVE  \A x \in Conts : parent'[Container(x)] = parent[Container(x)]
            <4>1. p \in Comps /\ comps'[p] \in CompTypes
                BY <1>3, <2>1, <3>2 DEF Update, LinksTypeOK, LiveComps, CompTypes, HostTypes, GuestTypes
            <4> QED
                BY <1>b, <2>1, <3>2, <4>1, NodesAreNodes, ComponentsAreNotContainers, ContainersKept
        <3>3. ASSUME parent' = RemoveParent(parent, <<t, c>>)
              PROVE  \A x \in Conts : parent'[Container(x)] = parent[Container(x)]
            <4>1. <<t, c>> \in NodeSet /\ \A x \in Conts : <<t, c>> # Container(x)
                BY <2>1, NodesAreNodes, ComponentsAreNotContainers
            <4> QED
                BY <1>b, <3>3, <4>1, ContainersKept
        <3> QED
            BY <1>3, <3>1, <3>2, <3>3 DEF Update
    <2> QED
        BY <1>3, <1>b, <2>2, <2>3, EngineRests DEF underWay, OthersRest, Update
<1>4. ASSUME NEW c \in Comps, NEW t \in TypesOf[c], NEW p \in Comps \cup {None}, Create(c, t, p)
      PROVE  EngineInv'
    <2>1. t \in CompTypes /\ <<t, c>> \in NodeSet
        BY NodesAreNodes
    <2>2. LiveComps \subseteq LiveComps'
        BY <1>4, <2>1 DEF Create, LiveComps, LinksTypeOK, CompTypes, HostTypes, GuestTypes
    <2>3. \A x \in Conts : parent'[Container(x)] = parent[Container(x)]
        <3>1. CASE p = None
            BY <1>4, <3>1 DEF Create
        <3>2. CASE p # None
            <4>1. p \in Comps /\ comps[p] \in CompTypes
                BY <1>4, <3>2 DEF Create, LinksTypeOK, LiveComps
            <4>2. CompNode(p) \in NodeSet
                BY <4>1, NodesAreNodes DEF CompNode
            <4> QED
                BY <1>4, <1>b, <2>1, <3>2, <4>2, ComponentsAreNotContainers, ContainersKept DEF Create, Tried
        <3> QED
            BY <3>1, <3>2
    <2> QED
        BY <1>4, <1>b, <2>2, <2>3, EngineRests DEF underWay, OthersRest, Create
<1>5. ASSUME NEW c \in Comps, Delete(c) PROVE EngineInv'
    <2> SUFFICES ASSUME NEW x \in Live(conts')
                 PROVE  /\ conts'[x].host \in LiveComps'
                        /\ upsert'[x].pc \in {"sync", "link"} => conts'[x].host = upsert'[x].on
                        /\ upsert'[x].pc = "idle" => parent'[Container(x)] = <<"docker_engine", conts'[x].host>>
        BY DEF EngineInv
    <2>1. x \in Live(conts) /\ conts'[x] = conts[x] /\ conts[x].host # c
        BY <1>5, <1>b DEF Delete, Live
    <2>2. conts[x].host \in LiveComps'
        BY <1>5, <2>1 DEF EngineInv, Delete, LiveComps, LinksTypeOK
    <2> QED
        BY <1>5, <2>1, <2>2 DEF Delete, underWay, EngineInv
<1>6. ASSUME NEW c \in Comps, NEW a \in Apps, LinkApp(c, a) PROVE EngineInv'
    <2>1. comps[c] \in CompTypes
        BY <1>6 DEF LinkApp, LinksTypeOK, LiveComps
    <2>2. CompNode(c) \in NodeSet /\ App(a) \in NodeSet
        BY <2>1, NodesAreNodes DEF CompNode
    <2>3. \A x \in Conts : parent'[Container(x)] = parent[Container(x)]
        BY <1>6, <1>b, <1>c, <2>2, KindsDiffer, SetParentSets DEF LinkApp
    <2> QED
        BY <1>6, <1>b, <2>3, EngineRests DEF underWay, OthersRest, LiveComps, LinkApp
<1>7. ASSUME NEW g \in Guests, NEW t \in GuestTypes, PollGuest(g) \/ DiscoverGuest(g, t)
      PROVE  EngineInv'
    <2>1. /\ <<t, g>> \in NodeSet /\ <<"vm_other", g>> \in NodeSet
          /\ <<"proxmox_node", GuestOf[g]>> \in NodeSet
          /\ t \in CompTypes /\ "vm_other" \in CompTypes
        BY NodesAreNodes DEF CompTypes, HostTypes, GuestTypes
    <2>2. LiveComps \subseteq LiveComps'
        BY <1>7, <2>1 DEF PollGuest, DiscoverGuest, LiveComps, LinksTypeOK, CompTypes, HostTypes, GuestTypes
    <2>3. \A x \in Conts : parent'[Container(x)] = parent[Container(x)]
        BY <1>7, <1>b, <2>1, ComponentsAreNotContainers, ContainersKept DEF PollGuest, DiscoverGuest, Tried
    <2> QED
        BY <1>7, <1>b, <2>2, <2>3, EngineRests DEF underWay, OthersRest, PollGuest, DiscoverGuest
<1>8. ASSUME NEW c \in Conts, DeleteContainer(c) PROVE EngineInv'
    <2>1. \A x \in Live(conts') : x \in Live(conts) /\ conts'[x] = conts[x]
        BY <1>8, <1>b DEF DeleteContainer, Live
    <2> QED
        BY <1>8, <2>1 DEF DeleteContainer, underWay, EngineInv, LiveComps
<1>9. ASSUME NEW c \in Conts, UnlinkContainer(c) PROVE EngineInv'
    <2>1. \A x \in Conts : conts'[x].state = conts[x].state /\ conts'[x].host = conts[x].host
        BY <1>9, <1>b DEF UnlinkContainer, Item
    <2> QED
        BY <1>9, <1>b, <2>1, EngineRests DEF OthersRest, LiveComps, UnlinkContainer
<1>10. ASSUME NEW c \in Conts, NEW e \in Comps, UpsertContainer(c, e) PROVE EngineInv'
    <2>1. e \in LiveComps' /\ LiveComps' = LiveComps
        BY <1>10 DEF UpsertContainer, LiveComps
    <2>2. conts'[c].host = e /\ \A x \in Conts \ {c} : conts'[x] = conts[x]
        BY <1>10, <1>b DEF UpsertContainer, Item
    <2>3. upsert'[c].pc = "sync" /\ upsert'[c].on = e /\ \A x \in Conts \ {c} : upsert'[x] = upsert[x]
        BY <1>10 DEF UpsertContainer, LinksTypeOK
    <2>4. \A x \in Live(conts') : x \in Conts /\ (x # c => x \in Live(conts))
        BY <1>b, <2>2 DEF Live
    <2> QED
        BY <1>10, <2>1, <2>2, <2>3, <2>4 DEF UpsertContainer, EngineInv
<1>s. ASSUME NEW c \in Conts, SyncContainer(c) PROVE EngineInv'
    <2>1. \A x \in Conts \ {c} : parent'[Container(x)] = parent[Container(x)]
        BY <1>s, <1>b, <1>c, KindsDiffer DEF SyncContainer, Tried, SetParent
    <2>2. upsert'[c].pc = "link" /\ upsert'[c].on = upsert[c].on /\ \A x \in Conts \ {c} : upsert'[x] = upsert[x]
        BY <1>s DEF SyncContainer, LinksTypeOK
    <2>3. conts' = conts /\ LiveComps' = LiveComps /\ \A x \in Live(conts) : x \in Conts
        BY <1>s, <1>b DEF SyncContainer, LiveComps, Live
    <2> QED
        BY <1>s, <2>1, <2>2, <2>3 DEF SyncContainer, EngineInv
<1>l. ASSUME NEW c \in Conts, LinkContainer(c) PROVE EngineInv'
    <2>1. upsert[c].pc = "link" /\ upsert[c].on \in Comps
        BY <1>l DEF LinkContainer, LinksTypeOK
    <2>2. PICK p \in NodeSet : p = <<"docker_engine", upsert[c].on>>
        BY <2>1, NodesAreNodes DEF CompTypes, HostTypes
    <2>3. conts' = conts /\ LiveComps' = LiveComps /\ \A x \in Live(conts) : x \in Conts
        BY <1>l, <1>b DEF LinkContainer, LiveComps, Live
    <2>4. CASE parent' = SetParent(parent, Container(c), p) /\ upsert' = [upsert EXCEPT ![c] = NoUpsert]
        <3>1. SetParent(parent, Container(c), p)[Container(c)] = p
            BY ONLY <1>b, <1>c, SetParentSets DEF Links
        <3>2. \A x \in Conts \ {c} : parent'[Container(x)] = parent[Container(x)]
            BY <1>b, <1>c, <2>4, KindsDiffer DEF SetParent
        <3>3. upsert'[c].pc = "idle" /\ \A x \in Conts \ {c} : upsert'[x] = upsert[x]
            BY <2>4 DEF NoUpsert, LinksTypeOK
        <3>4. parent'[Container(c)] = <<"docker_engine", upsert[c].on>>
            BY <2>2, <2>4, <3>1
        <3> QED
            BY <2>1, <2>3, <3>2, <3>3, <3>4 DEF EngineInv
    <2>5. CASE UNCHANGED parent /\ upsert' = [upsert EXCEPT ![c] = Off]
        <3>1. upsert'[c].pc = "off" /\ \A x \in Conts \ {c} : upsert'[x] = upsert[x]
            BY <2>5 DEF Off, LinksTypeOK
        <3> QED
            BY <1>b, <2>3, <2>5, <3>1, EngineRests DEF OthersRest
    <2> QED
        BY <1>l, <2>2, <2>4, <2>5 DEF LinkContainer
<1>p. ASSUME NEW l \in Posted, PostLink(l[1], l[2]) \/ DropLink(l[1]) PROVE EngineInv'
    <2>1. l[1] \in NodeSet /\ l[2] \in NodeSet
        OBVIOUS
    <2>2. \A x \in Conts : upsert'[x] = IF l[1] = Container(x) /\ upsert[x].pc = "idle" THEN Off ELSE upsert[x]
        BY <1>p DEF PostLink, DropLink, MovesUpsert
    <2>3. \A x \in Conts : upsert'[x].pc = "idle" => parent'[Container(x)] = parent[Container(x)]
        <3> SUFFICES ASSUME NEW x \in Conts, upsert'[x].pc = "idle"
                     PROVE  parent'[Container(x)] = parent[Container(x)]
            OBVIOUS
        <3>1. Container(x) # l[1]
            BY <2>2 DEF Off
        <3> QED
            BY <1>p, <1>b, <1>c, <3>1 DEF PostLink, DropLink, SetParent, RemoveParent
    <2>4. \A x \in Conts : upsert'[x] = upsert[x] \/ upsert'[x].pc = "off"
        BY <2>2 DEF Off
    <2> QED
        BY <1>p, <1>b, <2>3, <2>4, EngineRests DEF PostLink, DropLink, OthersRest, LiveComps
<1>c1. CASE CutLink
    <2>1. \A x \in Conts : App(cut) # Container(x)
        BY KindsDiffer
    <2>2. \A x \in Conts : parent'[Container(x)] = parent[Container(x)]
        BY <1>c1, <1>b, <1>c, <2>1 DEF CutLink, Tried, RemoveParent
    <2> QED
        BY <1>c1, <1>b, <2>2, EngineRests DEF CutLink, OthersRest, LiveComps
<1>r. CASE LinksRestart
    <2>1. \A x \in Conts : upsert'[x].pc = "off" \/ (upsert'[x].pc = "idle" /\ upsert[x].pc = "idle")
        BY <1>r DEF LinksRestart, NoUpsert, Off
    <2> QED
        BY <1>r, <1>b, <2>1, EngineRests DEF LinksRestart, OthersRest, LiveComps
<1>11. CASE RouteStep
    <2>1. UNCHANGED conts /\ UNCHANGED upsert /\ LiveComps' = LiveComps
        BY <1>11 DEF RouteStep, DiscoverRoute, UnlinkRoute, LinkSync, underWay, LiveComps
    <2>2. \A x \in Conts : parent'[Container(x)] = parent[Container(x)]
        BY <1>11, RouteStepRests
    <2> QED
        BY <1>b, <2>1, <2>2, EngineRests DEF OthersRest
<1>12. ASSUME NEW a \in Apps, NEW mode \in {"existing", "create"}, NEW item \in Items,
              LinkBegin(item, a, mode)
       PROVE  EngineInv'
    BY <1>12, <1>b, EngineRests DEF LinkBegin, underWay, OthersRest, LiveComps
<1>13. CASE LinkSet
    <2>1. req.app \in Apps
        BY <1>13 DEF LinkSet, LiveApps
    <2>2. \A x \in Conts : conts'[x].state = conts[x].state /\ conts'[x].host = conts[x].host
        BY <1>13, <1>b, <2>1 DEF LinkSet, Item
    <2> QED
        BY <1>13, <1>b, <2>2, EngineRests DEF LinkSet, underWay, OthersRest, LiveComps
<1>14. CASE LinkFails
    BY <1>14, <1>b, EngineRests DEF LinkFails, OthersRest, LiveComps
<1>u. CASE LinkUndo
    <2>1. \A x \in Conts : conts'[x].state = conts[x].state /\ conts'[x].host = conts[x].host
        BY <1>u, <1>b, ForgetForgets DEF LinkUndo, DropApp, LiveApps
    <2> QED
        BY <1>u, <1>b, <2>1, EngineRests DEF LinkUndo, OthersRest, LiveComps
<1>15. CASE LinkSync \/ LinkEnds
    <2>1. \A x \in Conts : App(req.app) # Container(x)
        BY KindsDiffer
    <2>2. \A x \in Conts : parent'[Container(x)] = parent[Container(x)]
        BY <1>15, <1>b, <1>c, <2>1 DEF LinkSync, LinkEnds, SetParent, IgnoreIfLinked
    <2> QED
        BY <1>15, <1>b, <2>2, EngineRests DEF LinkSync, LinkEnds, OthersRest, LiveComps
<1>16. ASSUME NEW m \in Monitors, DeleteCheck(m) PROVE EngineInv'
    BY <1>16, <1>b, EngineRests DEF DeleteCheck, underWay, OthersRest, LiveComps
<1>17. ASSUME NEW m \in Monitors, NEW a \in Apps \cup {None}, CreateCheck(m, a) PROVE EngineInv'
    <2>1. \A x \in Conts : parent'[Container(x)] = parent[Container(x)]
        BY <1>17, <1>b, <1>c, NodesAreNodes, KindsDiffer, IgnoreIfLinkedIgnores DEF CreateCheck, Tried
    <2> QED
        BY <1>17, <1>b, <2>1, EngineRests DEF CreateCheck, underWay, OthersRest, LiveComps
<1>18. ASSUME NEW m \in Monitors, NEW a \in Apps \cup {None}, UpdateCheck(m, a) PROVE EngineInv'
    <2>1. PICK f \in {parent, [n \in NodeSet |-> IF parent[n] = Monitor(m) THEN NoNode ELSE parent[n]]} :
            parent' \in {f} \cup IF a = None THEN {} ELSE {IgnoreIfLinked(f, App(a), Monitor(m))}
        BY <1>18 DEF UpdateCheck
    <2>2. \A x \in Conts : parent'[Container(x)] = f[Container(x)]
        <3>1. \A x \in Conts : App(a) # Container(x)
            BY KindsDiffer
        <3> QED
            BY <1>b, <1>c, <2>1, <3>1 DEF IgnoreIfLinked
    <2>3. conts' = conts /\ upsert' = upsert /\ LiveComps' = LiveComps /\ \A x \in Live(conts) : x \in Conts
        BY <1>18, <1>b DEF UpdateCheck, Live, LiveComps, underWay
    <2>4. \A x \in Live(conts) : upsert[x].pc = "idle" => f[Container(x)] = <<"docker_engine", conts[x].host>>
        <3> SUFFICES ASSUME NEW x \in Live(conts), upsert[x].pc = "idle"
                     PROVE  f[Container(x)] = <<"docker_engine", conts[x].host>>
            OBVIOUS
        <3>1. parent[Container(x)] = <<"docker_engine", conts[x].host>> /\ Container(x) \in NodeSet
            BY <1>c, <2>3 DEF EngineInv
        <3>2. parent[Container(x)] # Monitor(m)
            BY <3>1 DEF Monitor
        <3> QED
            BY <2>1, <3>1, <3>2
    <2> QED
        BY <2>2, <2>3, <2>4 DEF EngineInv
<1>19. ASSUME NEW g \in Guests, PollGuest(g) PROVE EngineInv'
    <2>1. "vm_other" \in GuestTypes
        BY DEF GuestTypes
    <2> QED
        BY <1>7, <1>19, <2>1
<1> QED
    BY <1>1, <1>2, <1>3, <1>4, <1>5, <1>6, <1>7, <1>8, <1>9, <1>10, <1>s, <1>l, <1>p, <1>c1, <1>r, <1>11,
       <1>12, <1>13, <1>14, <1>u, <1>15, <1>16, <1>17, <1>18, <1>19 DEF LinksNext, RouteStep

\* The link of a container whose last upsert is whole leads to the engine its row names, an
\* engine that exists, through every failure, edit, deletion and discovery of components,
\* apps, checks and routes.
THEOREM ContainersStayOnEngines == LinksSpec => []ContainerOnEngine
<1>1. LinksInit => EngineInv
    BY DEF LinksInit, EngineInv, Live, NewItem
<1>2. EngineInv => ContainerOnEngine
    BY DEF EngineInv, ContainerOnEngine
<1> QED
    BY <1>1, <1>2, LinksTypeCorrect, ContainerEngineStep, PTL DEF LinksSpec
=============================================================================

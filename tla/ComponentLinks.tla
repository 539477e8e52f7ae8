---------------------------- MODULE ComponentLinks ----------------------------
(***************************************************************************)
(* The table component_links, which says what runs on what, beside the     *)
(* tables whose rows it relates: apps, infrastructure_components,          *)
(* discovered_containers, discovered_routes and monitor_checks.  Rows are  *)
(* tied by foreign keys, links are not: they name a (type, id).  Users     *)
(* link and unlink, Docker, Traefik and Proxmox are discovered meanwhile.  *)
(* What links an item takes several statements, each of which may fail,    *)
(* for the database or because its request was given up; most failures     *)
(* are logged or passed over, and the process may end in between.          *)
(***************************************************************************)
EXTENDS Naturals, FiniteSets

CONSTANTS
    Apps, Comps, Conts, Routes, Monitors,   \* ids of rows; all but a guest's are fresh
    Guests,         \* the components that stand for a virtual machine
    GuestOf,        \* the component of the Proxmox node of each guest
    TypesOf,        \* bound: the types each component is given
    ParentsOf,      \* bound: the components a user files each component under
    Posted,         \* bound: the (child, parent) of the links users post and delete
    None

HostTypes  == {"proxmox_node", "docker_engine", "traefik"}
GuestTypes == {"vm_other", "vm_linux"}
CompTypes  == HostTypes \cup GuestTypes

NodeSet ==
    ({"app"} \X Apps) \cup ({"container"} \X Conts) \cup ({"traefik_route"} \X Routes)
    \cup ({"monitor"} \X Monitors) \cup (CompTypes \X Comps)
NoNode == <<"none", None>>

ASSUME LinkConstants ==
    /\ Guests \subseteq Comps
    /\ GuestOf \in [Guests -> Comps]
    /\ TypesOf \in [Comps -> SUBSET CompTypes]
    /\ ParentsOf \in [Comps -> SUBSET Comps]
    /\ Posted \subseteq NodeSet \X NodeSet
    /\ None \notin Apps \cup Comps \cup Conts \cup Routes \cup Monitors

VARIABLES
    apps,       \* apps: not yet created, stored, deleted
    comps,      \* the type of each component, "none" without a row
    conts,      \* discovered_containers: engine and app_id
    routes,     \* discovered_routes: Traefik component and app_id
    mons,       \* monitor_checks: app_id
    parent,     \* component_links: the parent of each (type, id)
    upsert,     \* of each container: the upsert of it that is under way
    cut,        \* the app of which an unlinking has yet to delete the link
    req         \* a request that is linking an item to an app

underWay  == <<upsert, cut, req>>
linksVars == <<apps, comps, conts, routes, mons, parent, upsert, cut, req>>

-----------------------------------------------------------------------------
App(a)       == <<"app", a>>
Container(c) == <<"container", c>>
Route(r)     == <<"traefik_route", r>>
Monitor(m)   == <<"monitor", m>>

\* A row of a kind that is found in, and tied to, others.
Item(Hosts) == [state : {"new", "live", "gone"}, host : Hosts \cup {None}, app : Apps \cup {None}]
NewItem     == [state |-> "new", host |-> None, app |-> None]

\* "off": the link is not what the last upsert was to make it, for a statement failed,
\* the process ended or a user posted another.
NoUpsert == [pc |-> "idle", on |-> None]
Off      == [pc |-> "off", on |-> None]

\* faults: statements of the request that failed, up to two; a request whose app someone
\* unlinks meanwhile, or that the process does not live to end, counts as one of two.
NoReq == [pc |-> "idle", mode |-> "existing", item |-> NoNode, app |-> None, faults |-> 0]
Answered(f) == [NoReq EXCEPT !.faults = f]
OneMore(f)  == IF f = 0 THEN 1 ELSE 2

LiveApps  == {a \in Apps : apps[a] = "live"}
LiveComps == {c \in Comps : comps[c] # "none"}
Live(t)   == {x \in DOMAIN t : t[x].state = "live"}

LinksInit ==
    /\ apps = [a \in Apps |-> "new"]
    /\ comps = [c \in Comps |-> "none"]
    /\ conts = [c \in Conts |-> NewItem]
    /\ routes = [r \in Routes |-> NewItem]
    /\ mons = [m \in Monitors |-> NewItem]
    /\ parent = [n \in NodeSet |-> NoNode]
    /\ upsert = [c \in Conts |-> NoUpsert]
    /\ cut = None
    /\ req = NoReq

-----------------------------------------------------------------------------
(* repo/links.go, and the statements of the other repositories on its table *)

SetParent(links, child, p) == [links EXCEPT ![child] = p]
RemoveParent(links, child) == [links EXCEPT ![child] = NoNode]

\* Mutated IgnoreIfLinked: the last parent wins, as in SetParent.
ReplaceParent(links, child, p) == [links EXCEPT ![child] = p]

\* INSERT OR IGNORE: a child that has a parent keeps it.
IgnoreIfLinked(links, child, p) ==
    [links EXCEPT ![child] = IF @ = NoNode THEN p ELSE @]

\* A statement whose error is logged or passed over.
Tried(links) == parent' \in {parent, links}

\* Someone unlinks n, which may be the app of a request that is under way.
Undoes(n) == req' = IF req.pc # "idle" /\ n = App(req.app) THEN [req EXCEPT !.faults = 2] ELSE req

\* The node of a component as its row has it now.
CompNode(c) == <<comps[c], c>>

-----------------------------------------------------------------------------
(* Apps *)

CreateApp(a) ==
    /\ apps[a] = "new"
    /\ apps' = [apps EXCEPT ![a] = "live"]
    /\ UNCHANGED <<comps, conts, routes, mons, parent>> /\ UNCHANGED underWay

\* Mutated Forget: the key of the column has no ON DELETE SET NULL.
ForgetNot(t, a) == t

\* ON DELETE SET NULL
Forget(t, a) == [x \in DOMAIN t |-> [t[x] EXCEPT !.app = IF @ = a THEN None ELSE @]]

\* The row goes, and with it what foreign keys point to it; its link stays.
DropApp(a) ==
    /\ apps' = [apps EXCEPT ![a] = "gone"]
    /\ conts' = Forget(conts, a)
    /\ routes' = Forget(routes, a)
    /\ mons' = Forget(mons, a)

DeleteApp(a) ==
    /\ a \in LiveApps
    /\ DropApp(a)
    /\ UNCHANGED <<comps, parent>> /\ UNCHANGED underWay

-----------------------------------------------------------------------------
(* Infrastructure components: infra_components.go, and the page that posts links *)

\* The parent a user names has to exist when the request is made.
Create(c, type, p) ==
    /\ comps[c] = "none" /\ c \notin Guests
    /\ p \in (ParentsOf[c] \cap LiveComps) \cup {None}
    /\ comps' = [comps EXCEPT ![c] = type]
    /\ IF p = None THEN UNCHANGED parent ELSE Tried(SetParent(parent, <<type, c>>, CompNode(p)))
    /\ UNCHANGED <<apps, conts, routes, mons>> /\ UNCHANGED underWay

\* parent_id is left out, names a component or is empty; a link is kept by type and id.
Update(c, type) ==
    /\ c \in LiveComps
    /\ comps' = [comps EXCEPT ![c] = type]
    /\ \/ UNCHANGED parent
       \/ \E p \in ParentsOf[c] \cap LiveComps :
            parent' = SetParent(parent, <<type, c>>, <<comps'[p], p>>)
       \/ parent' = RemoveParent(parent, <<type, c>>)
    /\ UNCHANGED <<apps, conts, routes, mons>> /\ UNCHANGED underWay

\* ON DELETE CASCADE takes the containers; routes have no key to their component.
Delete(c) ==
    /\ c \in LiveComps
    /\ comps' = [comps EXCEPT ![c] = "none"]
    /\ conts' = [x \in Conts |-> IF conts[x].host = c
                                 THEN [state |-> "gone", host |-> None, app |-> None]
                                 ELSE conts[x]]
    /\ UNCHANGED <<apps, routes, mons, parent>> /\ UNCHANGED underWay

LinkApp(c, a) ==
    /\ c \in LiveComps \ Guests /\ a \in LiveApps
    /\ parent' = SetParent(parent, App(a), CompNode(c))
    /\ UNCHANGED <<apps, comps, conts, routes, mons>> /\ UNCHANGED underWay

\* Whatever the app is linked to; its container goes on naming it.
UnlinkApp(a) ==
    /\ a \in LiveApps
    /\ parent' = RemoveParent(parent, App(a))
    /\ Undoes(App(a))
    /\ UNCHANGED <<apps, comps, conts, routes, mons, upsert, cut>>

\* api/links.go: whatever link a user posts or deletes, nothing is checked.
MovesUpsert(n) ==
    upsert' = [c \in Conts |-> IF n = Container(c) /\ upsert[c].pc = "idle" THEN Off ELSE upsert[c]]

PostLink(n, p) ==
    /\ parent' = SetParent(parent, n, p)
    /\ MovesUpsert(n) /\ Undoes(n)
    /\ UNCHANGED <<apps, comps, conts, routes, mons, cut>>
DropLink(n) ==
    /\ parent' = RemoveParent(parent, n)
    /\ MovesUpsert(n) /\ Undoes(n)
    /\ UNCHANGED <<apps, comps, conts, routes, mons, cut>>

-----------------------------------------------------------------------------
(* Proxmox: the poller and the discovery find the same guests *)

\* upsertChildren: a guest that has no row gets one, of a type that is a guess.
PollGuest(g) ==
    /\ comps[GuestOf[g]] = "proxmox_node"
    /\ comps[g] = "none"
    /\ comps' = [comps EXCEPT ![g] = "vm_other"]
    /\ Tried(SetParent(parent, <<"vm_other", g>>, <<"proxmox_node", GuestOf[g]>>))
    /\ UNCHANGED <<apps, conts, routes, mons>> /\ UNCHANGED underWay

\* ListByParent goes by the ids alone.
KnownGuests(n) ==
    {g \in LiveComps : \E t \in CompTypes : parent[<<t, g>>][2] = n}

\* Discover: of a guest it knows only the row is brought up to date; one it does not know
\* is created, which fails when the row is there.
DiscoverGuest(g, type) ==
    LET on == GuestOf[g] IN
    /\ comps[on] = "proxmox_node"
    /\ \/ /\ g \in KnownGuests(on)
          /\ UNCHANGED parent
       \/ /\ g \notin KnownGuests(on) /\ comps[g] = "none"
          /\ Tried(SetParent(parent, <<type, g>>, <<"proxmox_node", on>>))
    /\ comps' = [comps EXCEPT ![g] = type]
    /\ UNCHANGED <<apps, conts, routes, mons>> /\ UNCHANGED underWay

-----------------------------------------------------------------------------
(* Containers *)

\* UpsertDiscoveredContainer: the row, in which app_id is not written again.  Of a container
\* one upsert is under way at a time (a bound): others would write the same.
UpsertContainer(c, e) ==
    /\ comps[e] = "docker_engine"
    /\ upsert[c].pc \in {"idle", "off"}
    /\ conts[c].state = "new" \/ conts[c].host = e
    /\ conts[c].state # "gone"
    /\ conts' = [conts EXCEPT ![c] = [@ EXCEPT !.state = "live", !.host = e]]
    /\ upsert' = [upsert EXCEPT ![c] = [pc |-> "sync", on |-> e]]
    /\ UNCHANGED <<apps, comps, routes, mons, parent, cut, req>>

\* Its link, under the type the engine's row has now; with no row there is none.
SyncContainer(c) ==
    LET e == upsert[c].on IN
    /\ upsert[c].pc = "sync"
    /\ IF e \in LiveComps THEN Tried(SetParent(parent, Container(c), CompNode(e))) ELSE UNCHANGED parent
    /\ upsert' = [upsert EXCEPT ![c].pc = "link"]
    /\ UNCHANGED <<apps, comps, conts, routes, mons, cut, req>>

\* Mutated LinkContainer: the type is that of the row, as in SyncContainer.
LinkContainerTyped(c) ==
    LET e == upsert[c].on IN
    /\ upsert[c].pc = "link"
    /\ parent' = IF e \in LiveComps THEN SetParent(parent, Container(c), CompNode(e)) ELSE parent
    /\ upsert' = [upsert EXCEPT ![c] = NoUpsert]
    /\ UNCHANGED <<apps, comps, conts, routes, mons, cut, req>>

\* The SetParent of the discovery that follows.
LinkContainer(c) ==
    /\ upsert[c].pc = "link"
    /\ \/ /\ parent' = SetParent(parent, Container(c), <<"docker_engine", upsert[c].on>>)
          /\ upsert' = [upsert EXCEPT ![c] = NoUpsert]
       \/ UNCHANGED parent /\ upsert' = [upsert EXCEPT ![c] = Off]
    /\ UNCHANGED <<apps, comps, conts, routes, mons, cut, req>>

\* The row goes, the links to it and from it stay.
DeleteContainer(c) ==
    /\ c \in Live(conts)
    /\ conts' = [conts EXCEPT ![c] = [state |-> "gone", host |-> None, app |-> None]]
    /\ UNCHANGED <<apps, comps, routes, mons, parent>> /\ UNCHANGED underWay

\* UnlinkContainerApp: the row first, then the app's link, even one to another container.
\* One unlinking at a time (a bound); its two reads of app_id are one.
UnlinkContainer(c) ==
    /\ c \in Live(conts) /\ cut = None
    /\ conts' = [conts EXCEPT ![c].app = None]
    /\ cut' = conts[c].app
    /\ Undoes(App(cut'))
    /\ UNCHANGED <<apps, comps, routes, mons, parent, upsert>>

CutLink ==
    /\ cut # None
    /\ Tried(RemoveParent(parent, App(cut)))
    /\ Undoes(App(cut))
    /\ cut' = None
    /\ UNCHANGED <<apps, comps, conts, routes, mons, upsert>>

-----------------------------------------------------------------------------
(* Routes *)

\* One router of TraefikDiscovery.Run: it finds a container of the same name, or none.
DiscoverRoute(r, e, c) ==
    LET app == IF c = None THEN None ELSE conts[c].app IN
    /\ comps[e] = "traefik"
    /\ c \in Live(conts) \cup {None}
    /\ routes[r].state = "new" \/ routes[r].host = e
    /\ routes' = [routes EXCEPT ![r] = [state |-> "live", host |-> e,
                      app |-> IF routes[r].state = "new" THEN app ELSE routes[r].app]]
    /\ \E up \in {parent, IgnoreIfLinked(parent, Route(r), <<"traefik", e>>)} :
          parent' \in {up} \cup IF app = None THEN {} ELSE {IgnoreIfLinked(up, App(app), Route(r))}
    /\ UNCHANGED <<apps, comps, conts, mons>> /\ UNCHANGED underWay

\* ClearDiscoveredRouteApp: only a link that leads to this very route is deleted.
UnlinkRoute(r) ==
    LET a == routes[r].app IN
    /\ r \in Live(routes)
    /\ routes' = [routes EXCEPT ![r].app = None]
    /\ IF a # None /\ parent[App(a)] = Route(r)
       THEN Tried(RemoveParent(parent, App(a))) ELSE UNCHANGED parent
    /\ Undoes(App(a))
    /\ UNCHANGED <<apps, comps, conts, mons, upsert, cut>>

-----------------------------------------------------------------------------
(* LinkContainerApp and LinkRouteApp: the item and the app are looked up, or the app is   *)
(* created, the item is given the app, and the app its link.                              *)

Items == ({"container"} \X Live(conts)) \cup ({"traefik_route"} \X Live(routes))

LinkBegin(item, a, mode) ==
    /\ req.pc = "idle"
    /\ item \in Items
    /\ \/ mode = "existing" /\ a \in LiveApps /\ UNCHANGED apps
       \/ mode = "create" /\ apps[a] = "new" /\ apps' = [apps EXCEPT ![a] = "live"]
    /\ req' = [pc |-> "set", mode |-> mode, item |-> item, app |-> a, faults |-> 0]
    /\ UNCHANGED <<comps, conts, routes, mons, parent, upsert, cut>>

\* The UPDATE finds the row, and the key of its app_id holds.
LinkSet ==
    /\ req.pc = "set"
    /\ req.item \in Items /\ req.app \in LiveApps
    /\ \/ /\ req.item[1] = "container"
          /\ conts' = [conts EXCEPT ![req.item[2]].app = req.app]
          /\ UNCHANGED routes
       \/ /\ req.item[1] = "traefik_route"
          /\ routes' = [routes EXCEPT ![req.item[2]].app = req.app]
          /\ UNCHANGED conts
    /\ req' = [req EXCEPT !.pc = "sync"]
    /\ UNCHANGED <<apps, comps, mons, parent, upsert, cut>>

\* It does not, or fails: an app made for this request is to be deleted again.
LinkFails ==
    /\ req.pc = "set"
    /\ req' = IF req.mode = "create" THEN [req EXCEPT !.pc = "undo", !.faults = OneMore(@)]
              ELSE Answered(OneMore(req.faults))
    /\ UNCHANGED <<apps, comps, conts, routes, mons, parent, upsert, cut>>

\* Mutated LinkUndo: the app is left behind.
LinkUndoKeep ==
    /\ req.pc = "undo"
    /\ req' = Answered(req.faults)
    /\ UNCHANGED <<apps, comps, conts, routes, mons, parent, upsert, cut>>

\* "Best-effort rollback": a delete that fails is only logged.
LinkUndo ==
    /\ req.pc = "undo"
    /\ \/ /\ IF req.app \in LiveApps THEN DropApp(req.app) ELSE UNCHANGED <<apps, conts, routes, mons>>
          /\ req' = Answered(req.faults)
       \/ UNCHANGED <<apps, conts, routes, mons>> /\ req' = Answered(OneMore(req.faults))
    /\ UNCHANGED <<comps, parent, upsert, cut>>

\* The repository's own link, whose error is passed over: a container takes the app over,
\* a route only an app that has no parent, and the request is answered.
LinkSync ==
    LET to == IF req.item[1] = "container" THEN SetParent(parent, App(req.app), req.item)
              ELSE IgnoreIfLinked(parent, App(req.app), req.item)
        next(f) == IF req.item[1] = "container" THEN [req EXCEPT !.pc = "link", !.faults = f]
                   ELSE Answered(f) IN
    /\ req.pc = "sync"
    /\ \/ parent' = to /\ req' = next(req.faults)
       \/ UNCHANGED parent /\ req' = next(OneMore(req.faults))
    /\ UNCHANGED <<apps, comps, conts, routes, mons, upsert, cut>>

\* The same link of a container once more, by its handler; then EnrichAppOnLink, which may
\* create a check of the app (CreateCheck).
LinkEnds ==
    /\ req.pc = "link"
    /\ \/ parent' = SetParent(parent, App(req.app), req.item) /\ req' = Answered(req.faults)
       \/ UNCHANGED parent /\ req' = Answered(OneMore(req.faults))
    /\ UNCHANGED <<apps, comps, conts, routes, mons, upsert, cut>>

-----------------------------------------------------------------------------
(* repo/checks.go: a check of an app is a parent of last resort *)

CreateCheck(m, a) ==
    /\ mons[m].state = "new" /\ a \in LiveApps \cup {None}
    /\ mons' = [mons EXCEPT ![m] = [@ EXCEPT !.state = "live", !.app = a]]
    /\ IF a = None THEN UNCHANGED parent ELSE Tried(IgnoreIfLinked(parent, App(a), Monitor(m)))
    /\ UNCHANGED <<apps, comps, conts, routes>> /\ UNCHANGED underWay

\* The children of the check go first.
UpdateCheck(m, a) ==
    LET freed == [n \in NodeSet |-> IF parent[n] = Monitor(m) THEN NoNode ELSE parent[n]] IN
    /\ m \in Live(mons) /\ a \in LiveApps \cup {None}
    /\ mons' = [mons EXCEPT ![m].app = a]
    /\ \E f \in {parent, freed} :
          parent' \in {f} \cup IF a = None THEN {} ELSE {IgnoreIfLinked(f, App(a), Monitor(m))}
    /\ UNCHANGED <<apps, comps, conts, routes>> /\ UNCHANGED underWay

DeleteCheck(m) ==
    /\ m \in Live(mons)
    /\ mons' = [mons EXCEPT ![m] = [NewItem EXCEPT !.state = "gone"]]
    /\ UNCHANGED <<apps, comps, conts, routes, parent>> /\ UNCHANGED underWay

-----------------------------------------------------------------------------
\* The process ends: what was under way stays half done.
LinksRestart ==
    /\ upsert' = [c \in Conts |-> IF upsert[c].pc = "idle" THEN NoUpsert ELSE Off]
    /\ cut' = None
    /\ req' = Answered(2)
    /\ UNCHANGED <<apps, comps, conts, routes, mons, parent>>

\* What finds or ties routes, on its own or on request.
RouteStep ==
    \/ \E r \in Routes, e \in Comps, c \in Conts \cup {None} : DiscoverRoute(r, e, c)
    \/ \E r \in Routes : UnlinkRoute(r)
    \/ req.item[1] = "traefik_route" /\ LinkSync

LinksNext ==
    \/ \E a \in Apps : CreateApp(a) \/ DeleteApp(a) \/ UnlinkApp(a)
    \/ \E c \in Comps : \E t \in TypesOf[c] :
        Update(c, t) \/ \E p \in Comps \cup {None} : Create(c, t, p)
    \/ \E c \in Comps : Delete(c) \/ \E a \in Apps : LinkApp(c, a)
    \/ \E l \in Posted : PostLink(l[1], l[2]) \/ DropLink(l[1])
    \/ \E g \in Guests : PollGuest(g) \/ \E t \in GuestTypes : DiscoverGuest(g, t)
    \/ \E c \in Conts : \/ DeleteContainer(c) \/ UnlinkContainer(c)
                        \/ SyncContainer(c) \/ LinkContainer(c)
                        \/ \E e \in Comps : UpsertContainer(c, e)
    \/ CutLink
    \/ RouteStep
    \/ \E a \in Apps, mode \in {"existing", "create"} : \E item \in Items : LinkBegin(item, a, mode)
    \/ LinkSet \/ LinkFails \/ LinkUndo \/ LinkEnds
    \/ req.item[1] = "container" /\ LinkSync
    \/ \E m \in Monitors : DeleteCheck(m)
        \/ \E a \in Apps \cup {None} : CreateCheck(m, a) \/ UpdateCheck(m, a)
    \/ LinksRestart

LinksSpec == LinksInit /\ [][LinksNext]_linksVars

-----------------------------------------------------------------------------
(* Properties *)

\* Links only name rows by their types and ids, and items the tables they are in.
LinksTypeOK ==
    /\ apps \in [Apps -> {"new", "live", "gone"}]
    /\ comps \in [Comps -> CompTypes \cup {"none"}]
    /\ conts \in [Conts -> Item(Comps)]
    /\ routes \in [Routes -> Item(Comps)]
    /\ mons \in [Monitors -> Item({})]
    /\ parent \in [NodeSet -> NodeSet \cup {NoNode}]
    /\ upsert \in [Conts -> [pc : {"idle", "off", "sync", "link"}, on : Comps \cup {None}]]
    /\ \A c \in Conts : upsert[c].pc \in {"sync", "link"} => upsert[c].on \in Comps
    /\ cut \in Apps \cup {None}
    /\ req \in {Answered(f) : f \in 0 .. 2}
               \cup [pc : {"set", "undo", "sync", "link"}, mode : {"existing", "create"},
                      item : NodeSet, app : Apps, faults : 0 .. 2]

\* An app_id never outlives its app, whatever request was under way when it was deleted.
AppRefsLive ==
    /\ \A c \in Conts : conts[c].app \in LiveApps \cup {None}
    /\ \A r \in Routes : routes[r].app \in LiveApps \cup {None}
    /\ \A m \in Monitors : mons[m].app \in LiveApps \cup {None}

\* A container whose last upsert ran to its end, with no failed statement, and that no user
\* moved since, is linked to the engine its row names, which exists, whatever was retyped,
\* unlinked or deleted meanwhile: the chain of an app and the topology, which go by the one
\* and the other, agree.  A failed upsert or a posted link is set right by the next upsert.
ContainerOnEngine ==
    \A c \in Live(conts) :
        upsert[c].pc = "idle" => /\ conts[c].host \in LiveComps
                                 /\ parent[Container(c)] = <<"docker_engine", conts[c].host>>

\* What finds or ties routes never takes an app from a parent that is not a route.
RoutesYield ==
    [][\A a \in Apps :
        (/\ parent[App(a)] \notin ({"traefik_route"} \X Routes) \cup {NoNode}
         /\ parent'[App(a)] # parent[App(a)])
            => ~RouteStep]_linksVars

\* An app is tied if it has a parent, or an item names it.
Tied(a) == \/ parent[App(a)] # NoNode
           \/ \E c \in Conts : conts[c].app = a
           \/ \E r \in Routes : routes[r].app = a

\* One failed statement leaves no stray app: a request that makes an app for an item and of
\* which at most one statement failed is answered with the app deleted again or tied, even
\* if the item went meanwhile.  It takes two, as when the request is given up before the
\* UPDATE, whose rollback then fails too ("best-effort"), or the end of the process, or
\* someone who unlinks the new app before the answer.
NoStrayApp ==
    [][\A a \in Apps :
        (req.pc # "idle" /\ req.mode = "create" /\ req.app = a /\ req'.pc = "idle" /\ req'.faults < 2)
            => (apps'[a] = "live" => Tied(a)')]_linksVars
=============================================================================

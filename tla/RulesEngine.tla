----------------------------- MODULE RulesEngine -----------------------------
(***************************************************************************)
(* The rules engine of internal/rules (its cache of the enabled rules, the *)
(* mutex around it, the evaluation of an event), the event repository that *)
(* starts an evaluation for every stored event, and the rule handlers of   *)
(* internal/api/rules.go that write the table and drop the cache by hand.  *)
(***************************************************************************)
EXTENDS Naturals, FiniteSets

CONSTANTS
    Rules,       \* ids an alert_rules row may be given
    Events,      \* events that may be stored
    Kinds,       \* what a gate and its conditions can tell apart about an event
    Handlers,    \* rule requests that may be in flight at once
    Paths,       \* event repositories in use: {"notifying"}, or "plain" with it
    LoadMayFail, \* TRUE: the query of an evaluation may fail
    WriteMayFail,\* TRUE: a statement of a rule handler may fail
    NoRule, NoOne, Unjudged

ASSUME EngineConstants ==
    /\ Paths \subseteq {"notifying", "plain"}
    /\ LoadMayFail \in BOOLEAN /\ WriteMayFail \in BOOLEAN
    /\ NoRule \notin Rules
    /\ NoOne \notin Events
    /\ Kinds # {}

VARIABLES
    rules,     \* the alert_rules table
    cache,     \* cachedRules, and whether cacheExpiry lies ahead
    lock,      \* the evaluation that holds Engine.mu across a load
    event,     \* the stored events and their evaluations
    fired,     \* <<rule, event>>: deliveries dispatched
    req        \* rule requests

engineVars == <<rules, cache, lock, event, fired, req>>

Row    == [life : {"unborn", "stored", "gone"}, enabled : BOOLEAN, kinds : SUBSET Kinds]
Blank  == [life |-> "unborn", enabled |-> FALSE, kinds |-> {}]
Listed == [rule : Rules, kinds : SUBSET Kinds]

CacheType == [valid : BOOLEAN, list : SUBSET Listed]
EventType == [kind : Kinds,
              pc : {"none", "stored", "start", "load", "fill", "judge", "judged", "dropped"},
              list : (SUBSET Listed) \cup {Unjudged}]
ReqType   == [op : {"none", "create", "update", "toggle", "delete"},
              pc : {"idle", "write", "reread", "invalidate"},
              rule : Rules \cup {NoRule}, copy : Row]

\* An evaluation between taking the mutex and giving it back.
Loading == {"load", "fill"}

Stored(r) == rules[r].life = "stored"

\* ListEnabled
EnabledIn(tab) == {[rule |-> r, kinds |-> tab[r].kinds] :
                      r \in {s \in Rules : tab[s].life = "stored" /\ tab[s].enabled}}

Loads  == IF LoadMayFail THEN BOOLEAN ELSE {TRUE}
Writes == IF WriteMayFail THEN BOOLEAN ELSE {TRUE}

NoEvent == [kind |-> CHOOSE k \in Kinds : TRUE, pc |-> "none", list |-> Unjudged]
IdleReq == [op |-> "none", pc |-> "idle", rule |-> NoRule, copy |-> Blank]

-----------------------------------------------------------------------------
Init ==
    /\ rules \in [Rules -> {Blank} \cup {r \in Row : r.life = "stored"}]
    /\ cache = [valid |-> FALSE, list |-> {}]
    /\ lock = NoOne
    /\ event = [e \in Events |-> NoEvent]
    /\ fired = {}
    /\ req = [h \in Handlers |-> IdleReq]

\* EventRepo.Create: the wrapper starts Evaluate in a goroutine, the plain
\* repository only stores.
StoreEvent(e, k, path) ==
    /\ path \in Paths
    /\ event[e].pc = "none"
    /\ event' = [event EXCEPT ![e].kind = k,
                              ![e].pc = IF path = "notifying" THEN "start" ELSE "stored"]
    /\ UNCHANGED <<rules, cache, lock, fired, req>>

\* enabledRules with a cache that has not expired.
UseCache(e) ==
    /\ event[e].pc = "start" /\ lock = NoOne
    /\ cache.valid
    /\ event' = [event EXCEPT ![e].pc = "judge", ![e].list = cache.list]
    /\ UNCHANGED <<rules, cache, lock, fired, req>>

\* enabledRules takes the mutex and keeps it while it asks the database ...
StartLoad(e) ==
    /\ event[e].pc = "start" /\ lock = NoOne
    /\ ~cache.valid
    /\ lock' = e
    /\ event' = [event EXCEPT ![e].pc = "load"]
    /\ UNCHANGED <<rules, cache, fired, req>>

\* Mutated ListEnabled: the mutex is not released when the query fails.
ListKeepsMutex(e) ==
    /\ event[e].pc = "load"
    /\ \E ok \in Loads :
        event' = IF ok THEN [event EXCEPT ![e].pc = "fill", ![e].list = EnabledIn(rules)]
                 ELSE [event EXCEPT ![e].pc = "dropped"]
    /\ UNCHANGED <<rules, cache, lock, fired, req>>

\* ... which answers or fails; a failure ends the evaluation ...
ListEnabled(e) ==
    /\ event[e].pc = "load"
    /\ \E ok \in Loads :
        IF ok THEN /\ event' = [event EXCEPT ![e].pc = "fill", ![e].list = EnabledIn(rules)]
                   /\ UNCHANGED lock
        ELSE /\ event' = [event EXCEPT ![e].pc = "dropped"]
             /\ lock' = NoOne
    /\ UNCHANGED <<rules, cache, fired, req>>

\* Mutated FillCache: the mutex is not released after a load.
FillKeepsMutex(e) ==
    /\ event[e].pc = "fill"
    /\ cache' = [valid |-> TRUE, list |-> event[e].list]
    /\ event' = [event EXCEPT ![e].pc = "judge"]
    /\ UNCHANGED <<rules, lock, fired, req>>

\* ... and until it has stored the answer.
FillCache(e) ==
    /\ event[e].pc = "fill"
    /\ cache' = [valid |-> TRUE, list |-> event[e].list]
    /\ lock' = NoOne
    /\ event' = [event EXCEPT ![e].pc = "judge"]
    /\ UNCHANGED <<rules, fired, req>>

\* Evaluate: the deliveries of every rule in its list that lets the event through.
Matching(e) == {x.rule : x \in {y \in event[e].list : event[e].kind \in y.kinds}}

Dispatch(e) ==
    /\ event[e].pc = "judge"
    /\ fired' = fired \cup {<<r, e>> : r \in Matching(e)}
    /\ event' = [event EXCEPT ![e].pc = "judged"]
    /\ UNCHANGED <<rules, cache, lock, req>>

\* Thirty seconds have passed.
Expire ==
    /\ cache.valid
    /\ cache' = [cache EXCEPT !.valid = FALSE]
    /\ UNCHANGED <<rules, lock, event, fired, req>>

-----------------------------------------------------------------------------
\* Create: INSERT, then the repository reads the row back.
Create(h, r, enabled, kinds) ==
    /\ req[h] = IdleReq
    /\ rules[r].life = "unborn"
    /\ rules' = [rules EXCEPT ![r] = [life |-> "stored", enabled |-> enabled, kinds |-> kinds]]
    /\ req' = [req EXCEPT ![h] = [IdleReq EXCEPT !.op = "create", !.pc = "reread", !.rule = r]]
    /\ UNCHANGED <<cache, lock, event, fired>>

\* The Get of Update, Toggle and Delete.
Get(h, op, r) ==
    /\ req[h] = IdleReq
    /\ Stored(r)
    /\ req' = [req EXCEPT ![h] = [op |-> op, pc |-> "write", rule |-> r, copy |-> rules[r]]]
    /\ UNCHANGED <<rules, cache, lock, event, fired>>

\* What the request makes of the row it read: a PUT replaces what it names, a
\* toggle flips the flag and carries the rest along.
Merged(h) ==
    {m \in Row : /\ m.life = req[h].copy.life
                 /\ req[h].op = "toggle" => m = [req[h].copy EXCEPT !.enabled = ~@]}

\* UPDATE by id, which a missing row does not make fail.
Write(h) ==
    /\ req[h].op \in {"update", "toggle"} /\ req[h].pc = "write"
    /\ \E m \in Merged(h), ok \in Writes, r \in {req[h].rule} :
        /\ rules' = IF ok /\ Stored(r) THEN [rules EXCEPT ![r] = m] ELSE rules
        /\ req' = IF ok THEN [req EXCEPT ![h].pc = "reread"]
                  ELSE [req EXCEPT ![h] = IdleReq]
    /\ UNCHANGED <<cache, lock, event, fired>>

\* Mutated Reread: the handler answers without dropping the cache.
RereadAnswers(h) ==
    /\ req[h].pc = "reread"
    /\ req' = [req EXCEPT ![h] = IdleReq]
    /\ UNCHANGED <<rules, cache, lock, event, fired>>

\* The row read back by the repository; without it the handler gives up before it
\* has dropped the cache.
Reread(h) ==
    /\ req[h].pc = "reread"
    /\ \E ok \in Writes :
        req' = IF ok /\ Stored(req[h].rule) THEN [req EXCEPT ![h].pc = "invalidate"]
               ELSE [req EXCEPT ![h] = IdleReq]
    /\ UNCHANGED <<rules, cache, lock, event, fired>>

Delete(h) ==
    /\ req[h].op = "delete" /\ req[h].pc = "write"
    /\ \E ok \in Writes, r \in {req[h].rule} :
        /\ rules' = IF ok THEN [rules EXCEPT ![r] = [Blank EXCEPT !.life = "gone"]] ELSE rules
        /\ req' = IF ok THEN [req EXCEPT ![h].pc = "invalidate"]
                  ELSE [req EXCEPT ![h] = IdleReq]
    /\ UNCHANGED <<cache, lock, event, fired>>

\* Mutated Invalidate: it does not wait for the mutex.
InvalidateAtOnce(h) ==
    /\ req[h].pc = "invalidate"
    /\ cache' = [cache EXCEPT !.valid = FALSE]
    /\ req' = [req EXCEPT ![h] = IdleReq]
    /\ UNCHANGED <<rules, lock, event, fired>>

\* InvalidateCache waits for the mutex; then the handler answers.
Invalidate(h) ==
    /\ req[h].pc = "invalidate"
    /\ lock = NoOne
    /\ cache' = [cache EXCEPT !.valid = FALSE]
    /\ req' = [req EXCEPT ![h] = IdleReq]
    /\ UNCHANGED <<rules, lock, event, fired>>

-----------------------------------------------------------------------------
Evaluate(e) ==
    UseCache(e) \/ StartLoad(e) \/ ListEnabled(e) \/ FillCache(e) \/ Dispatch(e)

Finish(h) == Write(h) \/ Reread(h) \/ Delete(h) \/ Invalidate(h)

Arrive(h) ==
    \E r \in Rules :
        \/ \E b \in BOOLEAN, ks \in SUBSET Kinds : Create(h, r, b, ks)
        \/ \E op \in {"update", "toggle", "delete"} : Get(h, op, r)

Next ==
    \/ \E e \in Events : Evaluate(e) \/ \E k \in Kinds, p \in Paths : StoreEvent(e, k, p)
    \/ Expire
    \/ \E h \in Handlers : Arrive(h) \/ Finish(h)

Spec == Init /\ [][Next]_engineVars

\* Goroutines run; a mutex that is released again and again is got in the end.
Fairness ==
    /\ \A e \in Events : /\ SF_engineVars(UseCache(e)) /\ SF_engineVars(StartLoad(e))
                         /\ WF_engineVars(ListEnabled(e)) /\ WF_engineVars(FillCache(e))
                         /\ WF_engineVars(Dispatch(e))
    /\ \A h \in Handlers : /\ WF_engineVars(Write(h)) /\ WF_engineVars(Reread(h))
                           /\ WF_engineVars(Delete(h)) /\ SF_engineVars(Invalidate(h))
    /\ WF_engineVars(Expire)

FairSpec == Spec /\ Fairness

-----------------------------------------------------------------------------
(* Properties *)

\* Every variable stays in its set; the mutex is held exactly by an evaluation
\* that is loading (engine.go enabledRules holds mu across ListEnabled).
TypeOK ==
    /\ rules \in [Rules -> Row]
    /\ cache \in CacheType
    /\ lock \in Events \cup {NoOne}
    /\ event \in [Events -> EventType]
    /\ fired \subseteq Rules \X Events
    /\ req \in [Handlers -> ReqType]
    /\ \A e \in Events :
        /\ lock = e <=> event[e].pc \in Loading
        /\ event[e].pc \in {"fill", "judge", "judged"} => event[e].list \subseteq Listed

\* A handler at work on a change it has written and not yet announced.
Open(h) == req[h].pc \in {"reread", "invalidate"}

\* Once every handler that changed a rule has answered, a cache that is in use
\* holds the enabled rules: a load that began before the change cannot put the
\* old rules back (engine.go:77-92 keeps the mutex across the query).
CacheIsFresh ==
    cache.valid /\ (\A h \in Handlers : ~Open(h)) => cache.list = EnabledIn(rules)

\* The rules events are judged by now: the cache, or the list a load is about to
\* put there, or what the table says.
Loaded == {event[e].list : e \in {x \in Events : event[x].pc = "fill"}}
InUse  == IF cache.valid THEN cache.list
          ELSE IF Loaded # {} THEN CHOOSE l \in Loaded : TRUE
          ELSE EnabledIn(rules)
JudgedBy == [e \in Events |-> IF event[e].pc \in {"fill", "judge", "judged"}
                              THEN event[e].list ELSE Unjudged]

Book == INSTANCE RuleBook WITH
    Tables <- [Rules -> Row], InForce <- EnabledIn,
    table <- rules, seen <- InUse, judged <- JudgedBy,
    open <- {h \in Handlers : Open(h)}

\* The engine with its cache, its mutex and its handlers keeps the promise of
\* RuleBook: whatever is judged after the handlers have answered is judged by
\* the rules as stored.
KeepsBook == Book!Spec

\* Every stored event is evaluated, or its load failed: no evaluation waits for
\* ever, and none is forgotten ("All existing call sites ... automatically trigger
\* rule evaluation", main.go:132-134).
EventsEvaluated ==
    \A e \in Events :
        event[e].pc # "none" ~> event[e].pc \in {"judged", "dropped"}

\* A handler that changes a rule answers, whatever the evaluations do with the
\* mutex and however their loads fail.
RequestsEnd == \A h \in Handlers : req[h].pc = "reread" ~> req[h] = IdleReq
=============================================================================

--------------------------- MODULE RulesEngineProofs ---------------------------
(***************************************************************************)
(* Proofs about RulesEngine, for every set of rules, events and handlers.  *)
(***************************************************************************)
EXTENDS RulesEngine, TLAPS

LEMMA ConstantTypes ==
    /\ Blank \in Row
    /\ NoEvent.kind \in Kinds /\ NoEvent.pc = "none" /\ NoEvent.list = Unjudged
  BY EngineConstants DEF Blank, Row, NoEvent

LEMMA EnabledType == TypeOK => EnabledIn(rules) \subseteq Listed
<1> SUFFICES ASSUME TypeOK, NEW r \in Rules PROVE rules[r].kinds \subseteq Kinds
  BY DEF EnabledIn, Listed
<1> QED BY DEF TypeOK, Row

LEMMA InitTypeOK == Init => TypeOK
<1> SUFFICES ASSUME Init PROVE TypeOK
  OBVIOUS
<1>1. rules \in [Rules -> Row]
  BY ConstantTypes DEF Init
<1>2. NoEvent \in EventType
  BY EngineConstants DEF NoEvent, EventType
<1>3. event \in [Events -> EventType] /\ \A e \in Events : event[e].pc = "none"
  BY <1>2, ConstantTypes DEF Init
<1>4. IdleReq \in ReqType
  BY ConstantTypes DEF IdleReq, ReqType
<1>5. req \in [Handlers -> ReqType]
  BY <1>4 DEF Init
<1>6. cache \in CacheType /\ lock = NoOne /\ fired \subseteq Rules \X Events
  BY DEF Init, CacheType
<1>7. \A e \in Events : lock # e
  BY EngineConstants, <1>6
<1> QED BY <1>1, <1>3, <1>5, <1>6, <1>7 DEF TypeOK, Loading

\* A step that gives one event a new value.
LEMMA EventStep ==
    ASSUME TypeOK, NEW e \in Events, NEW x \in EventType,
           event' = [event EXCEPT ![e] = x],
           rules' = rules, req' = req,
           cache' \in CacheType,
           fired' \subseteq Rules \X Events,
           x.pc \in {"fill", "judge", "judged"} => x.list \subseteq Listed,
           \/ lock' = lock /\ (event[e].pc \in Loading <=> x.pc \in Loading)
           \/ lock' = e /\ lock = NoOne /\ x.pc \in Loading
           \/ lock' = NoOne /\ event[e].pc \in Loading /\ x.pc \notin Loading
    PROVE  TypeOK'
<1>1. event' \in [Events -> EventType]
  BY DEF TypeOK
<1>2. \A d \in Events : d # e => event'[d] = event[d]
  BY DEF TypeOK
<1>3. event'[e] = x
  BY DEF TypeOK
<1>4. \A d \in Events : lock' = d <=> event'[d].pc \in Loading
  BY <1>2, <1>3, EngineConstants DEF TypeOK
<1>5. lock' \in Events \cup {NoOne}
  BY DEF TypeOK
<1>6. \A d \in Events :
        event'[d].pc \in {"fill", "judge", "judged"} => event'[d].list \subseteq Listed
  BY <1>2, <1>3 DEF TypeOK
<1> QED BY <1>1, <1>4, <1>5, <1>6 DEF TypeOK

\* A step that gives one request a new value and leaves the events alone.
LEMMA ReqStep ==
    ASSUME TypeOK, NEW h \in Handlers, NEW q \in ReqType,
           req' = [req EXCEPT ![h] = q],
           rules' \in [Rules -> Row],
           cache' \in CacheType,
           UNCHANGED <<lock, event, fired>>
    PROVE  TypeOK'
<1>1. req' \in [Handlers -> ReqType]
  BY DEF TypeOK
<1> QED BY <1>1 DEF TypeOK

LEMMA StoreEventTypeOK ==
    ASSUME TypeOK, NEW e \in Events, NEW k \in Kinds, NEW p \in Paths, StoreEvent(e, k, p)
    PROVE  TypeOK'
<1> DEFINE x == [event[e] EXCEPT !.kind = k,
                                 !.pc = IF p = "notifying" THEN "start" ELSE "stored"]
<1>1. x \in EventType /\ x.pc \in {"start", "stored"}
  BY DEF TypeOK, EventType
<1>2. event' = [event EXCEPT ![e] = x]
  BY DEF StoreEvent
<1>3. event[e].pc \notin Loading /\ x.pc \notin Loading
  BY <1>1 DEF StoreEvent, Loading
<1>4. UNCHANGED <<rules, cache, lock, fired, req>>
  BY DEF StoreEvent
<1> HIDE DEF x
<1>5. cache' \in CacheType /\ fired' \subseteq Rules \X Events
  BY <1>4 DEF TypeOK
<1> QED BY <1>1, <1>2, <1>3, <1>4, <1>5, EventStep

LEMMA EvaluateTypeOK ==
    ASSUME TypeOK, NEW e \in Events, Evaluate(e) PROVE TypeOK'
<1>a. event[e] \in EventType
  BY DEF TypeOK
<1>b. cache \in CacheType /\ fired \subseteq Rules \X Events
  BY DEF TypeOK
<1>1. CASE UseCache(e)
  <2> DEFINE x == [event[e] EXCEPT !.pc = "judge", !.list = cache.list]
  <2>1. x \in EventType /\ x.pc = "judge" /\ x.list \subseteq Listed
    BY <1>a, <1>b DEF EventType, CacheType
  <2>2. event' = [event EXCEPT ![e] = x] /\ event[e].pc = "start"
    BY <1>1 DEF UseCache
  <2>3. UNCHANGED <<rules, cache, lock, fired, req>>
    BY <1>1 DEF UseCache
  <2> HIDE DEF x
  <2> QED BY <1>b, <2>1, <2>2, <2>3, EventStep DEF Loading
<1>2. CASE StartLoad(e)
  <2> DEFINE x == [event[e] EXCEPT !.pc = "load"]
  <2>1. x \in EventType /\ x.pc = "load"
    BY <1>a DEF EventType
  <2>2. event' = [event EXCEPT ![e] = x]
    BY <1>2 DEF StartLoad
  <2>3. UNCHANGED <<rules, cache, fired, req>> /\ lock = NoOne /\ lock' = e
    BY <1>2 DEF StartLoad
  <2> HIDE DEF x
  <2> QED BY <1>b, <2>1, <2>2, <2>3, EventStep DEF Loading
<1>3. CASE ListEnabled(e)
  <2> DEFINE x == [event[e] EXCEPT !.pc = "fill", !.list = EnabledIn(rules)]
  <2> DEFINE y == [event[e] EXCEPT !.pc = "dropped"]
  <2>1. x \in EventType /\ x.pc = "fill" /\ x.list \subseteq Listed
    BY <1>a, EnabledType DEF EventType
  <2>2. y \in EventType /\ y.pc = "dropped"
    BY <1>a DEF EventType
  <2>3. \/ event' = [event EXCEPT ![e] = x] /\ lock' = lock
        \/ event' = [event EXCEPT ![e] = y] /\ lock' = NoOne
    BY <1>3 DEF ListEnabled
  <2>4. UNCHANGED <<rules, cache, fired, req>> /\ event[e].pc = "load"
    BY <1>3 DEF ListEnabled
  <2> HIDE DEF x, y
  <2>5. CASE event' = [event EXCEPT ![e] = x] /\ lock' = lock
    BY <1>b, <2>1, <2>4, <2>5, EventStep DEF Loading
  <2>6. CASE event' = [event EXCEPT ![e] = y] /\ lock' = NoOne
    BY <1>b, <2>2, <2>4, <2>6, EventStep DEF Loading
  <2> QED BY <2>3, <2>5, <2>6
<1>4. CASE FillCache(e)
  <2> DEFINE x == [event[e] EXCEPT !.pc = "judge"]
  <2>1. event[e].pc = "fill" /\ event[e].list \subseteq Listed
    BY <1>4 DEF FillCache, TypeOK
  <2>2. x \in EventType /\ x.pc = "judge" /\ x.list \subseteq Listed
    BY <1>a, <2>1 DEF EventType
  <2>3. event' = [event EXCEPT ![e] = x]
    BY <1>4 DEF FillCache
  <2>4. cache' \in CacheType
    BY <1>4, <2>1 DEF FillCache, CacheType
  <2>5. UNCHANGED <<rules, fired, req>> /\ lock' = NoOne
    BY <1>4 DEF FillCache
  <2> HIDE DEF x
  <2> QED BY <1>b, <2>1, <2>2, <2>3, <2>4, <2>5, EventStep DEF Loading
<1>5. CASE Dispatch(e)
  <2> DEFINE x == [event[e] EXCEPT !.pc = "judged"]
  <2>1. event[e].pc = "judge" /\ event[e].list \subseteq Listed
    BY <1>5 DEF Dispatch, TypeOK
  <2>2. x \in EventType /\ x.pc = "judged" /\ x.list \subseteq Listed
    BY <1>a, <2>1 DEF EventType
  <2>3. event' = [event EXCEPT ![e] = x]
    BY <1>5 DEF Dispatch
  <2>4. UNCHANGED <<rules, cache, lock, req>>
    BY <1>5 DEF Dispatch
  <2>5. Matching(e) \subseteq Rules
    BY <2>1 DEF Matching, Listed
  <2>6. fired' \subseteq Rules \X Events
    BY <1>b, <1>5, <2>5 DEF Dispatch
  <2> HIDE DEF x
  <2> QED BY <1>b, <2>1, <2>2, <2>3, <2>4, <2>6, EventStep DEF Loading
<1> QED BY <1>1, <1>2, <1>3, <1>4, <1>5 DEF Evaluate

LEMMA ArriveTypeOK ==
    ASSUME TypeOK, NEW h \in Handlers, Arrive(h) PROVE TypeOK'
<1>a. cache \in CacheType
  BY DEF TypeOK
<1>p. PICK r \in Rules :
        \/ \E b \in BOOLEAN, ks \in SUBSET Kinds : Create(h, r, b, ks)
        \/ \E op \in {"update", "toggle", "delete"} : Get(h, op, r)
  BY DEF Arrive
<1>1. ASSUME NEW b \in BOOLEAN, NEW ks \in SUBSET Kinds, Create(h, r, b, ks) PROVE TypeOK'
  <2> DEFINE q == [IdleReq EXCEPT !.op = "create", !.pc = "reread", !.rule = r]
  <2>1. q \in ReqType
    BY ConstantTypes DEF IdleReq, ReqType
  <2>2. req' = [req EXCEPT ![h] = q] /\ UNCHANGED <<cache, lock, event, fired>>
    BY <1>1 DEF Create
  <2>3. [life |-> "stored", enabled |-> b, kinds |-> ks] \in Row
    BY DEF Row
  <2>4. rules' \in [Rules -> Row]
    BY <1>1, <2>3 DEF Create, TypeOK
  <2> HIDE DEF q
  <2> QED BY <1>a, <2>1, <2>2, <2>4, ReqStep
<1>2. ASSUME NEW op \in {"update", "toggle", "delete"}, Get(h, op, r) PROVE TypeOK'
  <2> DEFINE q == [op |-> op, pc |-> "write", rule |-> r, copy |-> rules[r]]
  <2>1. q \in ReqType
    BY DEF TypeOK, ReqType
  <2>2. req' = [req EXCEPT ![h] = q] /\ UNCHANGED <<rules, cache, lock, event, fired>>
    BY <1>2 DEF Get
  <2>3. rules' \in [Rules -> Row]
    BY <2>2 DEF TypeOK
  <2> HIDE DEF q
  <2> QED BY <1>a, <2>1, <2>2, <2>3, ReqStep
<1> QED BY <1>p, <1>1, <1>2

LEMMA MergedType == \A h \in Handlers : Merged(h) \subseteq Row
  BY DEF Merged

LEMMA FinishTypeOK ==
    ASSUME TypeOK, NEW h \in Handlers, Finish(h) PROVE TypeOK'
<1>a. cache \in CacheType /\ rules \in [Rules -> Row] /\ req[h] \in ReqType
  BY DEF TypeOK
<1>b. IdleReq \in ReqType
  BY ConstantTypes DEF IdleReq, ReqType
<1> DEFINE Then(pc) == [req[h] EXCEPT !.pc = pc]
<1>c. Then("reread") \in ReqType /\ Then("invalidate") \in ReqType
  BY <1>a DEF ReqType
<1>1. CASE Write(h)
  <2>1. rules' \in [Rules -> Row]
    BY <1>1, <1>a, MergedType DEF Write
  <2>2. UNCHANGED <<cache, lock, event, fired>>
    BY <1>1 DEF Write
  <2>3. \/ req' = [req EXCEPT ![h] = Then("reread")]
        \/ req' = [req EXCEPT ![h] = IdleReq]
    BY <1>1 DEF Write
  <2> HIDE DEF Then
  <2> QED BY <1>a, <1>b, <1>c, <2>1, <2>2, <2>3, ReqStep
<1>2. CASE Reread(h)
  <2>1. UNCHANGED <<rules, cache, lock, event, fired>>
    BY <1>2 DEF Reread
  <2>2. \/ req' = [req EXCEPT ![h] = Then("invalidate")]
        \/ req' = [req EXCEPT ![h] = IdleReq]
    BY <1>2 DEF Reread
  <2> HIDE DEF Then
  <2> QED BY <1>a, <1>b, <1>c, <2>1, <2>2, ReqStep
<1>3. CASE Delete(h)
  <2>1. [Blank EXCEPT !.life = "gone"] \in Row
    BY ConstantTypes DEF Row
  <2>2. rules' \in [Rules -> Row]
    BY <1>3, <1>a, <2>1 DEF Delete
  <2>3. UNCHANGED <<cache, lock, event, fired>>
    BY <1>3 DEF Delete
  <2>4. \/ req' = [req EXCEPT ![h] = Then("invalidate")]
        \/ req' = [req EXCEPT ![h] = IdleReq]
    BY <1>3 DEF Delete
  <2> HIDE DEF Then
  <2> QED BY <1>a, <1>b, <1>c, <2>2, <2>3, <2>4, ReqStep
<1>4. CASE Invalidate(h)
  <2>1. cache' \in CacheType
    BY <1>4, <1>a DEF Invalidate, CacheType
  <2>2. UNCHANGED <<rules, lock, event, fired>> /\ req' = [req EXCEPT ![h] = IdleReq]
    BY <1>4 DEF Invalidate
  <2> QED BY <1>a, <1>b, <2>1, <2>2, ReqStep
<1> QED BY <1>1, <1>2, <1>3, <1>4 DEF Finish

LEMMA NextTypeOK == TypeOK /\ [Next]_engineVars => TypeOK'
<1> SUFFICES ASSUME TypeOK, [Next]_engineVars PROVE TypeOK'
  OBVIOUS
<1>1. ASSUME NEW e \in Events, Evaluate(e) PROVE TypeOK'
  BY <1>1, EvaluateTypeOK
<1>2. ASSUME NEW e \in Events, NEW k \in Kinds, NEW p \in Paths, StoreEvent(e, k, p)
      PROVE  TypeOK'
  BY <1>2, StoreEventTypeOK
<1>3. CASE Expire
  <2>1. cache' \in CacheType /\ UNCHANGED <<rules, lock, event, fired, req>>
    BY <1>3 DEF Expire, CacheType, TypeOK
  <2> QED BY <2>1 DEF TypeOK
<1>4. ASSUME NEW h \in Handlers, Arrive(h) \/ Finish(h) PROVE TypeOK'
  BY <1>4, ArriveTypeOK, FinishTypeOK
<1>5. CASE UNCHANGED engineVars
  BY <1>5 DEF TypeOK, engineVars
<1> QED BY <1>1, <1>2, <1>3, <1>4, <1>5 DEF Next

\* Type correctness, with the mutex held exactly by the evaluation that loads
\* (engine.go:77-92).
THEOREM TypeCorrect == Spec => []TypeOK
<1>1. Init => TypeOK
  BY InitTypeOK
<1>2. TypeOK /\ [Next]_engineVars => TypeOK'
  BY NextTypeOK
<1> QED BY <1>1, <1>2, PTL DEF Spec

-----------------------------------------------------------------------------
(* A load and an invalidation exclude each other. *)

\* A change of the table that its handler will still announce. A row that is gone
\* when it is read back was deleted since, and the handler that did announces that.
Announces(h) ==
    \/ req[h].pc = "invalidate"
    \/ req[h].pc = "reread" /\ Stored(req[h].rule)

Settled == \A h \in Handlers : ~Announces(h)

\* A handler about to write carries the copy of a row that was there.
CarriesStored == \A h \in Handlers : req[h].pc = "write" => req[h].copy.life = "stored"

\* What keeps an old list out of the cache: a load runs only while no cache is in
\* use, and once every change is announced, a list that is in the cache or on its
\* way there is the table's.
LoadsAreFresh ==
    /\ lock # NoOne => ~cache.valid
    /\ Settled => /\ cache.valid => cache.list = EnabledIn(rules)
                  /\ \A e \in Events : event[e].pc = "fill" => event[e].list = EnabledIn(rules)

FreshInv == TypeOK /\ CarriesStored /\ LoadsAreFresh

\* What the table lists depends on the table alone, and what is announced on the
\* table and the requests.
LEMMA Framed == 
    /\ rules' = rules => EnabledIn(rules)' = EnabledIn(rules)
    /\ rules' = rules /\ req' = req => Settled' = Settled
  BY DEF EnabledIn, Settled, Announces, Stored

LEMMA MergedStored ==
    ASSUME CarriesStored, NEW h \in Handlers, req[h].pc = "write", NEW m \in Merged(h)
    PROVE  m.life = "stored"
  BY DEF Merged, CarriesStored

LEMMA RequestCarriesStored ==
    ASSUME TypeOK, CarriesStored, NEW h \in Handlers, Arrive(h) \/ Finish(h)
    PROVE  CarriesStored'
<1>1. \A g \in Handlers : g # h => req'[g] = req[g]
  BY DEF Arrive, Finish, Create, Get, Write, Reread, Delete, Invalidate, TypeOK
<1>2. req'[h].pc = "write" => req'[h].copy.life = "stored"
  <2>1. ASSUME NEW r \in Rules, NEW op \in {"update", "toggle", "delete"}, Get(h, op, r)
        PROVE  req'[h].copy.life = "stored"
    BY <2>1 DEF Get, Stored, TypeOK
  <2>2. ASSUME NEW r \in Rules, NEW b \in BOOLEAN, NEW ks \in SUBSET Kinds, Create(h, r, b, ks)
        PROVE  req'[h].pc # "write"
    BY <2>2 DEF Create, IdleReq, TypeOK
  <2>3. Finish(h) => req'[h].pc # "write"
    <3>1. \A q : req' = [req EXCEPT ![h] = q] => req'[h] = q
      BY DEF TypeOK
    <3>2. \A p : req' = [req EXCEPT ![h].pc = p] => req'[h].pc = p
      BY DEF TypeOK, ReqType
    <3>3. IdleReq.pc = "idle"
      BY DEF IdleReq
    <3> QED BY <3>1, <3>2, <3>3 DEF Finish, Write, Reread, Delete, Invalidate
  <2> QED BY <2>1, <2>2, <2>3 DEF Arrive
<1> QED BY <1>1, <1>2 DEF CarriesStored

\* A handler that writes is not done: nothing is settled after its step.
LEMMA WriterAnnounces ==
    ASSUME TypeOK, CarriesStored, ~WriteMayFail, NEW h \in Handlers,
           Arrive(h) \/ Finish(h), rules' # rules
    PROVE  ~Settled'
<1>1. ASSUME NEW r \in Rules, NEW b \in BOOLEAN, NEW ks \in SUBSET Kinds, Create(h, r, b, ks)
      PROVE  Announces(h)'
  BY <1>1 DEF Create, Announces, Stored, IdleReq, TypeOK
<1>2. ASSUME Write(h) PROVE Announces(h)'
  <2>1. PICK m \in Merged(h) :
          /\ req[h].pc = "write" /\ Stored(req[h].rule)
          /\ rules' = [rules EXCEPT ![req[h].rule] = m]
          /\ req' = [req EXCEPT ![h].pc = "reread"]
    BY <1>2 DEF Write, Writes
  <2>2. m.life = "stored"
    BY <2>1, MergedStored
  <2>3. req'[h].pc = "reread" /\ req'[h].rule = req[h].rule
    BY <2>1 DEF TypeOK
  <2>4. rules'[req[h].rule].life = "stored"
    <3>1. CASE req[h].rule \in Rules
      BY <2>1, <2>2, <3>1 DEF TypeOK
    <3>2. CASE req[h].rule \notin Rules
      <4>1. rules' = rules
        BY <2>1, <3>2 DEF TypeOK
      <4> QED BY <4>1
    <3> QED BY <3>1, <3>2
  <2> QED BY <2>3, <2>4 DEF Announces, Stored
<1>3. ASSUME Delete(h) PROVE Announces(h)'
  <2>1. req' = [req EXCEPT ![h].pc = "invalidate"]
    BY <1>3 DEF Delete, Writes
  <2> QED BY <2>1 DEF Announces, TypeOK
<1> QED BY <1>1, <1>2, <1>3 DEF Arrive, Finish, Get, Reread, Invalidate, Settled

\* When the statements of the handlers succeed, only Invalidate ends an announcement.
LEMMA OthersStayAnnounced ==
    ASSUME TypeOK, ~WriteMayFail, NEW h \in Handlers, Arrive(h) \/ Finish(h),
           rules' = rules, ~Invalidate(h)
    PROVE  Settled' => Settled
<1>1. ASSUME NEW g \in Handlers, Announces(g) PROVE Announces(g)'
  <2>1. CASE g # h
    <3>1. req'[g] = req[g]
      BY <2>1 DEF Arrive, Finish, Create, Get, Write, Reread, Delete, TypeOK
    <3> QED BY <1>1, <3>1 DEF Announces, Stored
  <2>2. CASE g = h
    <3>1. req[h].pc \in {"reread", "invalidate"}
      BY <1>1, <2>2 DEF Announces
    <3>2. Reread(h)
      <4>1. req[h] # IdleReq
        BY <3>1 DEF IdleReq
      <4>2. ~Arrive(h)
        BY <4>1 DEF Arrive, Create, Get
      <4>3. ~Write(h) /\ ~Delete(h)
        BY <3>1 DEF Write, Delete
      <4> QED BY <4>2, <4>3 DEF Finish
    <3>3. Stored(req[h].rule)
      BY <1>1, <2>2, <3>2 DEF Announces, Reread
    <3>4. req' = [req EXCEPT ![h].pc = "invalidate"]
      BY <3>2, <3>3 DEF Reread, Writes
    <3> QED BY <2>2, <3>4 DEF Announces, TypeOK
  <2> QED BY <2>1, <2>2
<1> QED BY <1>1 DEF Settled

LEMMA EvaluateFresh ==
    ASSUME TypeOK, LoadsAreFresh, NEW e \in Events, Evaluate(e) PROVE LoadsAreFresh'
<1>q. EnabledIn(rules)' = EnabledIn(rules) /\ Settled' = Settled
  BY Framed DEF Evaluate, UseCache, StartLoad, ListEnabled, FillCache, Dispatch
<1>o. \A d \in Events : d # e => event'[d] = event[d]
  BY DEF Evaluate, UseCache, StartLoad, ListEnabled, FillCache, Dispatch, TypeOK
<1>1. CASE UseCache(e)
  BY <1>q, <1>o, <1>1 DEF UseCache, LoadsAreFresh, TypeOK
<1>2. CASE StartLoad(e)
  BY <1>q, <1>o, <1>2 DEF StartLoad, LoadsAreFresh, TypeOK
<1>3. CASE ListEnabled(e)
  <2>1. cache' = cache /\ (lock' # NoOne => lock # NoOne)
    BY <1>3 DEF ListEnabled
  <2>2. event[e] \in EventType
    BY DEF TypeOK
  <2>3. event'[e].pc = "fill" => event'[e].list = EnabledIn(rules)
    BY <1>3, <2>2 DEF ListEnabled, TypeOK, EventType
  <2> QED BY <1>q, <1>o, <2>1, <2>3 DEF LoadsAreFresh
<1>4. CASE FillCache(e)
  BY <1>q, <1>o, <1>4 DEF FillCache, LoadsAreFresh, TypeOK
<1>5. CASE Dispatch(e)
  BY <1>q, <1>o, <1>5 DEF Dispatch, LoadsAreFresh, TypeOK
<1> QED BY <1>1, <1>2, <1>3, <1>4, <1>5 DEF Evaluate

LEMMA RequestFresh ==
    ASSUME TypeOK, CarriesStored, LoadsAreFresh, ~WriteMayFail,
           NEW h \in Handlers, Arrive(h) \/ Finish(h)
    PROVE  LoadsAreFresh'
<1>1. CASE rules' # rules
  <2>1. ~Settled'
    BY <1>1, WriterAnnounces
  <2>2. UNCHANGED <<cache, lock>>
    BY <1>1 DEF Arrive, Finish, Create, Get, Write, Reread, Delete, Invalidate
  <2> QED BY <2>1, <2>2 DEF LoadsAreFresh
<1>2. CASE Invalidate(h)
  <2>1. cache'.valid = FALSE /\ lock = NoOne /\ UNCHANGED <<rules, lock, event>>
    BY <1>2 DEF Invalidate, TypeOK, CacheType
  <2>2. \A e \in Events : event'[e].pc # "fill"
    BY <2>1, EngineConstants DEF TypeOK, Loading
  <2> QED BY <2>1, <2>2 DEF LoadsAreFresh
<1>3. CASE rules' = rules /\ ~Invalidate(h)
  <2>1. UNCHANGED <<rules, cache, lock, event>>
    BY <1>3 DEF Arrive, Finish, Create, Get, Write, Reread, Delete
  <2>2. Settled' => Settled
    BY <1>3, OthersStayAnnounced
  <2>3. EnabledIn(rules)' = EnabledIn(rules)
    BY <2>1, Framed
  <2> QED BY <2>1, <2>2, <2>3 DEF LoadsAreFresh
<1> QED BY <1>1, <1>2, <1>3

LEMMA FreshStep == ~WriteMayFail /\ FreshInv /\ [Next]_engineVars => FreshInv'
<1> SUFFICES ASSUME ~WriteMayFail, TypeOK, CarriesStored, LoadsAreFresh, [Next]_engineVars
             PROVE  CarriesStored' /\ LoadsAreFresh'
  BY NextTypeOK DEF FreshInv
<1>r. req' = req => CarriesStored'
  BY DEF CarriesStored
<1>1. ASSUME NEW e \in Events, Evaluate(e) PROVE CarriesStored' /\ LoadsAreFresh'
  <2>1. req' = req
    BY <1>1 DEF Evaluate, UseCache, StartLoad, ListEnabled, FillCache, Dispatch
  <2> QED BY <1>1, <1>r, <2>1, EvaluateFresh
<1>2. ASSUME NEW e \in Events, NEW k \in Kinds, NEW p \in Paths, StoreEvent(e, k, p)
      PROVE  CarriesStored' /\ LoadsAreFresh'
  <2>1. UNCHANGED <<rules, cache, lock, req>>
    BY <1>2 DEF StoreEvent
  <2>2. \A d \in Events : event'[d].pc = "fill" => event'[d] = event[d]
    BY <1>2 DEF StoreEvent, TypeOK
  <2> QED BY <1>r, <2>1, <2>2, Framed DEF LoadsAreFresh
<1>3. CASE Expire
  <2>1. cache'.valid = FALSE /\ UNCHANGED <<rules, lock, event, req>>
    BY <1>3 DEF Expire, TypeOK, CacheType
  <2> QED BY <1>r, <2>1, Framed DEF LoadsAreFresh
<1>4. ASSUME NEW h \in Handlers, Arrive(h) \/ Finish(h) PROVE CarriesStored' /\ LoadsAreFresh'
  BY <1>4, RequestCarriesStored, RequestFresh
<1>5. CASE UNCHANGED engineVars
  BY <1>r, <1>5, Framed DEF engineVars, LoadsAreFresh
<1> QED BY <1>1, <1>2, <1>3, <1>4, <1>5 DEF Next

LEMMA InitFresh == Init => FreshInv
<1> SUFFICES ASSUME Init PROVE FreshInv
  OBVIOUS
<1>1. TypeOK
  BY InitTypeOK
<1>2. ~cache.valid /\ lock = NoOne /\ \A e \in Events : event[e].pc # "fill"
  BY ConstantTypes DEF Init
<1>3. CarriesStored
  BY DEF Init, IdleReq, CarriesStored
<1> QED BY <1>1, <1>2, <1>3 DEF FreshInv, LoadsAreFresh

\* When the statements of the handlers succeed, a cache in use agrees with the table whenever no
\* handler is between its write and its answer: the mutex kept across the query is
\* what excludes a load that outlives an invalidation (engine.go:69-92).
THEOREM CacheFresh == ~WriteMayFail /\ Spec => []CacheIsFresh
<1>1. Init => FreshInv
  BY InitFresh
<1>2. ~WriteMayFail /\ FreshInv /\ [Next]_engineVars => FreshInv'
  BY FreshStep
<1>3. FreshInv => CacheIsFresh
  BY DEF FreshInv, LoadsAreFresh, CacheIsFresh, Settled, Announces, Open
<1>4. CASE ~WriteMayFail
  <2>1. FreshInv /\ [Next]_engineVars => FreshInv'
    BY <1>2, <1>4
  <2> QED BY <1>1, <1>3, <2>1, PTL DEF Spec
<1> QED BY <1>4

-----------------------------------------------------------------------------
(* The engine implements RuleBook. *)

OpenOnes == {h \in Handlers : Open(h)}

\* While a load holds the mutex there is no other list on its way.
LEMMA OneLoad ==
    ASSUME TypeOK, NEW e \in Events, event[e].pc = "fill" PROVE Loaded = {event[e].list}
<1>1. \A d \in Events : event[d].pc = "fill" => d = e
  BY DEF TypeOK, Loading
<1> QED BY <1>1 DEF Loaded

LEMMA NoLoad == ASSUME TypeOK, lock = NoOne PROVE Loaded = {}
  BY EngineConstants DEF TypeOK, Loading, Loaded

LEMMA InUseValues ==
    /\ cache.valid => InUse = cache.list
    /\ ~cache.valid /\ Loaded = {} => InUse = EnabledIn(rules)
    /\ \A l : ~cache.valid /\ Loaded = {l} => InUse = l
  BY DEF InUse

\* Once every change is announced, the rules in use are the table's.
LEMMA SettledInUse ==
    ASSUME TypeOK, LoadsAreFresh, Settled PROVE InUse = EnabledIn(rules)
<1>1. CASE cache.valid
  BY <1>1, InUseValues DEF LoadsAreFresh
<1>2. CASE ~cache.valid /\ Loaded = {}
  BY <1>2, InUseValues
<1>3. CASE ~cache.valid /\ Loaded # {}
  <2>1. PICK e \in Events : event[e].pc = "fill"
    BY <1>3 DEF Loaded
  <2> QED BY <1>3, <2>1, OneLoad, InUseValues DEF LoadsAreFresh
<1> QED BY <1>1, <1>2, <1>3

LEMMA InitBook == Init => Book!Init
<1> SUFFICES ASSUME Init PROVE Book!Init
  OBVIOUS
<1>1. TypeOK /\ ~cache.valid /\ lock = NoOne
  BY InitTypeOK DEF Init
<1>2. InUse = EnabledIn(rules)
  BY <1>1, NoLoad, InUseValues
<1>3. JudgedBy = [e \in Events |-> Unjudged]
  BY ConstantTypes DEF Init, JudgedBy
<1>4. OpenOnes = {}
  BY DEF Init, IdleReq, Open, OpenOnes
<1>5. rules \in [Rules -> Row]
  BY <1>1 DEF TypeOK
<1> QED BY <1>2, <1>3, <1>4, <1>5 DEF Book!Init, OpenOnes

\* What an evaluation does not touch.
LEMMA EvaluateFrame ==
    ASSUME TypeOK, NEW e \in Events, Evaluate(e)
    PROVE  /\ UNCHANGED <<rules, req>>
           /\ EnabledIn(rules)' = EnabledIn(rules)
           /\ OpenOnes' = OpenOnes
           /\ \A d \in Events : d # e => event'[d] = event[d]
<1>1. UNCHANGED <<rules, req>>
  BY DEF Evaluate, UseCache, StartLoad, ListEnabled, FillCache, Dispatch
<1>2. \A d \in Events : d # e => event'[d] = event[d]
  BY DEF Evaluate, UseCache, StartLoad, ListEnabled, FillCache, Dispatch, TypeOK
<1> QED BY <1>1, <1>2, Framed DEF OpenOnes, Open

\* JudgedBy changes where the event's own entry does.
LEMMA JudgedAt ==
    ASSUME NEW e \in Events, \A d \in Events : d # e => event'[d] = event[d],
           event'[e].pc \in {"fill", "judge", "judged"}
    PROVE  JudgedBy' = [JudgedBy EXCEPT ![e] = event'[e].list]
  BY DEF JudgedBy

LEMMA JudgedSame ==
    ASSUME NEW e \in Events, \A d \in Events : d # e => event'[d] = event[d],
           \/ event[e].pc \notin {"fill", "judge", "judged"}
              /\ event'[e].pc \notin {"fill", "judge", "judged"}
           \/ event[e].pc \in {"fill", "judge", "judged"}
              /\ event'[e].pc \in {"fill", "judge", "judged"} /\ event'[e].list = event[e].list
    PROVE  JudgedBy' = JudgedBy
  BY DEF JudgedBy

LEMMA EvaluateBook ==
    ASSUME TypeOK, TypeOK', LoadsAreFresh, NEW e \in Events, Evaluate(e)
    PROVE  Book!Judge(e) \/ UNCHANGED Book!bookVars
<1>f. /\ UNCHANGED <<rules, req>>
      /\ EnabledIn(rules)' = EnabledIn(rules)
      /\ OpenOnes' = OpenOnes
      /\ \A d \in Events : d # e => event'[d] = event[d]
  BY EvaluateFrame
<1>t. event \in [Events -> EventType] /\ event[e] \in EventType
  BY DEF TypeOK
<1>1. CASE UseCache(e)
  <2>1. event[e].pc = "start" /\ cache' = cache /\ cache.valid
        /\ event'[e].pc = "judge" /\ event'[e].list = cache.list
    BY <1>1, <1>t DEF UseCache, EventType
  <2>2. InUse = cache.list /\ InUse' = InUse
    BY <2>1, InUseValues DEF InUse
  <2>3. JudgedBy[e] = Unjudged /\ JudgedBy' = [JudgedBy EXCEPT ![e] = InUse]
    BY <1>f, <2>1, <2>2, JudgedAt DEF JudgedBy
  <2> QED BY <1>f, <2>2, <2>3 DEF Book!Judge, OpenOnes
<1>2. CASE StartLoad(e)
  <2>1. event[e].pc = "start" /\ cache' = cache /\ event'[e].pc = "load"
    BY <1>2, <1>t DEF StartLoad, EventType
  <2>2. JudgedBy' = JudgedBy
    BY <1>f, <2>1, JudgedSame
  <2>3. Loaded' = Loaded
    BY <1>f, <2>1 DEF Loaded
  <2>4. InUse' = InUse
    BY <1>f, <2>1, <2>3 DEF InUse
  <2> QED BY <1>f, <2>2, <2>4 DEF Book!bookVars, OpenOnes
<1>3. CASE ListEnabled(e)
  <2>0. event[e].pc = "load" /\ cache' = cache
    BY <1>3 DEF ListEnabled
  <2>1. ~cache.valid
    BY <2>0, EngineConstants DEF LoadsAreFresh, TypeOK, Loading
  <2>2. Loaded = {}
    BY <2>0 DEF TypeOK, Loading, Loaded
  <2>3. InUse = EnabledIn(rules)
    BY <2>1, <2>2, InUseValues
  <2>4. CASE event'[e].pc = "fill" /\ event'[e].list = EnabledIn(rules)
    <3>1. Loaded' = {EnabledIn(rules)}
      BY <2>4, <1>f, <2>2 DEF Loaded
    <3>2. InUse' = EnabledIn(rules)
      BY <2>0, <2>1, <3>1 DEF InUse
    <3>3. JudgedBy[e] = Unjudged /\ JudgedBy' = [JudgedBy EXCEPT ![e] = InUse]
      BY <1>f, <2>0, <2>3, <2>4, JudgedAt DEF JudgedBy
    <3> QED BY <1>f, <2>3, <3>2, <3>3 DEF Book!Judge, OpenOnes
  <2>5. CASE event'[e].pc = "dropped"
    <3>1. Loaded' = {}
      BY <2>5, <1>f, <2>2 DEF Loaded
    <3>2. InUse' = InUse
      BY <1>f, <2>0, <2>2, <3>1 DEF InUse
    <3>3. JudgedBy' = JudgedBy
      BY <1>f, <2>0, <2>5, JudgedSame
    <3> QED BY <1>f, <3>2, <3>3 DEF Book!bookVars, OpenOnes
  <2>6. \/ event'[e].pc = "fill" /\ event'[e].list = EnabledIn(rules)
        \/ event'[e].pc = "dropped"
    BY <1>3, <1>t DEF ListEnabled, EventType
  <2> QED BY <2>4, <2>5, <2>6
<1>4. CASE FillCache(e)
  <2>1. /\ event[e].pc = "fill" /\ event'[e].pc = "judge" /\ event'[e].list = event[e].list
        /\ cache'.valid /\ cache'.list = event[e].list
    BY <1>4, <1>t DEF FillCache, EventType
  <2>2. ~cache.valid
    BY <2>1, EngineConstants DEF LoadsAreFresh, TypeOK, Loading
  <2>3. InUse = event[e].list
    BY <2>1, <2>2, OneLoad, InUseValues
  <2>4. InUse' = event[e].list
    BY <2>1 DEF InUse
  <2>5. JudgedBy' = JudgedBy
    BY <1>f, <2>1, JudgedSame
  <2> QED BY <1>f, <2>3, <2>4, <2>5 DEF Book!bookVars, OpenOnes
<1>5. CASE Dispatch(e)
  <2>1. /\ event[e].pc = "judge" /\ event'[e].pc = "judged" /\ event'[e].list = event[e].list
        /\ cache' = cache
    BY <1>5, <1>t DEF Dispatch, EventType
  <2>2. JudgedBy' = JudgedBy
    BY <1>f, <2>1, JudgedSame
  <2>3. Loaded' = Loaded
    BY <1>f, <2>1 DEF Loaded
  <2>4. InUse' = InUse
    BY <1>f, <2>1, <2>3 DEF InUse
  <2> QED BY <1>f, <2>2, <2>4 DEF Book!bookVars, OpenOnes
<1> QED BY <1>1, <1>2, <1>3, <1>4, <1>5 DEF Evaluate

LEMMA RequestBook ==
    ASSUME TypeOK, TypeOK', LoadsAreFresh, LoadsAreFresh', ~WriteMayFail,
           NEW h \in Handlers, Arrive(h) \/ Finish(h)
    PROVE  Book!Change(h) \/ Book!Answer(h) \/ UNCHANGED Book!bookVars
<1>v. event' = event
  BY DEF Arrive, Finish, Create, Get, Write, Reread, Delete, Invalidate
<1>f. event' = event /\ JudgedBy' = JudgedBy /\ Loaded' = Loaded
  BY <1>v DEF JudgedBy, Loaded
<1>t. rules' \in [Rules -> Row] /\ req \in [Handlers -> ReqType]
  BY DEF TypeOK
<1>s. cache' = cache => InUse' \in {InUse, EnabledIn(rules')}
  BY <1>f DEF InUse, EnabledIn
<1>o. \A g \in Handlers : g # h => req'[g] = req[g]
  BY <1>t DEF Arrive, Finish, Create, Get, Write, Reread, Delete, Invalidate
<1>e. OpenOnes' = IF req'[h].pc \in {"reread", "invalidate"} THEN OpenOnes \cup {h}
                                                            ELSE OpenOnes \ {h}
  BY <1>o DEF OpenOnes, Open
<1>1. ASSUME cache' = cache, OpenOnes' = OpenOnes \cup {h} PROVE Book!Change(h)
  BY <1>1, <1>f, <1>t, <1>s DEF Book!Change, OpenOnes
<1>2. ASSUME UNCHANGED <<rules, cache>>, OpenOnes' = OpenOnes PROVE UNCHANGED Book!bookVars
  BY <1>2, <1>f DEF Book!bookVars, OpenOnes, InUse, EnabledIn
<1>3. ASSUME NEW r \in Rules, NEW b \in BOOLEAN, NEW ks \in SUBSET Kinds, Create(h, r, b, ks)
      PROVE  Book!Change(h)
  <2>1. req'[h].pc = "reread" /\ cache' = cache
    BY <1>3, <1>t DEF Create, IdleReq
  <2> QED BY <1>1, <1>e, <2>1
<1>4. ASSUME NEW r \in Rules, NEW op \in {"update", "toggle", "delete"}, Get(h, op, r)
      PROVE  UNCHANGED Book!bookVars
  <2>1. OpenOnes' = OpenOnes \ {h} /\ h \notin OpenOnes
    BY <1>4, <1>e, <1>t DEF Get, IdleReq, OpenOnes, Open
  <2> QED BY <1>2, <1>4, <2>1 DEF Get
<1>5. ASSUME Write(h) PROVE Book!Change(h)
  <2>1. req' = [req EXCEPT ![h].pc = "reread"] /\ cache' = cache
    BY <1>5 DEF Write, Writes
  <2>2. req'[h].pc = "reread"
    BY <1>t, <2>1 DEF ReqType
  <2> QED BY <1>1, <1>e, <2>1, <2>2
<1>6. ASSUME Delete(h) PROVE Book!Change(h)
  <2>1. req' = [req EXCEPT ![h].pc = "invalidate"] /\ cache' = cache
    BY <1>6 DEF Delete, Writes
  <2>2. req'[h].pc = "invalidate"
    BY <1>t, <2>1 DEF ReqType
  <2> QED BY <1>1, <1>e, <2>1, <2>2
<1>7. ASSUME Reread(h) PROVE Book!Answer(h) \/ UNCHANGED Book!bookVars
  <2>0. h \in OpenOnes /\ UNCHANGED <<rules, cache>>
    BY <1>7 DEF Reread, OpenOnes, Open
  <2>1. CASE Stored(req[h].rule)
    <3>1. req' = [req EXCEPT ![h].pc = "invalidate"]
      BY <1>7, <2>1 DEF Reread, Writes
    <3>2. OpenOnes' = OpenOnes
      BY <1>e, <1>t, <2>0, <3>1 DEF ReqType
    <3> QED BY <1>2, <2>0, <3>2
  <2>2. CASE ~Stored(req[h].rule)
    <3>1. OpenOnes' = OpenOnes \ {h}
      <4>1. req'[h].pc = "idle"
        BY <1>7, <1>t, <2>2 DEF Reread, IdleReq
      <4> QED BY <1>e, <4>1
    <3>2. OpenOnes' = {} => InUse = EnabledIn(rules)
      <4>1. ~Announces(h)
        BY <1>7, <2>2 DEF Reread, Announces
      <4>2. OpenOnes' = {} => Settled
        BY <3>1, <4>1 DEF OpenOnes, Open, Settled, Announces
      <4> QED BY <4>2, SettledInUse
    <3>3. InUse' = InUse
      BY <1>f, <2>0 DEF InUse, EnabledIn
    <3> QED BY <1>f, <2>0, <3>1, <3>2, <3>3 DEF Book!Answer, OpenOnes
  <2> QED BY <2>1, <2>2
<1>8. ASSUME Invalidate(h) PROVE Book!Answer(h)
  <2>1. lock = NoOne /\ cache'.valid = FALSE /\ rules' = rules
    BY <1>8 DEF Invalidate, TypeOK, CacheType
  <2>2. Loaded' = {}
    BY <1>f, <2>1, NoLoad
  <2>3. InUse' = EnabledIn(rules)
    BY <2>1, <2>2 DEF InUse, EnabledIn
  <2>4. h \in OpenOnes /\ OpenOnes' = OpenOnes \ {h}
    <3>1. req'[h].pc = "idle"
      BY <1>8, <1>t DEF Invalidate, IdleReq
    <3> QED BY <1>8, <1>e, <3>1 DEF Invalidate, OpenOnes, Open
  <2> QED BY <1>f, <2>1, <2>3, <2>4 DEF Book!Answer, OpenOnes
<1> QED BY <1>3, <1>4, <1>5, <1>6, <1>7, <1>8 DEF Arrive, Finish

LEMMA NextBook ==
    ASSUME ~WriteMayFail, FreshInv, FreshInv', [Next]_engineVars
    PROVE  [Book!Next]_Book!bookVars
<1>t. TypeOK /\ TypeOK' /\ LoadsAreFresh /\ LoadsAreFresh'
  BY DEF FreshInv
<1>1. ASSUME NEW e \in Events, Evaluate(e) PROVE [Book!Next]_Book!bookVars
  BY <1>1, <1>t, EvaluateBook DEF Book!Next
<1>2. ASSUME NEW e \in Events, NEW k \in Kinds, NEW p \in Paths, StoreEvent(e, k, p)
      PROVE  UNCHANGED Book!bookVars
  <2>1. /\ UNCHANGED <<rules, cache, req>> /\ event[e].pc = "none"
        /\ event'[e].pc \in {"start", "stored"}
        /\ \A d \in Events : d # e => event'[d] = event[d]
    BY <1>2, <1>t DEF StoreEvent, TypeOK, EventType
  <2>2. JudgedBy' = JudgedBy
    BY <2>1, JudgedSame
  <2>3. Loaded' = Loaded
    BY <2>1 DEF Loaded
  <2> QED BY <2>1, <2>2, <2>3 DEF Book!bookVars, InUse, EnabledIn, Open
<1>3. CASE Expire
  <2>1. cache.valid /\ cache'.valid = FALSE /\ UNCHANGED <<rules, event, req>>
    BY <1>3, <1>t DEF Expire, TypeOK, CacheType
  <2>2. lock = NoOne
    BY <1>t, <2>1 DEF LoadsAreFresh
  <2>3. Loaded' = {}
    BY <1>t, <2>1, <2>2, NoLoad DEF Loaded
  <2>4. InUse' = EnabledIn(rules)
    BY <2>1, <2>3 DEF InUse, EnabledIn
  <2>5. Book!Publish
    BY <2>1, <2>4 DEF Book!Publish, JudgedBy, Open
  <2> QED BY <2>5 DEF Book!Next
<1>4. ASSUME NEW h \in Handlers, Arrive(h) \/ Finish(h) PROVE [Book!Next]_Book!bookVars
  BY <1>4, <1>t, RequestBook DEF Book!Next
<1>5. CASE UNCHANGED engineVars
  BY <1>5 DEF engineVars, Book!bookVars, InUse, Loaded, EnabledIn, JudgedBy, Open
<1> QED BY <1>1, <1>2, <1>3, <1>4, <1>5 DEF Next

\* The engine implements RuleBook when the statements of its handlers succeed: an event is judged by
\* one set of rules, and a change is in force when its handler has answered
\* (engine.go, api/rules.go InvalidateCache after every write).
THEOREM ImplementsBook == ~WriteMayFail /\ Spec => KeepsBook
<1>1. Init => FreshInv /\ Book!Init
  BY InitFresh, InitBook
<1>2. ASSUME ~WriteMayFail PROVE FreshInv /\ [Next]_engineVars => FreshInv'
  BY <1>2, FreshStep
<1>3. ASSUME ~WriteMayFail PROVE FreshInv /\ FreshInv' /\ [Next]_engineVars => [Book!Next]_Book!bookVars
  BY <1>3, NextBook
<1>4. CASE ~WriteMayFail
  <2>1. FreshInv /\ [Next]_engineVars => FreshInv'
    BY <1>2, <1>4
  <2>2. FreshInv /\ FreshInv' /\ [Next]_engineVars => [Book!Next]_Book!bookVars
    BY <1>3, <1>4
  <2> QED BY <1>1, <2>1, <2>2, PTL DEF Spec, KeepsBook, Book!Spec
<1> QED BY <1>4
=============================================================================

------------------------ MODULE MonitorSchedulerProofs ------------------------
(***************************************************************************)
(* Proofs about MonitorScheduler, for every set of checks, loops, requests *)
(* and operations.                                                         *)
(***************************************************************************)
EXTENDS MonitorScheduler, TLAPS

\* The row a list entry carries is a row.
LEMMA RowListedType ==
    ASSUME TypeOK, NEW c \in ListedChecks
    PROVE  RowListed(c) \in Row
<1>1. PICK e \in start.list : e.check = c
  BY DEF ListedChecks
<1>2. (CHOOSE e2 \in start.list : e2.check = c) \in start.list
  BY <1>1
<1> QED BY <1>2 DEF RowListed, TypeOK, Listed

LEMMA SomeTargetType == SomeTarget \in Targets
  BY ConstantsOK DEF SomeTarget

LEMMA IdleType == BlankRow \in Row /\ Idle \in Proc /\ Idle.pc # "baseline"
  BY SomeTargetType DEF BlankRow, Row, Status, Baselines, Idle, Proc, Results

LEMMA VerdictType == \A p : VerdictOf(p) \in Status
  BY DEF VerdictOf, Verdict, Status

LEMMA RowStatusType ==
    ASSUME TypeOK, NEW c \in Checks, NEW s \in Status
    PROVE  [rows[c] EXCEPT !.status = s] \in Row
<1>1. rows[c] \in Row
  BY DEF TypeOK
<1> QED BY <1>1 DEF Row

LEMMA EnabledRowsType == TypeOK => EnabledRows \subseteq Listed
  BY DEF TypeOK, EnabledRows, Listed, Stored

\* Init establishes the type invariant.
LEMMA InitTypeOK == Init => TypeOK
<1> SUFFICES ASSUME Init PROVE TypeOK
  OBVIOUS
<1>1. rows \in [Checks -> Row]
  BY IdleType DEF Init
<1>2. proc \in [Procs -> Proc]
  BY IdleType DEF Init
<1>3. start \in [pc : {"list", "reconcile", "select", "stopped"}, list : SUBSET Listed]
  BY DEF Init
<1>4. \A p \in Procs : proc[p].pc # "baseline"
  BY IdleType DEF Init
<1> QED BY <1>1, <1>2, <1>3, <1>4 DEF Init, TypeOK, Status

\* The fields of a process, and of the row it holds, are typed.
LEMMA ProcFields ==
    ASSUME TypeOK, NEW p \in Procs
    PROVE  /\ proc[p] \in Proc
           /\ proc[p].check \in Checks \cup {NoCheck}
           /\ proc[p].copy \in Row
           /\ proc[p].answer \in Results
           /\ proc[p].todo \subseteq Listed
           /\ proc[p].copy.target \in Targets
           /\ proc[p].copy.status \in Status
           /\ world[proc[p].copy.target] \in Results
<1>1. proc[p] \in Proc
  BY DEF TypeOK
<1>2. /\ proc[p].check \in Checks \cup {NoCheck}
      /\ proc[p].copy \in Row
      /\ proc[p].answer \in Results
      /\ proc[p].todo \subseteq Listed
  BY <1>1 DEF Proc
<1>3. proc[p].copy.target \in Targets /\ proc[p].copy.status \in Status
  BY <1>2 DEF Row
<1> QED BY <1>1, <1>2, <1>3 DEF TypeOK

\* A step that only gives one process a new value keeps the types.
LEMMA ProcStep ==
    ASSUME TypeOK, NEW p \in Procs, NEW r \in Proc,
           proc' = [proc EXCEPT ![p] = r]
    PROVE  proc' \in [Procs -> Proc]
  BY DEF TypeOK

LEMMA RowStep ==
    ASSUME TypeOK, NEW c, NEW r, c \in Checks => r \in Row,
           rows' = rows \/ rows' = [rows EXCEPT ![c] = r]
    PROVE  rows' \in [Checks -> Row]
  BY DEF TypeOK

\* A step that touches rows, notified and one process only.
LEMMA ProcStepTypeOK ==
    ASSUME TypeOK, NEW p \in Procs, NEW r \in Proc,
           proc' = [proc EXCEPT ![p] = r],
           r.pc = "baseline" => r.answer \in Answers,
           rows' \in [Checks -> Row], notified' \in [Checks -> Status],
           syncCh' \in BOOLEAN,
           UNCHANGED <<world, ctxDone, start, active>>
    PROVE  TypeOK'
  BY ProcStep DEF TypeOK

LEMMA AfterRunType ==
    ASSUME TypeOK, NEW p \in Procs
    PROVE  AfterRun(p) \in Proc /\ AfterRun(p).pc # "baseline"
  BY ProcFields, IdleType DEF AfterRun, Proc, Results

LEMMA CheckerTypeOK ==
    ASSUME TypeOK, NEW p \in Procs, CheckerStep(p) PROVE TypeOK'
<1> DEFINE c == proc[p].check
<1>1. CASE CaptureBaseline(p)
  <2> PICK ok \in Outcomes(p) :
        /\ rows' = IF ok /\ Stored(c)
                   THEN [rows EXCEPT ![c].baseline = proc[p].answer] ELSE rows
        /\ proc' = IF ok THEN [proc EXCEPT ![p].pc = "captured",
                                           ![p].copy.baseline = proc[p].answer]
                   ELSE [proc EXCEPT ![p].pc = "captured"]
    BY <1>1 DEF CaptureBaseline
  <2>1. proc[p].answer \in Baselines
    BY <1>1, ProcFields
    DEF CaptureBaseline, NeedsBaseline, VerdictOf, Verdict, Results, Baselines
  <2>2. rows' \in [Checks -> Row]
    <3> DEFINE r == [rows[c] EXCEPT !.baseline = proc[p].answer]
    <3>1. c \in Checks => r \in Row
      BY SMTT(60), <2>1 DEF TypeOK, Row
    <3>2. rows' = rows \/ rows' = [rows EXCEPT ![c] = r]
      OBVIOUS
    <3> QED BY <3>1, <3>2, RowStep
  <2> DEFINE q == IF ok THEN [proc[p] EXCEPT !.pc = "captured",
                                             !.copy.baseline = proc[p].answer]
                  ELSE [proc[p] EXCEPT !.pc = "captured"]
  <2>3. q \in Proc
    <3>1. [proc[p].copy EXCEPT !.baseline = proc[p].answer] \in Row
      BY <2>1, ProcFields DEF Row
    <3> QED BY <3>1, ProcFields DEF Proc
  <2>4. proc' = [proc EXCEPT ![p] = q]
    OBVIOUS
  <2> QED BY <1>1, <2>2, <2>3, <2>4, ProcStepTypeOK DEF CaptureBaseline, TypeOK
<1>2. CASE Report(p)
  <2>1. [proc[p] EXCEPT !.pc = "reported"] \in Proc
    BY ProcFields DEF Proc
  <2>2. notified' \in [Checks -> Status]
    <3>1. PICK ok \in Outcomes(p) :
            notified' = IF ok THEN [notified EXCEPT ![c] = VerdictOf(p)] ELSE notified
      BY <1>2 DEF Report
    <3> QED BY <3>1, VerdictType DEF TypeOK
  <2> QED BY <1>2, <2>1, <2>2, ProcStepTypeOK DEF Report, TypeOK
<1>3. CASE SaveStatus(p)
  <2> DEFINE r == [rows[c] EXCEPT !.status = VerdictOf(p)]
  <2>1. c \in Checks => r \in Row
    BY VerdictType, RowStatusType
  <2>2. rows' = rows \/ rows' = [rows EXCEPT ![c] = r]
    BY <1>3 DEF SaveStatus
  <2>3. rows' \in [Checks -> Row]
    BY <2>1, <2>2, RowStep
  <2> QED BY <1>3, <2>3, AfterRunType, ProcStepTypeOK DEF SaveStatus, TypeOK
<1> QED BY <1>1, <1>2, <1>3 DEF CheckerStep

\* The locked part of syncChecks keeps the types.
LEMMA NewLoopType ==
    ASSUME TypeOK, NEW c \in ToStart
    PROVE  /\ c \in Checks /\ active[c] = NoLoop
           /\ NewLoop(c) \in Proc
           /\ NewLoop(c).op = "loop" /\ NewLoop(c).pc = "ticking"
           /\ NewLoop(c).check = c /\ NewLoop(c).cancelled = FALSE
<1>1. c \in Checks /\ active[c] = NoLoop /\ c \in ListedChecks
  <2>1. start.list \subseteq Listed
    BY DEF TypeOK
  <2> QED BY <2>1 DEF ToStart, ListedChecks, Listed
<1>2. RowListed(c) \in Row
  BY <1>1, RowListedType
<1> QED BY <1>1, <1>2, IdleType DEF NewLoop, Proc, Idle

LEMMA AfterCancelType ==
    ASSUME TypeOK, NEW p \in Procs, NEW cs
    PROVE  /\ AfterCancel(p, cs) \in Proc
           /\ AfterCancel(p, cs).pc = proc[p].pc
           /\ AfterCancel(p, cs).answer = proc[p].answer
           /\ AfterCancel(p, cs).op = proc[p].op
           /\ AfterCancel(p, cs).check = proc[p].check
  BY ProcFields DEF AfterCancel, Proc

LEMMA ReconcileTypeOK == TypeOK /\ SyncReconcile => TypeOK'
<1> SUFFICES ASSUME TypeOK, SyncReconcile PROVE TypeOK'
  OBVIOUS
<1>p. PICK slot \in [ToStart -> FreeLoops] :
      /\ active' = [c \in Checks |-> IF c \in ToStart THEN slot[c]
                                     ELSE IF c \in ToStop THEN NoLoop
                                     ELSE active[c]]
      /\ proc' = [p \in Procs |->
             IF \E c \in ToStart : slot[c] = p
             THEN NewLoop(CHOOSE c \in ToStart : slot[c] = p)
             ELSE AfterCancel(p, ToStop)]
  BY DEF SyncReconcile
<1>1. active' \in [Checks -> Loops \cup {NoLoop}]
  BY <1>p DEF FreeLoops, TypeOK
<1>2. ASSUME NEW p \in Procs
      PROVE  /\ proc'[p] \in Proc
             /\ proc'[p].pc = "baseline" => proc'[p].answer \in Answers
  <2>1. CASE \E c \in ToStart : slot[c] = p
    <3> DEFINE d == CHOOSE c \in ToStart : slot[c] = p
    <3>1. d \in ToStart /\ proc'[p] = NewLoop(d)
      BY <1>p, <2>1
    <3> HIDE DEF d
    <3> QED BY <3>1, NewLoopType
  <2>2. CASE ~ \E c \in ToStart : slot[c] = p
    <3>1. proc'[p] = AfterCancel(p, ToStop)
      BY <1>p, <2>2
    <3> QED BY <3>1, AfterCancelType DEF TypeOK
  <2> QED BY <2>1, <2>2
<1>3. proc' \in [Procs -> Proc]
  BY <1>p, <1>2
<1> QED BY <1>1, <1>2, <1>3 DEF SyncReconcile, TypeOK

\* Each step a request may take keeps the types.
LEMMA ContinueTypeOK ==
    ASSUME TypeOK, NEW h \in Requests, Continue(h) PROVE TypeOK'
<1> DEFINE c == proc[h].check
<1>h. h \in Procs
  BY DEF Procs
<1>1. CASE Dispatch(h)
  <2> PICK e \in proc[h].todo :
        proc' = [proc EXCEPT ![h].pc = "probed", ![h].check = e.check,
                             ![h].copy = e.copy, ![h].todo = @ \ {e},
                             ![h].answer = world[e.copy.target]]
    BY <1>1 DEF Dispatch
  <2>1. e.check \in Checks /\ e.copy \in Row
    BY <1>h, ProcFields DEF Listed
  <2>2. world[e.copy.target] \in Results
    BY <2>1 DEF Row, TypeOK
  <2>3. [proc[h] EXCEPT !.pc = "probed", !.check = e.check, !.copy = e.copy,
                        !.todo = @ \ {e}, !.answer = world[e.copy.target]] \in Proc
    BY <1>h, <2>1, <2>2, ProcFields DEF Proc
  <2> QED BY SMTT(60), <1>1, <1>h, <2>3, ProcStepTypeOK DEF Dispatch, TypeOK
<1>2. CASE RunAllReturns(h)
  BY <1>2, <1>h, IdleType, ProcStepTypeOK DEF RunAllReturns, TypeOK
<1>3. CASE CheckerStep(h)
  BY <1>3, <1>h, CheckerTypeOK
<1>4. CASE StoreBaseline(h)
  <2> PICK ok \in Outcomes(h) :
        /\ rows' = IF ok /\ Stored(c)
                   THEN [rows EXCEPT ![c].baseline = proc[h].answer] ELSE rows
        /\ proc' = IF ok \/ proc[h].op = "create"
                   THEN [proc EXCEPT ![h].pc = "status"]
                   ELSE [proc EXCEPT ![h] = Idle]
    BY <1>4 DEF StoreBaseline
  <2>1. proc[h].answer \in Baselines
    BY <1>4, <1>h DEF StoreBaseline, TypeOK, Baselines
  <2> DEFINE r == [rows[c] EXCEPT !.baseline = proc[h].answer]
  <2>2. c \in Checks => r \in Row
    BY <2>1 DEF TypeOK, Row
  <2>3. rows' \in [Checks -> Row]
    BY <2>2, RowStep
  <2> DEFINE q == IF ok \/ proc[h].op = "create"
                  THEN [proc[h] EXCEPT !.pc = "status"] ELSE Idle
  <2>4. q \in Proc /\ q.pc # "baseline"
    BY <1>h, ProcFields, IdleType DEF Proc, Idle
  <2>5. proc' = [proc EXCEPT ![h] = q]
    OBVIOUS
  <2> QED BY <1>4, <1>h, <2>3, <2>4, <2>5, ProcStepTypeOK DEF StoreBaseline, TypeOK
<1>5. CASE StoreResolved(h)
  <2> DEFINE r == [rows[c] EXCEPT !.status = "up"]
  <2>1. c \in Checks => r \in Row
    BY RowStatusType DEF Status
  <2>2. rows' = rows \/ rows' = [rows EXCEPT ![c] = r]
    BY <1>5 DEF StoreResolved
  <2>3. rows' \in [Checks -> Row]
    BY <2>1, <2>2, RowStep
  <2> QED BY <1>5, <1>h, <2>3, IdleType, ProcStepTypeOK DEF StoreResolved, TypeOK
<1>6. CASE WriteMerged(h)
  <2> PICK ok \in Outcomes(h), m \in Merged(h) :
        /\ rows' = IF ok /\ Stored(c)
                   THEN [rows EXCEPT ![c] = [m EXCEPT !.status = rows[c].status]]
                   ELSE rows
        /\ proc' = IF ok /\ Stored(c) /\ proc[h].op = "toggle"
                   THEN [proc EXCEPT ![h].pc = "nudge"]
                   ELSE [proc EXCEPT ![h] = Idle]
    BY <1>6 DEF WriteMerged
  <2>1. m \in Row
    BY <1>h, ProcFields DEF Merged, Row, Baselines
  <2> DEFINE r == [m EXCEPT !.status = rows[c].status]
  <2>2. c \in Checks => r \in Row
    BY <2>1 DEF TypeOK, Row
  <2>3. rows' \in [Checks -> Row]
    BY <2>2, RowStep
  <2> DEFINE q == IF ok /\ Stored(c) /\ proc[h].op = "toggle"
                  THEN [proc[h] EXCEPT !.pc = "nudge"] ELSE Idle
  <2>4. q \in Proc /\ q.pc # "baseline"
    BY <1>h, ProcFields, IdleType DEF Proc, Idle
  <2>5. proc' = [proc EXCEPT ![h] = q]
    OBVIOUS
  <2> QED BY <1>6, <1>h, <2>3, <2>4, <2>5, ProcStepTypeOK DEF WriteMerged, TypeOK
<1>7. CASE TriggerSync(h)
  BY <1>7, <1>h, IdleType, ProcStepTypeOK DEF TriggerSync, TypeOK
<1>8. CASE SaveRun(h)
  <2> PICK ok \in Outcomes(h) :
        /\ rows' = IF ok /\ Stored(c) THEN [rows EXCEPT ![c].status = VerdictOf(h)]
                   ELSE rows
        /\ proc' = IF ok /\ Stored(c) /\ VerdictOf(h) # proc[h].copy.status
                   THEN [proc EXCEPT ![h].pc = "announce"]
                   ELSE [proc EXCEPT ![h] = Idle]
    BY <1>8 DEF SaveRun
  <2> DEFINE r == [rows[c] EXCEPT !.status = VerdictOf(h)]
  <2>1. c \in Checks => r \in Row
    BY VerdictType, RowStatusType
  <2>2. rows' \in [Checks -> Row]
    BY <2>1, RowStep
  <2> DEFINE q == IF ok /\ Stored(c) /\ VerdictOf(h) # proc[h].copy.status
                  THEN [proc[h] EXCEPT !.pc = "announce"] ELSE Idle
  <2>3. q \in Proc /\ q.pc # "baseline"
    BY <1>h, ProcFields, IdleType DEF Proc, Idle
  <2>4. proc' = [proc EXCEPT ![h] = q]
    OBVIOUS
  <2> QED BY <1>8, <1>h, <2>2, <2>3, <2>4, ProcStepTypeOK DEF SaveRun, TypeOK
<1>9. CASE AnnounceRun(h)
  <2>1. notified' \in [Checks -> Status]
    <3>1. PICK ok \in Outcomes(h) :
            notified' = IF ok THEN [notified EXCEPT ![c] = VerdictOf(h)] ELSE notified
      BY <1>9 DEF AnnounceRun
    <3> QED BY <3>1, VerdictType DEF TypeOK
  <2> QED BY <1>9, <1>h, <2>1, IdleType, ProcStepTypeOK DEF AnnounceRun, TypeOK
<1> QED BY <1>1, <1>2, <1>3, <1>4, <1>5, <1>6, <1>7, <1>8, <1>9 DEF Continue

\* A request arrives: its first step keeps the types.
LEMMA BeginTypeOK ==
    ASSUME TypeOK, NEW h \in Requests, NEW c \in Checks, NEW op \in AllOps,
           NEW pc \in {"merge", "baseline", "ran"}, NEW a \in Results,
           pc = "baseline" => a \in Answers,
           Begin(h, op, c, pc, a), UNCHANGED rows
    PROVE  TypeOK'
<1> DEFINE q == [Idle EXCEPT !.op = op, !.pc = pc, !.check = c,
                             !.copy = rows[c], !.answer = a]
<1>1. q \in Proc /\ q.pc = pc /\ q.answer = a
  BY IdleType DEF Proc, TypeOK, Idle
<1>2. h \in Procs /\ proc' = [proc EXCEPT ![h] = q]
  BY DEF Procs, Begin
<1> HIDE DEF q
<1> QED BY <1>1, <1>2, ProcStepTypeOK DEF Begin, TypeOK

LEMMA ArriveTypeOK ==
    ASSUME TypeOK, NEW h \in Requests, Arrive(h) PROVE TypeOK'
<1>h. h \in Procs
  BY DEF Procs
<1>1. CASE RunAll(h)
  <2>1. [proc[h] EXCEPT !.op = "runAll", !.pc = "dispatch", !.todo = EnabledRows] \in Proc
    BY <1>h, ProcFields, EnabledRowsType DEF Proc, AllOps
  <2>2. proc' = [proc EXCEPT ![h] = [proc[h] EXCEPT !.op = "runAll", !.pc = "dispatch",
                                                    !.todo = EnabledRows]]
    BY <1>1 DEF RunAll
  <2> QED BY <1>1, <1>h, <2>1, <2>2, ProcStepTypeOK DEF RunAll, TypeOK
<1>2. ASSUME NEW c \in Checks, NEW t \in Targets, Create(h, c, t) PROVE TypeOK'
  <2>0. PICK b \in Baselines :
          rows' = [rows EXCEPT ![c] = [BlankRow EXCEPT !.life = "stored", !.baseline = b,
                                                       !.enabled = TRUE, !.target = t]]
    BY <1>2 DEF Create, Baselines
  <2> DEFINE r == [BlankRow EXCEPT !.life = "stored", !.baseline = b,
                                   !.enabled = TRUE, !.target = t]
  <2> DEFINE q == IF c \in DnsChecks /\ world[t] \in Answers
                  THEN [Idle EXCEPT !.op = "create", !.pc = "baseline",
                                    !.check = c, !.answer = world[t]]
                  ELSE proc[h]
  <2>1. r \in Row
    BY IdleType DEF Row
  <2>2. rows' \in [Checks -> Row]
    BY <2>0, <2>1, RowStep
  <2>3. world[t] \in Results
    BY DEF TypeOK
  <2>4. q \in Proc /\ (q.pc = "baseline" => q.answer \in Answers)
    <3>1. CASE c \in DnsChecks /\ world[t] \in Answers
      BY <3>1, <2>3, IdleType DEF Proc, AllOps, Results
    <3>2. CASE ~(c \in DnsChecks /\ world[t] \in Answers)
      BY <3>2, <1>h, ProcFields DEF TypeOK
    <3> QED BY <3>1, <3>2
  <2>5. proc' = [proc EXCEPT ![h] = q]
    BY <1>2, <1>h DEF Create, TypeOK
  <2> HIDE DEF q, r
  <2> QED BY <1>2, <1>h, <2>2, <2>4, <2>5, ProcStepTypeOK DEF Create, TypeOK
<1>3. ASSUME NEW c \in Checks, ResetBaseline(h, c) PROVE TypeOK'
  <2>1. world[rows[c].target] \in Results
    BY DEF TypeOK, Row
  <2> QED BY <1>3, <2>1, BeginTypeOK DEF ResetBaseline, AllOps, Results
<1>4. ASSUME NEW c \in Checks, Edit(h, c) \/ Toggle(h, c) PROVE TypeOK'
  BY <1>4, BeginTypeOK DEF Edit, Toggle, AllOps, Results
<1>5. ASSUME NEW c \in Checks, RunNow(h, c) PROVE TypeOK'
  <2>1. world[rows[c].target] \in Results
    BY DEF TypeOK, Row
  <2> QED BY <1>5, <2>1, BeginTypeOK DEF RunNow, AllOps
<1> QED BY <1>1, <1>2, <1>3, <1>4, <1>5 DEF Arrive

\* Tick probes; the answer is typed.
LEMMA TickTypeOK == ASSUME TypeOK, NEW l \in Loops, Tick(l) PROVE TypeOK'
<1> DEFINE a == IF Cancelled(l) THEN Unreachable ELSE world[proc[l].copy.target]
<1>0. l \in Procs
  BY DEF Procs
<1>1. a \in Results
  BY <1>0, ProcFields DEF Results
<1> HIDE DEF a
<1>2. /\ [proc[l] EXCEPT !.pc = "probed", !.answer = a] \in Proc
      /\ [proc[l] EXCEPT !.pc = "probed", !.answer = a].pc # "baseline"
  BY <1>0, <1>1, ProcFields DEF Proc
<1>3. proc' = [proc EXCEPT ![l] = [proc[l] EXCEPT !.pc = "probed", !.answer = a]]
  BY DEF Tick, a
<1> QED BY <1>0, <1>2, <1>3, ProcStepTypeOK DEF TypeOK, Tick

LEMMA ShutdownTypeOK == TypeOK /\ Shutdown => TypeOK'
<1> SUFFICES ASSUME TypeOK, Shutdown PROVE TypeOK'
  OBVIOUS
<1>1. ASSUME NEW p \in Procs
      PROVE  /\ proc'[p] \in Proc
             /\ proc'[p].pc = "baseline" => proc'[p].answer \in Answers
  <2>1. proc'[p] = AfterCancel(p, Checks)
    BY DEF Shutdown
  <2>2. [proc[p] EXCEPT !.cancelled = TRUE] \in Proc
        /\ [proc[p] EXCEPT !.cancelled = TRUE].pc = proc[p].pc
        /\ [proc[p] EXCEPT !.cancelled = TRUE].answer = proc[p].answer
    BY ProcFields DEF Proc
  <2> QED BY <2>1, <2>2, ProcFields DEF AfterCancel, TypeOK
<1>2. proc' \in [Procs -> Proc]
  BY <1>1 DEF Shutdown
<1> QED BY <1>1, <1>2 DEF Shutdown, TypeOK

LEMMA StartTypeOK == TypeOK /\ StartStep => TypeOK'
<1> SUFFICES ASSUME TypeOK, StartStep PROVE TypeOK'
  OBVIOUS
<1>1. CASE SyncList
  BY <1>1, EnabledRowsType DEF TypeOK, SyncList
<1>2. CASE SyncListFails
  BY <1>2 DEF TypeOK, SyncListFails
<1>3. CASE ReceiveSync
  BY <1>3 DEF TypeOK, ReceiveSync
<1>4. CASE ReloadTick
  BY <1>4 DEF TypeOK, ReloadTick
<1> QED BY <1>1, <1>2, <1>3, <1>4, ReconcileTypeOK, ShutdownTypeOK DEF StartStep

LEMMA StepTypeOK == TypeOK /\ [Next]_vars => TypeOK'
<1> SUFFICES ASSUME TypeOK, [Next]_vars PROVE TypeOK'
  OBVIOUS
<1>1. ASSUME NEW t \in Targets, Change(t) PROVE TypeOK'
  BY <1>1 DEF TypeOK, Change
<1>2. CASE CancelContext
  BY <1>2 DEF TypeOK, CancelContext
<1>3. ASSUME NEW l \in Loops, LoopStep(l) PROVE TypeOK'
  <2>1. CASE LoopExit(l)
    BY <2>1, IdleType, ProcStepTypeOK DEF LoopExit, TypeOK, Procs
  <2> QED BY <1>3, <2>1, TickTypeOK, CheckerTypeOK DEF LoopStep, Procs
<1>4. ASSUME NEW c \in Checks, Delete(c) PROVE TypeOK'
  <2>1. [BlankRow EXCEPT !.life = "gone"] \in Row
    BY IdleType DEF Row
  <2>2. rows' \in [Checks -> Row]
    BY <1>4, <2>1, RowStep DEF Delete
  <2> QED BY <1>4, <2>2 DEF Delete, TypeOK
<1>5. CASE UNCHANGED vars
  BY <1>5 DEF vars, TypeOK
<1> QED BY <1>1, <1>2, <1>3, <1>4, <1>5, StartTypeOK, ArriveTypeOK, ContinueTypeOK DEF Next

\* Every reachable state of every instance is well typed.
THEOREM TypeCorrect == Spec => []TypeOK
  BY InitTypeOK, StepTypeOK, PTL DEF Spec

-----------------------------------------------------------------------------
(* The books of the scheduler *)

\* The part of a loop the books speak about.
SameLoop(l) ==
    /\ proc'[l].op = proc[l].op
    /\ IsLoop(l) => /\ proc'[l].check = proc[l].check
                    /\ proc'[l].cancelled = proc[l].cancelled

\* A step that moves no loop in that sense and no cancel function keeps the books.
LEMMA SameBooks ==
    ASSUME TypeOK, ActiveIsExact, \A l \in Loops : SameLoop(l),
           active' = active, ctxDone' = ctxDone \/ ctxDone'
    PROVE  ActiveIsExact'
<1>1. OnFileIsLive'
  <2> SUFFICES ASSUME NEW c \in Checks, active'[c] # NoLoop, ~ctxDone'
               PROVE  LiveLoop(active[c])' /\ proc'[active'[c]].check = c
    BY DEF OnFileIsLive
  <2>1. active[c] \in Loops
    BY DEF TypeOK
  <2>2. LiveLoop(active[c]) /\ proc[active[c]].check = c
    BY DEF ActiveIsExact, OnFileIsLive
  <2> QED BY <2>1, <2>2 DEF SameLoop, LiveLoop, IsLoop
<1>2. LiveIsOnFile'
  BY DEF ActiveIsExact, LiveIsOnFile, SameLoop, LiveLoop, IsLoop
<1> QED BY <1>1, <1>2 DEF ActiveIsExact

\* Nothing a request does touches a loop.
LEMMA RequestLeavesLoops ==
    ASSUME TypeOK, NEW h \in Requests, Arrive(h) \/ Continue(h)
    PROVE  /\ \A l \in Loops : SameLoop(l)
           /\ UNCHANGED <<active, ctxDone>>
<1>1. h \notin Loops
  BY ConstantsOK
<1>2. UNCHANGED <<active, ctxDone>>
  BY DEF Arrive, Continue, RunAll, Create, ResetBaseline, Edit, Toggle, RunNow, Begin,
         Dispatch, RunAllReturns, CheckerStep, CaptureBaseline, Report, SaveStatus,
         StoreBaseline, StoreResolved, WriteMerged, TriggerSync, SaveRun, AnnounceRun
<1>3. CASE Arrive(h)
  <2>1. ASSUME RunAll(h) PROVE \A l \in Loops : proc'[l] = proc[l]
    <3>1. proc' = [proc EXCEPT ![h] = [proc[h] EXCEPT !.op = "runAll",
                                          !.pc = "dispatch", !.todo = EnabledRows]]
      BY <2>1 DEF RunAll
    <3> QED BY <1>1, <3>1 DEF TypeOK, Procs
  <2>2. ASSUME NEW c \in Checks, NEW t \in Targets, Create(h, c, t)
        PROVE  \A l \in Loops : proc'[l] = proc[l]
    BY <1>1, <2>2 DEF Create, TypeOK, Procs
  <2>3. ASSUME NEW c \in Checks,
               ResetBaseline(h, c) \/ Edit(h, c) \/ Toggle(h, c) \/ RunNow(h, c)
        PROVE  \A l \in Loops : proc'[l] = proc[l]
    BY <1>1, <2>3 DEF ResetBaseline, Edit, Toggle, RunNow, Begin, TypeOK, Procs
  <2>4. \A l \in Loops : proc'[l] = proc[l]
    BY <1>3, <2>1, <2>2, <2>3 DEF Arrive
  <2> QED BY <1>2, <2>4 DEF SameLoop, IsLoop
<1>4. CASE Continue(h)
  <2>1. \E r : proc' = [proc EXCEPT ![h] = r]
    <3>1. CASE CheckerStep(h)
      BY <3>1 DEF CheckerStep, CaptureBaseline, Report, SaveStatus
    <3> QED BY <1>4, <3>1 DEF Continue, Dispatch, RunAllReturns, StoreBaseline,
                StoreResolved, WriteMerged, TriggerSync, SaveRun, AnnounceRun
  <2>2. \A l \in Loops : proc'[l] = proc[l]
    BY <1>1, <2>1 DEF TypeOK, Procs
  <2> QED BY <1>2, <2>2 DEF SameLoop, IsLoop
<1> QED BY <1>3, <1>4

\* A loop that probes and stores stays the loop it is.
LEMMA LoopStepKeepsLoop ==
    ASSUME TypeOK, NEW l \in Loops, Tick(l) \/ CheckerStep(l)
    PROVE  /\ \A m \in Loops : SameLoop(m)
           /\ UNCHANGED <<active, ctxDone>>
<1>0. l \in Procs /\ proc[l] \in Proc
  BY DEF Procs, TypeOK
<1>1. UNCHANGED <<active, ctxDone>>
  BY DEF Tick, CheckerStep, CaptureBaseline, Report, SaveStatus
<1>2. PICK r : /\ proc' = [proc EXCEPT ![l] = r]
               /\ r.op = proc[l].op
               /\ IsLoop(l) => /\ r.check = proc[l].check
                               /\ r.cancelled = proc[l].cancelled
  <2>1. CASE Tick(l)
    <3> DEFINE a == IF Cancelled(l) THEN Unreachable ELSE world[proc[l].copy.target]
    <3> DEFINE q == [proc[l] EXCEPT !.pc = "probed", !.answer = a]
    <3>1. proc' = [proc EXCEPT ![l] = q]
      BY <2>1 DEF Tick
    <3>2. q.op = proc[l].op /\ q.check = proc[l].check /\ q.cancelled = proc[l].cancelled
      BY <1>0 DEF Proc
    <3> HIDE DEF q
    <3> QED BY <3>1, <3>2
  <2>2. CASE CaptureBaseline(l)
    <3>1. PICK ok \in Outcomes(l) :
            proc' = IF ok THEN [proc EXCEPT ![l].pc = "captured",
                                            ![l].copy.baseline = proc[l].answer]
                    ELSE [proc EXCEPT ![l].pc = "captured"]
      BY <2>2 DEF CaptureBaseline
    <3> DEFINE q == IF ok THEN [proc[l] EXCEPT !.pc = "captured",
                                               !.copy.baseline = proc[l].answer]
                    ELSE [proc[l] EXCEPT !.pc = "captured"]
    <3>2. proc' = [proc EXCEPT ![l] = q]
      BY <3>1
    <3>3. q.op = proc[l].op /\ q.check = proc[l].check /\ q.cancelled = proc[l].cancelled
      BY <1>0 DEF Proc
    <3> QED BY <3>2, <3>3
  <2>3. CASE Report(l)
    <3> DEFINE q == [proc[l] EXCEPT !.pc = "reported"]
    <3>1. proc' = [proc EXCEPT ![l] = q]
      BY <2>3 DEF Report
    <3>2. q.op = proc[l].op /\ q.check = proc[l].check /\ q.cancelled = proc[l].cancelled
      BY <1>0 DEF Proc
    <3> HIDE DEF q
    <3> QED BY <3>1, <3>2
  <2>4. CASE SaveStatus(l)
    <3>1. proc' = [proc EXCEPT ![l] = AfterRun(l)]
      BY <2>4 DEF SaveStatus
    <3>2. AfterRun(l).op = proc[l].op
          /\ (IsLoop(l) => /\ AfterRun(l).check = proc[l].check
                           /\ AfterRun(l).cancelled = proc[l].cancelled)
      BY <1>0 DEF AfterRun, Proc
    <3> QED BY <3>1, <3>2
  <2> QED BY <2>1, <2>2, <2>3, <2>4 DEF CheckerStep
<1>3. ASSUME NEW m \in Loops PROVE SameLoop(m)
  <2>1. m \in Procs
    BY DEF Procs
  <2>2. m # l => proc'[m] = proc[m]
    BY <1>2, <2>1 DEF TypeOK
  <2>3. proc'[l] = r
    BY <1>0, <1>2 DEF TypeOK
  <2> QED BY <1>2, <2>2, <2>3 DEF SameLoop, IsLoop
<1> QED BY <1>1, <1>3

\* A loop that leaves was cancelled, so its cancel function is off file already
\* (or the whole context is done).
LEMMA ExitKeepsBooks ==
    ASSUME TypeOK, ActiveIsExact, NEW l \in Loops, LoopExit(l) PROVE ActiveIsExact'
<1>0. /\ proc' = [proc EXCEPT ![l] = Idle] /\ active' = active /\ ctxDone' = ctxDone
      /\ Cancelled(l)
  BY DEF LoopExit
<1>1. /\ \A m \in Loops : m # l => proc'[m] = proc[m]
      /\ proc'[l] = Idle
  BY <1>0 DEF TypeOK, Procs
<1>2. ~LiveLoop(l)'
  BY <1>1 DEF LiveLoop, IsLoop, Idle
<1>3. OnFileIsLive'
  <2> SUFFICES ASSUME NEW c \in Checks, active[c] # NoLoop, ~ctxDone
               PROVE  LiveLoop(active[c])' /\ proc'[active[c]].check = c
    BY <1>0 DEF OnFileIsLive
  <2>1. active[c] \in Loops /\ LiveLoop(active[c]) /\ proc[active[c]].check = c
    BY DEF TypeOK, ActiveIsExact, OnFileIsLive
  <2>2. active[c] # l
    BY <1>0, <2>1 DEF LiveLoop, Cancelled
  <2> QED BY <1>0, <1>1, <2>1, <2>2 DEF LiveLoop, IsLoop
<1>4. LiveIsOnFile'
  BY <1>0, <1>1, <1>2 DEF ActiveIsExact, LiveIsOnFile, LiveLoop, IsLoop
<1> QED BY <1>3, <1>4 DEF ActiveIsExact

\* cancelAll empties the map and cancels every loop that was on file; the context
\* is done.
LEMMA ShutdownKeepsBooks ==
    ASSUME TypeOK, ActiveIsExact, Shutdown PROVE ActiveIsExact'
<1>1. \A c \in Checks : active'[c] = NoLoop
  BY DEF Shutdown
<1>2. ASSUME NEW l \in Loops PROVE ~LiveLoop(l)'
  <2>0. proc'[l] = AfterCancel(l, Checks) /\ proc[l] \in Proc
    BY DEF Shutdown, Procs, TypeOK
  <2>1. CASE LiveLoop(l)
    <3>1. proc[l].check \in Checks
      BY <2>1 DEF ActiveIsExact, LiveIsOnFile
    <3>2. proc'[l] = [proc[l] EXCEPT !.cancelled = TRUE]
      BY <2>0, <2>1, <3>1 DEF AfterCancel, ActiveIsExact, LiveIsOnFile, LiveLoop
    <3> QED BY <2>0, <3>2 DEF LiveLoop, Proc
  <2>2. CASE ~LiveLoop(l)
    BY <2>0, <2>2 DEF AfterCancel, LiveLoop, IsLoop, Proc
  <2> QED BY <2>1, <2>2
<1>3. OnFileIsLive'
  BY <1>1 DEF OnFileIsLive
<1>4. LiveIsOnFile'
  BY <1>2 DEF LiveIsOnFile
<1> QED BY <1>3, <1>4 DEF ActiveIsExact

\* The locked part of syncChecks: new goroutines take slots nobody refers to, and
\* a goroutine is cancelled exactly when its entry is deleted.
LEMMA ReconcileKeepsBooks ==
    ASSUME TypeOK, ActiveIsExact, SyncReconcile PROVE ActiveIsExact'
<1>p. PICK slot \in [ToStart -> FreeLoops] :
      /\ \A c, d \in ToStart : slot[c] = slot[d] => c = d
      /\ active' = [c \in Checks |-> IF c \in ToStart THEN slot[c]
                                     ELSE IF c \in ToStop THEN NoLoop
                                     ELSE active[c]]
      /\ proc' = [p \in Procs |->
             IF \E c \in ToStart : slot[c] = p
             THEN NewLoop(CHOOSE c \in ToStart : slot[c] = p)
             ELSE AfterCancel(p, ToStop)]
  BY DEF SyncReconcile
<1>0. ctxDone' = ctxDone
  BY DEF SyncReconcile
<1>2. ASSUME NEW c \in ToStart
      PROVE  /\ slot[c] \in Loops
             /\ \A d \in Checks : active[d] # slot[c]
             /\ c \in Checks /\ active[c] = NoLoop /\ active'[c] = slot[c]
             /\ LiveLoop(slot[c])' /\ proc'[slot[c]].check = c
  <2>1. slot[c] \in FreeLoops
    OBVIOUS
  <2>2. slot[c] \in Loops /\ \A d \in Checks : active[d] # slot[c]
    BY <2>1 DEF FreeLoops
  <2>3. (CHOOSE d \in ToStart : slot[d] = slot[c]) = c
    BY <1>p
  <2>4. proc'[slot[c]] = NewLoop(c)
    BY <1>p, <2>2, <2>3 DEF Procs
  <2>5. c \in Checks /\ active[c] = NoLoop
    BY NewLoopType
  <2>6. active'[c] = slot[c]
    BY <1>p, <2>5
  <2>7. LiveLoop(slot[c])' /\ proc'[slot[c]].check = c
    BY ZenonT(60), <2>4, NewLoopType DEF LiveLoop, IsLoop
  <2> QED BY <2>2, <2>5, <2>6, <2>7
<1>3. ASSUME NEW l \in Loops, \A c \in ToStart : slot[c] # l
      PROVE  proc'[l] = AfterCancel(l, ToStop)
  BY <1>p, <1>3 DEF Procs
<1>4. OnFileIsLive'
  <2> SUFFICES ASSUME NEW c \in Checks, active'[c] # NoLoop, ~ctxDone
               PROVE  /\ proc'[active'[c]].op = "loop"
                      /\ ~proc'[active'[c]].cancelled
                      /\ proc'[active'[c]].check = c
    BY <1>0 DEF OnFileIsLive, LiveLoop, IsLoop
  <2>1. CASE c \in ToStart
    BY <1>2, <2>1 DEF LiveLoop, IsLoop
  <2>2. CASE c \notin ToStart
    <3>1. active'[c] = active[c] /\ active[c] # NoLoop /\ c \notin ToStop
      BY <1>p, <2>2
    <3>2. /\ active[c] \in Loops
          /\ LiveLoop(active[c]) /\ proc[active[c]].check = c
      BY <3>1 DEF TypeOK, ActiveIsExact, OnFileIsLive
    <3>3. proc'[active[c]] = AfterCancel(active[c], ToStop)
      <4>1. \A d \in ToStart : slot[d] # active[c]
        BY <1>2
      <4> QED BY <1>3, <3>2, <4>1
    <3>4. \A d \in ToStop : active[d] # active[c]
      <4> SUFFICES ASSUME NEW d \in ToStop, active[d] = active[c] PROVE FALSE
        OBVIOUS
      <4>1. proc[active[d]].check = d
        BY DEF ToStop, ActiveIsExact, OnFileIsLive
      <4> QED BY <3>1, <3>2, <4>1
    <3>5. proc'[active[c]] = proc[active[c]]
      BY <3>3, <3>4 DEF AfterCancel
    <3> QED BY <3>1, <3>2, <3>5 DEF LiveLoop, IsLoop
  <2> QED BY <2>1, <2>2
<1>5. LiveIsOnFile'
  <2> SUFFICES ASSUME NEW l \in Loops, LiveLoop(l)'
               PROVE  proc'[l].check \in Checks /\ active'[proc'[l].check] = l
    BY DEF LiveIsOnFile
  <2>1. CASE \E c \in ToStart : slot[c] = l
    <3>1. PICK c \in ToStart : slot[c] = l
      BY <2>1
    <3>2. proc'[l].check = c /\ c \in Checks /\ active'[c] = l
      BY <1>2, <3>1
    <3> QED BY <3>2
  <2>2. CASE \A c \in ToStart : slot[c] # l
    <3> DEFINE c == proc[l].check
    <3>0. proc[l] \in Proc
      BY DEF TypeOK, Procs
    <3>1. proc'[l] = AfterCancel(l, ToStop)
      BY <1>3, <2>2
    <3>2. proc'[l] = proc[l] /\ LiveLoop(l)
      <4>1. proc'[l] = proc[l] \/ proc'[l] = [proc[l] EXCEPT !.cancelled = TRUE]
        BY <3>1 DEF AfterCancel
      <4>2. [proc[l] EXCEPT !.cancelled = TRUE].cancelled = TRUE
        BY <3>0 DEF Proc
      <4>3. ~proc'[l].cancelled
        BY DEF LiveLoop
      <4>4. proc'[l] = proc[l]
        BY <4>1, <4>2, <4>3
      <4> QED BY <4>4 DEF LiveLoop, IsLoop
    <3>3. c \in Checks /\ active[c] = l
      BY <3>2 DEF ActiveIsExact, LiveIsOnFile
    <3>4. c \notin ToStart
      BY <1>2, <3>3, ConstantsOK
    <3>5. c \notin ToStop
      <4> SUFFICES ASSUME c \in ToStop PROVE FALSE
        OBVIOUS
      <4>1. AfterCancel(l, ToStop) = [proc[l] EXCEPT !.cancelled = TRUE]
        BY <3>2, <3>3 DEF AfterCancel, LiveLoop
      <4>2. [proc[l] EXCEPT !.cancelled = TRUE].cancelled = TRUE
        BY <3>0 DEF Proc
      <4> QED BY <3>1, <4>1, <4>2 DEF LiveLoop
    <3>6. active'[c] = active[c]
      BY <1>p, <3>3, <3>4, <3>5
    <3> QED BY <3>2, <3>3, <3>6
  <2> QED BY <2>1, <2>2
<1> QED BY <1>4, <1>5 DEF ActiveIsExact

LEMMA StepKeepsBooks == TypeOK /\ ActiveIsExact /\ [Next]_vars => ActiveIsExact'
<1> SUFFICES ASSUME TypeOK, ActiveIsExact, [Next]_vars PROVE ActiveIsExact'
  OBVIOUS
<1>1. CASE UNCHANGED <<active, proc>> /\ (ctxDone' = ctxDone \/ ctxDone')
  BY <1>1, SameBooks DEF SameLoop
<1>2. ASSUME NEW t \in Targets, Change(t) PROVE ActiveIsExact'
  BY <1>1, <1>2 DEF Change
<1>3. CASE CancelContext
  BY <1>1, <1>3 DEF CancelContext
<1>4. CASE StartStep
  BY <1>1, <1>4, ReconcileKeepsBooks, ShutdownKeepsBooks
  DEF StartStep, SyncList, SyncListFails, ReceiveSync, ReloadTick
<1>5. ASSUME NEW l \in Loops, LoopStep(l) PROVE ActiveIsExact'
  BY <1>5, ExitKeepsBooks, LoopStepKeepsLoop, SameBooks DEF LoopStep
<1>6. ASSUME NEW h \in Requests, Arrive(h) \/ Continue(h) PROVE ActiveIsExact'
  BY <1>6, RequestLeavesLoops, SameBooks
<1>7. ASSUME NEW c \in Checks, Delete(c) PROVE ActiveIsExact'
  BY <1>1, <1>7 DEF Delete
<1>8. CASE UNCHANGED vars
  BY <1>1, <1>8 DEF vars
<1> QED BY <1>2, <1>3, <1>4, <1>5, <1>6, <1>7, <1>8 DEF Next

\* Whatever pauses, deletions, restarts and shutdown do, the active map of the
\* scheduler and the running, uncancelled loops are the same thing.
THEOREM BooksExact == Spec => []ActiveIsExact
<1>1. Init => ActiveIsExact
  <2> SUFFICES ASSUME Init PROVE ActiveIsExact
    OBVIOUS
  <2>1. \A c \in Checks : active[c] = NoLoop
    BY DEF Init
  <2>2. \A l \in Loops : proc[l].op = "none"
    BY DEF Init, Procs, Idle
  <2> QED BY <2>1, <2>2 DEF ActiveIsExact, OnFileIsLive, LiveIsOnFile, LiveLoop, IsLoop
<1> QED BY <1>1, StepKeepsBooks, TypeCorrect, PTL DEF Spec

\* So no check is ever probed by two loops that were not cancelled.
OneLoopPerCheck ==
    \A l, m \in Loops :
        LiveLoop(l) /\ LiveLoop(m) /\ proc[l].check = proc[m].check => l = m

THEOREM NoSecondLoop == Spec => []OneLoopPerCheck
<1>1. ActiveIsExact => OneLoopPerCheck
  BY DEF ActiveIsExact, LiveIsOnFile, OneLoopPerCheck
<1> QED BY <1>1, BooksExact, PTL

\* A step of Start, of the world or of Delete that moves a loop writes nothing.
LEMMA SilentOutside ==
    ASSUME TypeOK, NEW l \in Loops, proc'[l] # proc[l],
           \/ \E t \in Targets : Change(t)
           \/ CancelContext \/ StartStep
           \/ \E c \in Checks : Delete(c)
    PROVE  UNCHANGED <<rows, notified>>
  BY DEF Change, CancelContext, StartStep, SyncList, SyncListFails, SyncReconcile,
         ReceiveSync, ReloadTick, Shutdown, Delete

\* Requests move no loop at all.
LEMMA RequestMovesNoLoop ==
    ASSUME TypeOK, NEW h \in Requests, Arrive(h) \/ Continue(h), NEW l \in Loops
    PROVE  proc'[l] = proc[l]
<1>1. h # l /\ l \in Procs
  BY ConstantsOK DEF Procs
<1>2. \/ proc' = proc
      \/ \E r : proc' = [proc EXCEPT ![h] = r]
  <2>1. CASE Arrive(h)
    <3>1. CASE RunAll(h)
      <4>1. proc' = [proc EXCEPT ![h] = [proc[h] EXCEPT !.op = "runAll",
                                            !.pc = "dispatch", !.todo = EnabledRows]]
        BY <3>1 DEF RunAll
      <4> QED BY <4>1
    <3>2. ASSUME NEW c \in Checks, NEW t \in Targets, Create(h, c, t)
          PROVE  proc' = proc \/ \E r : proc' = [proc EXCEPT ![h] = r]
      BY <3>2 DEF Create
    <3>3. ASSUME NEW c \in Checks,
                 ResetBaseline(h, c) \/ Edit(h, c) \/ Toggle(h, c) \/ RunNow(h, c)
          PROVE  \E r : proc' = [proc EXCEPT ![h] = r]
      BY <3>3 DEF ResetBaseline, Edit, Toggle, RunNow, Begin
    <3> QED BY <2>1, <3>1, <3>2, <3>3 DEF Arrive
  <2>2. CASE Continue(h)
    <3>1. CASE CheckerStep(h)
      BY <3>1 DEF CheckerStep, CaptureBaseline, Report, SaveStatus
    <3> QED BY <2>2, <3>1 DEF Continue, Dispatch, RunAllReturns, StoreBaseline,
                StoreResolved, WriteMerged, TriggerSync, SaveRun, AnnounceRun
  <2> QED BY <2>1, <2>2
<1> QED BY <1>1, <1>2 DEF TypeOK

\* A step of one loop moves no other one.
LEMMA LoopMovesItself ==
    ASSUME TypeOK, NEW l \in Loops, NEW m \in Loops, LoopStep(m), l # m
    PROVE  proc'[l] = proc[l]
<1>1. \E r : proc' = [proc EXCEPT ![m] = r]
  <2>1. CASE CheckerStep(m)
    BY <2>1 DEF CheckerStep, CaptureBaseline, Report, SaveStatus
  <2> QED BY <2>1 DEF LoopStep, Tick, LoopExit
<1> QED BY <1>1 DEF TypeOK, Procs

\* Every call a cancelled loop makes fails.
LEMMA CancelledWritesNothing ==
    ASSUME NEW l \in Loops, Cancelled(l), LoopStep(l)
    PROVE  UNCHANGED <<rows, notified>>
<1>1. Outcomes(l) = {FALSE}
  BY DEF Outcomes
<1> QED BY <1>1 DEF LoopStep, Tick, LoopExit, CheckerStep, CaptureBaseline, Report, SaveStatus

\* Pausing or deleting a check, or stopping the scheduler, silences its loop for
\* good, whatever it was in the middle of: syncChecks and cancelAll only cancel,
\* and the context in every store call does the rest.
THEOREM CancellationSilences == Spec => CancelledLoopIsSilent
<1> DEFINE Silent == \A l \in Loops : Cancelled(l) /\ proc'[l] # proc[l]
                                          => UNCHANGED <<rows, notified>>
<1>1. TypeOK /\ [Next]_vars => [Silent]_vars
  <2> SUFFICES ASSUME TypeOK, Next, NEW l \in Loops, Cancelled(l), proc'[l] # proc[l]
               PROVE  UNCHANGED <<rows, notified>>
    OBVIOUS
  <2>1. ASSUME NEW m \in Loops, LoopStep(m) PROVE UNCHANGED <<rows, notified>>
    BY <2>1, LoopMovesItself, CancelledWritesNothing
  <2>2. ASSUME NEW h \in Requests, Arrive(h) \/ Continue(h) PROVE FALSE
    BY <2>2, RequestMovesNoLoop
  <2> QED BY <2>1, <2>2, SilentOutside DEF Next
<1> QED BY <1>1, TypeCorrect, PTL DEF Spec, CancelledLoopIsSilent

\* A step of a checker leaves a row alone that is gone.
LEMMA CheckerKeepsGone ==
    ASSUME TypeOK, NEW p \in Procs, CheckerStep(p), NEW c \in Checks, rows[c].life = "gone"
    PROVE  rows'[c] = rows[c]
  BY DEF CheckerStep, CaptureBaseline, Report, SaveStatus, Stored, TypeOK

\* A request leaves a row alone that is gone.
LEMMA RequestKeepsGone ==
    ASSUME TypeOK, NEW h \in Requests, Arrive(h) \/ Continue(h),
           NEW c \in Checks, rows[c].life = "gone"
    PROVE  rows'[c] = rows[c]
<1>1. CASE Arrive(h)
  <2>1. ASSUME NEW d \in Checks, NEW t \in Targets, Create(h, d, t)
        PROVE  rows'[c] = rows[c]
    <3>1. d # c
      BY <2>1 DEF Create
    <3> QED BY <2>1, <3>1 DEF Create, TypeOK
  <2> QED BY <1>1, <2>1 DEF Arrive, RunAll, ResetBaseline, Edit, Toggle, RunNow
<1>2. CASE Continue(h)
  <2>1. h \in Procs
    BY DEF Procs
  <2>2. CASE CheckerStep(h)
    BY <2>1, <2>2, CheckerKeepsGone
  <2>3. CASE Dispatch(h) \/ RunAllReturns(h) \/ TriggerSync(h) \/ AnnounceRun(h)
    BY <2>3 DEF Dispatch, RunAllReturns, TriggerSync, AnnounceRun
  <2>4. CASE StoreBaseline(h)
    BY <2>4 DEF StoreBaseline, Stored, TypeOK
  <2>5. CASE StoreResolved(h)
    BY <2>5 DEF StoreResolved, Stored, TypeOK
  <2>6. CASE WriteMerged(h)
    BY <2>6 DEF WriteMerged, Stored, TypeOK
  <2>7. CASE SaveRun(h)
    BY <2>7 DEF SaveRun, Stored, TypeOK
  <2> QED BY <1>2, <2>2, <2>3, <2>4, <2>5, <2>6, <2>7 DEF Continue
<1> QED BY <1>1, <1>2

\* Deletion is final: every write by a loop, the job or a handler that still holds
\* a copy of the row is an UPDATE by id.
THEOREM DeletionIsFinal == Spec => DeletedStaysDeleted
<1> DEFINE Final == \A c \in Checks : rows[c].life = "gone" => rows'[c] = rows[c]
<1>1. TypeOK /\ [Next]_vars => [Final]_vars
  <2> SUFFICES ASSUME TypeOK, Next, NEW c \in Checks, rows[c].life = "gone"
               PROVE  rows'[c] = rows[c]
    OBVIOUS
  <2>1. ASSUME NEW l \in Loops, LoopStep(l) PROVE rows'[c] = rows[c]
    <3>1. l \in Procs
      BY DEF Procs
    <3> QED BY <2>1, <3>1, CheckerKeepsGone DEF LoopStep, Tick, LoopExit
  <2>2. ASSUME NEW h \in Requests, Arrive(h) \/ Continue(h) PROVE rows'[c] = rows[c]
    BY <2>2, RequestKeepsGone
  <2>3. ASSUME NEW d \in Checks, Delete(d) PROVE rows'[c] = rows[c]
    <3>1. d # c
      BY <2>3 DEF Delete, Stored
    <3> QED BY <2>3, <3>1 DEF Delete, TypeOK
  <2>4. CASE (\E t \in Targets : Change(t)) \/ CancelContext \/ StartStep
    BY <2>4 DEF Change, CancelContext, StartStep, SyncList, SyncListFails, SyncReconcile,
                ReceiveSync, ReloadTick, Shutdown
  <2> QED BY <2>1, <2>2, <2>3, <2>4 DEF Next
<1> QED BY <1>1, TypeCorrect, PTL DEF Spec, DeletedStaysDeleted

-----------------------------------------------------------------------------
(* Where every change of the table is a pause or a resume *)

\* What the theorems below assume of the instance.
TogglesOnly == Ops \subseteq {"toggle"} /\ DbMayFail = FALSE

\* So every request in flight is one, before or after its write.
RequestsToggle ==
    \A h \in Requests :
        \/ proc[h] = Idle
        \/ proc[h].op = "toggle" /\ proc[h].pc \in {"merge", "nudge"}

LEMMA IdleFields == Idle.op = "none" /\ Idle.pc = "idle"
  BY DEF Idle

LEMMA ToggleSteps ==
    ASSUME TogglesOnly, RequestsToggle, NEW h \in Requests, Arrive(h) \/ Continue(h)
    PROVE  (\E c \in Checks : Toggle(h, c)) \/ WriteMerged(h) \/ TriggerSync(h)
<1>1. CASE Arrive(h)
  BY <1>1 DEF Arrive, TogglesOnly, RunAll, Create, ResetBaseline, Edit, RunNow, Begin
<1>2. CASE Continue(h)
  <2>1. /\ proc[h].op \notin {"loop", "runAll"}
        /\ proc[h].pc \in {"idle", "merge", "nudge"}
    BY IdleFields DEF RequestsToggle
  <2>2. ~CheckerStep(h)
    BY <2>1 DEF CheckerStep, CaptureBaseline, ReadyToReport, Report, SaveStatus
  <2> QED BY <1>2, <2>1, <2>2 DEF Continue, Dispatch, RunAllReturns, StoreBaseline,
              StoreResolved, SaveRun, AnnounceRun
<1> QED BY <1>1, <1>2

\* What a pause or a resume may do to its process and the row.
LEMMA ToggleEffect ==
    ASSUME TypeOK, RequestsToggle, NEW h \in Requests,
           (\E c \in Checks : Toggle(h, c)) \/ WriteMerged(h) \/ TriggerSync(h)
    PROVE  /\ UNCHANGED <<notified, ctxDone, start, active>>
           /\ \A p \in Procs : p # h => proc'[p] = proc[p]
           /\ \/ proc'[h] = Idle
              \/ proc'[h].op = "toggle" /\ proc'[h].pc \in {"merge", "nudge"}
           /\ rows' # rows => proc'[h].pc = "nudge"
           /\ proc[h].pc = "nudge" => syncCh'
           /\ syncCh => syncCh'
<1>h. h \in Procs /\ proc[h] \in Proc
  BY DEF Procs, TypeOK
<1>1. ASSUME NEW c \in Checks, Toggle(h, c)
      PROVE  /\ proc'[h].op = "toggle" /\ proc'[h].pc = "merge"
             /\ proc[h].pc # "nudge"
             /\ UNCHANGED <<rows, notified, ctxDone, start, active, syncCh>>
             /\ \A p \in Procs : p # h => proc'[p] = proc[p]
  <2>1. proc' = [proc EXCEPT ![h] = [Idle EXCEPT !.op = "toggle", !.pc = "merge",
                     !.check = c, !.copy = rows[c], !.answer = Unreachable]]
    BY <1>1 DEF Toggle, Begin
  <2>2. proc'[h] = [Idle EXCEPT !.op = "toggle", !.pc = "merge",
                     !.check = c, !.copy = rows[c], !.answer = Unreachable]
    BY <2>1, <1>h DEF TypeOK
  <2>3. proc'[h].op = "toggle" /\ proc'[h].pc = "merge"
    BY <2>2 DEF Idle
  <2> QED BY <1>1, <2>1, <2>3, IdleFields DEF TypeOK, Toggle, Begin
<1>2. CASE WriteMerged(h)
  <2>1. proc[h].op = "toggle" /\ proc[h].pc = "merge"
    BY <1>2, IdleFields DEF WriteMerged, RequestsToggle
  <2>2. \/ proc' = [proc EXCEPT ![h] = [proc[h] EXCEPT !.pc = "nudge"]]
        \/ proc' = [proc EXCEPT ![h] = Idle] /\ rows' = rows
    BY <1>2, <2>1 DEF WriteMerged
  <2>3. [proc[h] EXCEPT !.pc = "nudge"].pc = "nudge"
        /\ [proc[h] EXCEPT !.pc = "nudge"].op = "toggle"
    BY <1>h, <2>1 DEF Proc
  <2> QED BY <1>2, <1>h, <2>1, <2>2, <2>3 DEF WriteMerged, TypeOK
<1>3. CASE TriggerSync(h)
  BY <1>3, <1>h DEF TriggerSync, TypeOK
<1> QED BY <1>1, <1>2, <1>3

\* Start's steps and the loops' leave the requests as they are.
LEMMA OthersLeaveRequests ==
    ASSUME TypeOK, RequestsToggle, NEW h \in Requests,
           \/ \E t \in Targets : Change(t)
           \/ CancelContext \/ StartStep
           \/ \E l \in Loops : LoopStep(l)
    PROVE  proc'[h] = proc[h]
<1>h. h \in Procs /\ h \notin Loops /\ ~IsLoop(h)
  BY ConstantsOK, IdleFields DEF Procs, RequestsToggle, IsLoop
<1>1. ASSUME NEW l \in Loops, LoopStep(l) PROVE proc'[h] = proc[h]
  <2>1. \E r : proc' = [proc EXCEPT ![l] = r]
    <3>1. CASE CheckerStep(l)
      BY <3>1 DEF CheckerStep, CaptureBaseline, Report, SaveStatus
    <3> QED BY <1>1, <3>1 DEF LoopStep, Tick, LoopExit
  <2> QED BY <1>h, <2>1 DEF TypeOK
<1>2. CASE SyncReconcile
  <2>1. PICK slot \in [ToStart -> FreeLoops] :
          proc' = [p \in Procs |->
             IF \E c \in ToStart : slot[c] = p
             THEN NewLoop(CHOOSE c \in ToStart : slot[c] = p)
             ELSE AfterCancel(p, ToStop)]
    BY <1>2 DEF SyncReconcile
  <2>2. \A c \in ToStart : slot[c] # h
    BY <1>h DEF FreeLoops
  <2> QED BY <1>h, <2>1, <2>2 DEF AfterCancel
<1>3. CASE Shutdown
  BY <1>3, <1>h DEF Shutdown, AfterCancel
<1> QED BY <1>1, <1>2, <1>3 DEF Change, CancelContext, StartStep, SyncList, SyncListFails,
            ReceiveSync, ReloadTick

LEMMA RequestsToggleStep ==
    ASSUME TypeOK, TogglesOnly, RequestsToggle, [Next]_vars PROVE RequestsToggle'
<1>1. ASSUME NEW h \in Requests, Arrive(h) \/ Continue(h) PROVE RequestsToggle'
  <2>1. (\E c \in Checks : Toggle(h, c)) \/ WriteMerged(h) \/ TriggerSync(h)
    BY <1>1, ToggleSteps
  <2>2. /\ \A p \in Procs : p # h => proc'[p] = proc[p]
        /\ \/ proc'[h] = Idle
           \/ proc'[h].op = "toggle" /\ proc'[h].pc \in {"merge", "nudge"}
    BY <2>1, ToggleEffect
  <2> QED BY <2>2 DEF RequestsToggle, Procs
<1>2. CASE \/ \E t \in Targets : Change(t)
           \/ CancelContext \/ StartStep
           \/ \E l \in Loops : LoopStep(l)
  BY <1>2, OthersLeaveRequests DEF RequestsToggle
<1>3. ASSUME NEW c \in Checks, Delete(c) PROVE FALSE
  BY <1>3 DEF Delete, TogglesOnly
<1>4. CASE UNCHANGED vars
  BY <1>4 DEF vars, RequestsToggle
<1> QED BY <1>1, <1>2, <1>3, <1>4 DEF Next

\* Nothing is on its way to tell the scheduler of a change.
Quiet == ~ctxDone /\ ~syncCh /\ \A h \in Requests : proc[h].pc # "nudge"

\* Then a list that was read is still what is wanted.
ListIsWanted ==
    start.pc = "reconcile" /\ Quiet =>
        \A c \in Checks : c \in ListedChecks <=> Wanted(c)

LEMMA SameWanted ==
    ASSUME ListIsWanted, NoSignalLost, UNCHANGED <<start, active>>,
           Quiet' => Quiet /\ \A c \in Checks : Wanted(c)' <=> Wanted(c)
    PROVE  ListIsWanted' /\ NoSignalLost'
  BY DEF ListIsWanted, NoSignalLost, Quiet, ListedChecks, Watched

\* A loop's writes leave the flag of a row, and whether it is stored.
LEMMA LoopKeepsWanted ==
    ASSUME TypeOK, NEW l \in Loops, LoopStep(l), NEW c \in Checks
    PROVE  Wanted(c)' <=> Wanted(c)
<1>1. rows[c] \in Row
  BY DEF TypeOK
<1>2. \/ rows'[c] = rows[c]
      \/ rows'[c] = [rows[c] EXCEPT !.baseline = proc[l].answer]
      \/ rows'[c] = [rows[c] EXCEPT !.status = VerdictOf(l)]
  <2>1. CASE CaptureBaseline(l)
    <3>1. \/ rows' = rows
          \/ rows' = [rows EXCEPT ![proc[l].check].baseline = proc[l].answer]
      BY <2>1 DEF CaptureBaseline
    <3> QED BY <3>1 DEF TypeOK
  <2>2. CASE SaveStatus(l)
    <3>1. \/ rows' = rows
          \/ rows' = [rows EXCEPT ![proc[l].check].status = VerdictOf(l)]
      BY <2>2 DEF SaveStatus
    <3> QED BY <3>1 DEF TypeOK
  <2> QED BY <2>1, <2>2 DEF LoopStep, Tick, LoopExit, CheckerStep, Report
<1> QED BY <1>1, <1>2 DEF Wanted, Stored, Row

LEMMA ReconcileWatchesListed ==
    ASSUME TypeOK, SyncReconcile, NEW c \in Checks
    PROVE  Watched(c)' <=> c \in ListedChecks
<1>1. PICK slot \in [ToStart -> FreeLoops] :
        active' = [d \in Checks |-> IF d \in ToStart THEN slot[d]
                                    ELSE IF d \in ToStop THEN NoLoop ELSE active[d]]
  BY DEF SyncReconcile
<1>2. c \in ToStart => slot[c] \in Loops
  BY DEF FreeLoops
<1>3. active'[c] = IF c \in ToStart THEN slot[c]
                   ELSE IF c \in ToStop THEN NoLoop ELSE active[c]
  BY <1>1
<1> QED BY <1>2, <1>3, ConstantsOK DEF Watched, ToStart, ToStop

LEMMA SignalStep ==
    ASSUME TypeOK, TogglesOnly, RequestsToggle, ListIsWanted, NoSignalLost, [Next]_vars
    PROVE  ListIsWanted' /\ NoSignalLost'
<1>1. ASSUME NEW h \in Requests, Arrive(h) \/ Continue(h)
      PROVE  ListIsWanted' /\ NoSignalLost'
  <2>1. (\E c \in Checks : Toggle(h, c)) \/ WriteMerged(h) \/ TriggerSync(h)
    BY <1>1, ToggleSteps
  <2>2. /\ UNCHANGED <<ctxDone, start, active>>
        /\ \A p \in Procs : p # h => proc'[p] = proc[p]
        /\ rows' # rows => proc'[h].pc = "nudge"
        /\ proc[h].pc = "nudge" => syncCh'
        /\ syncCh => syncCh'
    BY <2>1, ToggleEffect
  <2>3. Quiet' => Quiet /\ rows' = rows
    BY <2>2 DEF Quiet, Procs
  <2>4. Quiet' => \A c \in Checks : Wanted(c)' <=> Wanted(c)
    BY <2>3 DEF Wanted, Stored
  <2> QED BY <2>2, <2>3, <2>4, SameWanted
<1>2. ASSUME NEW l \in Loops, LoopStep(l) PROVE ListIsWanted' /\ NoSignalLost'
  <2>1. UNCHANGED <<ctxDone, syncCh, start, active>>
    BY <1>2 DEF LoopStep, Tick, LoopExit, CheckerStep, CaptureBaseline, Report, SaveStatus
  <2>2. \A h \in Requests : proc'[h] = proc[h]
    BY <1>2, OthersLeaveRequests
  <2>3. Quiet' => Quiet
    BY <2>1, <2>2 DEF Quiet
  <2>4. \A c \in Checks : Wanted(c)' <=> Wanted(c)
    BY <1>2, LoopKeepsWanted
  <2> QED BY <2>1, <2>3, <2>4, SameWanted
<1>3. CASE (\E t \in Targets : Change(t)) \/ CancelContext \/ UNCHANGED vars
  <2>1. UNCHANGED <<rows, start, active>> /\ (Quiet' => Quiet)
    BY <1>3 DEF Change, CancelContext, vars, Quiet
  <2> QED BY <2>1, SameWanted DEF Wanted, Stored
<1>4. CASE SyncList
  <2>1. start' = [pc |-> "reconcile", list |-> EnabledRows] /\ rows' = rows
    BY <1>4 DEF SyncList
  <2>2. ASSUME NEW c \in Checks PROVE c \in ListedChecks' <=> Wanted(c)'
    <3>1. c \in ListedChecks' <=> \E e \in EnabledRows : e.check = c
      BY <2>1 DEF ListedChecks
    <3>2. Wanted(c) => [check |-> c, copy |-> rows[c]] \in EnabledRows
      BY DEF EnabledRows, Wanted, Stored
    <3>3. ASSUME NEW e \in EnabledRows, e.check = c PROVE Wanted(c)
      <4>1. PICK d \in Checks : /\ e = [check |-> d, copy |-> rows[d]]
                                /\ Stored(d) /\ rows[d].enabled
        BY DEF EnabledRows
      <4>2. d = c
        BY <3>3, <4>1
      <4> QED BY <4>1, <4>2 DEF Wanted
    <3> QED BY <2>1, <3>1, <3>2, <3>3 DEF Wanted, Stored
  <2> QED BY <2>1, <2>2 DEF ListIsWanted, NoSignalLost
<1>5. CASE SyncListFails
  BY <1>5 DEF SyncListFails, TogglesOnly, ListIsWanted, NoSignalLost, Quiet, TypeOK
<1>6. CASE SyncReconcile
  <2>1. /\ start.pc = "reconcile" /\ start'.pc = "select"
        /\ UNCHANGED <<rows, ctxDone, syncCh>>
    BY <1>6 DEF SyncReconcile
  <2>2. \A h \in Requests : proc'[h] = proc[h]
    BY <1>6, OthersLeaveRequests DEF StartStep
  <2>3. Quiet' => \A c \in Checks : c \in ListedChecks <=> Wanted(c)'
    BY <2>1, <2>2 DEF Quiet, ListIsWanted, Wanted, Stored
  <2>4. \A c \in Checks : Watched(c)' <=> c \in ListedChecks
    BY <1>6, ReconcileWatchesListed
  <2> QED BY <2>1, <2>3, <2>4 DEF ListIsWanted, NoSignalLost, Quiet
<1>7. CASE ReceiveSync \/ ReloadTick
  <2>1. start'.pc = "list"
    BY <1>7 DEF ReceiveSync, ReloadTick, TypeOK
  <2> QED BY <2>1 DEF ListIsWanted, NoSignalLost
<1>8. CASE Shutdown
  <2>1. start'.pc = "stopped"
    BY <1>8 DEF Shutdown, TypeOK
  <2> QED BY <2>1 DEF ListIsWanted, NoSignalLost
<1>9. ASSUME NEW c \in Checks, Delete(c) PROVE FALSE
  BY <1>9 DEF Delete, TogglesOnly
<1> QED BY <1>1, <1>2, <1>3, <1>4, <1>5, <1>6, <1>7, <1>8, <1>9 DEF Next, StartStep

\* While the table only changes by pausing and resuming and the database answers,
\* no wake-up is lost, however many changes share the one slot of the channel: when
\* the scheduler waits and nothing is on its way, it watches what is enabled.
THEOREM SignalsSuffice == ASSUME TogglesOnly PROVE Spec => []NoSignalLost
<1>1. Init => RequestsToggle /\ ListIsWanted /\ NoSignalLost
  <2> SUFFICES ASSUME Init PROVE RequestsToggle /\ ListIsWanted /\ NoSignalLost
    OBVIOUS
  <2>1. start.pc = "list"
    BY DEF Init
  <2>2. RequestsToggle
    BY DEF Init, RequestsToggle, Procs
  <2> QED BY <2>1, <2>2 DEF ListIsWanted, NoSignalLost
<1>2. /\ TypeOK /\ RequestsToggle /\ ListIsWanted /\ NoSignalLost /\ [Next]_vars
      => (RequestsToggle /\ ListIsWanted /\ NoSignalLost)'
  BY RequestsToggleStep, SignalStep
<1> QED BY <1>1, <1>2, TypeCorrect, PTL DEF Spec

\* A slot of Loops runs a check loop or nothing.
LoopSlots == \A l \in Loops : IsLoop(l) \/ proc[l] = Idle

LEMMA LoopSlotsStep == ASSUME TypeOK, LoopSlots, [Next]_vars PROVE LoopSlots'
<1> SUFFICES ASSUME NEW l \in Loops PROVE proc'[l].op = "loop" \/ proc'[l] = Idle
  BY DEF LoopSlots, IsLoop
<1>l. l \in Procs /\ (proc[l].op = "loop" \/ proc[l] = Idle)
  BY DEF Procs, LoopSlots, IsLoop
<1>1. ASSUME NEW h \in Requests, Arrive(h) \/ Continue(h) PROVE proc'[l] = proc[l]
  BY <1>1, RequestMovesNoLoop
<1>2. ASSUME NEW m \in Loops, LoopStep(m) PROVE proc'[l].op = "loop" \/ proc'[l] = Idle
  <2>1. CASE m # l
    BY <1>2, <1>l, <2>1, LoopMovesItself
  <2>2. CASE LoopExit(l)
    BY <2>2, <1>l DEF LoopExit, TypeOK
  <2>3. CASE Tick(l) \/ CheckerStep(l)
    <3>1. proc[l].pc # "idle"
      BY <2>3 DEF Tick, CheckerStep, CaptureBaseline, NeedsBaseline, Report, ReadyToReport,
                  SaveStatus
    <3>2. proc[l].op = "loop"
      BY <1>l, <3>1, IdleFields
    <3> QED BY <2>3, <3>2, LoopStepKeepsLoop DEF SameLoop
  <2> QED BY <1>2, <2>1, <2>2, <2>3 DEF LoopStep
<1>3. CASE SyncReconcile
  <2>1. PICK slot \in [ToStart -> FreeLoops] :
          proc' = [p \in Procs |->
             IF \E c \in ToStart : slot[c] = p
             THEN NewLoop(CHOOSE c \in ToStart : slot[c] = p)
             ELSE AfterCancel(p, ToStop)]
    BY <1>3 DEF SyncReconcile
  <2>2. CASE \E c \in ToStart : slot[c] = l
    <3> DEFINE d == CHOOSE c \in ToStart : slot[c] = l
    <3>1. d \in ToStart /\ proc'[l] = NewLoop(d)
      BY <1>l, <2>1, <2>2
    <3> HIDE DEF d
    <3> QED BY <3>1, NewLoopType
  <2>3. CASE ~ \E c \in ToStart : slot[c] = l
    <3>1. proc'[l] = AfterCancel(l, ToStop)
      BY <1>l, <2>1, <2>3
    <3>2. CASE IsLoop(l)
      BY <1>l, <3>1, <3>2, AfterCancelType DEF IsLoop
    <3>3. CASE ~IsLoop(l)
      BY <1>l, <3>1, <3>3 DEF IsLoop, AfterCancel
    <3> QED BY <3>2, <3>3
  <2> QED BY <2>2, <2>3
<1>4. CASE Shutdown
  <2>1. proc'[l] = AfterCancel(l, Checks)
    BY <1>4, <1>l DEF Shutdown
  <2>2. CASE IsLoop(l)
    BY <1>l, <2>1, <2>2, AfterCancelType DEF IsLoop
  <2>3. CASE ~IsLoop(l)
    BY <1>l, <2>1, <2>3 DEF IsLoop, AfterCancel
  <2> QED BY <2>2, <2>3
<1>5. CASE UNCHANGED proc
  BY <1>5, <1>l
<1>6. CASE StartStep
  BY <1>3, <1>4, <1>5, <1>6 DEF StartStep, SyncList, SyncListFails, ReceiveSync, ReloadTick
<1>7. CASE (\E t \in Targets : Change(t)) \/ CancelContext \/ (\E c \in Checks : Delete(c))
           \/ UNCHANGED vars
  BY <1>5, <1>7 DEF vars, Change, CancelContext, Delete
<1> QED BY <1>1, <1>2, <1>6, <1>7, <1>l DEF Next

\* An event that was written just now is the one the status will follow.
ReportedIsNotified ==
    \A l \in Loops : LiveLoop(l) /\ ~ctxDone /\ proc[l].pc = "reported" =>
        notified[proc[l].check] = VerdictOf(l)

\* What was listed of a check nobody watches is its status still.
ListIsFresh ==
    start.pc = "reconcile" /\ ~ctxDone =>
        \A e \in start.list :
            active[e.check] = NoLoop /\ Stored(e.check) =>
                rows[e.check].status = e.copy.status

OutageInv == ReportedIsNotified /\ ListIsFresh /\ OutageAnnounced

\* What a step may change of a loop without disturbing OutageInv.
SameView(l) ==
    LiveLoop(l)' => /\ LiveLoop(l)
                    /\ proc'[l].check = proc[l].check
                    /\ proc'[l].copy.status = proc[l].copy.status
                    /\ proc'[l].pc = "reported" <=> proc[l].pc = "reported"
                    /\ proc'[l].pc = "reported" => VerdictOf(l)' = VerdictOf(l)

SameStatus(c) ==
    /\ rows'[c].status = rows[c].status
    /\ rows'[c].life = "stored" => rows[c].life = "stored"

LEMMA ViewsAndStatusKept ==
    ASSUME TypeOK, ActiveIsExact, OutageInv, UNCHANGED <<notified, start, active>>,
           ctxDone' = ctxDone \/ ctxDone',
           \A l \in Loops : SameView(l), \A c \in Checks : SameStatus(c)
    PROVE  OutageInv'
<1>c. ASSUME NEW l \in Loops, LiveLoop(l) PROVE proc[l].check \in Checks
  BY <1>c DEF ActiveIsExact, LiveIsOnFile
<1>0. ~ctxDone' => ~ctxDone
  OBVIOUS
<1>1. ReportedIsNotified'
  BY <1>0 DEF OutageInv, ReportedIsNotified, SameView
<1>2. ListIsFresh'
  <2> SUFFICES ASSUME start.pc = "reconcile", ~ctxDone, NEW e \in start.list,
                      active[e.check] = NoLoop, rows'[e.check].life = "stored"
               PROVE  rows'[e.check].status = e.copy.status
    BY <1>0 DEF ListIsFresh, Stored
  <2>1. e.check \in Checks
    BY DEF TypeOK, Listed
  <2> QED BY <2>1 DEF SameStatus, OutageInv, ListIsFresh, Stored
<1>3. OutageAnnounced'
  <2> SUFFICES ASSUME NEW l \in Loops, LiveLoop(l)', ~ctxDone,
                      rows'[proc'[l].check].life = "stored",
                      rows'[proc'[l].check].status # proc'[l].copy.status,
                      proc'[l].copy.status # ""
               PROVE  /\ notified'[proc'[l].check] # ""
                      /\ proc'[l].pc # "reported"
                            => notified'[proc'[l].check] = rows'[proc'[l].check].status
    BY <1>0 DEF OutageAnnounced, Stored
  <2>1. /\ LiveLoop(l)
        /\ proc'[l].check = proc[l].check
        /\ proc'[l].copy.status = proc[l].copy.status
        /\ proc'[l].pc = "reported" <=> proc[l].pc = "reported"
    BY DEF SameView
  <2>2. SameStatus(proc[l].check)
    BY <2>1, <1>c
  <2>3. Stored(proc[l].check) /\ rows'[proc[l].check].status = rows[proc[l].check].status
    BY <2>1, <2>2 DEF SameStatus, Stored
  <2> QED BY <2>1, <2>3 DEF OutageInv, OutageAnnounced
<1> QED BY <1>1, <1>2, <1>3 DEF OutageInv

LEMMA VerdictFields ==
    ASSUME NEW l, UNCHANGED <<proc[l].check, proc[l].answer>>,
           proc'[l].copy.baseline = proc[l].copy.baseline
    PROVE  VerdictOf(l)' = VerdictOf(l)
  BY DEF VerdictOf, Verdict

\* A loop that is not touched looks the same.
LEMMA UntouchedView ==
    ASSUME NEW l \in Loops, proc'[l] = proc[l] PROVE SameView(l)
  BY VerdictFields DEF SameView, LiveLoop, IsLoop

\* The update of a row by a handler leaves its status, and only reaches stored rows.
LEMMA ToggleKeepsStatus ==
    ASSUME TypeOK, NEW h \in Requests,
           (\E c \in Checks : Toggle(h, c)) \/ WriteMerged(h) \/ TriggerSync(h),
           NEW c \in Checks
    PROVE  SameStatus(c)
<1>1. CASE WriteMerged(h)
  <2>1. PICK r \in Merged(h) :
          \/ rows' = rows
          \/ /\ Stored(proc[h].check)
             /\ rows' = [rows EXCEPT ![proc[h].check] =
                            [r EXCEPT !.status = rows[proc[h].check].status]]
    BY <1>1 DEF WriteMerged
  <2>2. proc[h].copy \in Row
    BY ProcFields DEF Procs
  <2>3. r \in Row
    BY <2>2 DEF Merged, Row, Baselines
  <2>4. [r EXCEPT !.status = rows[proc[h].check].status].status = rows[proc[h].check].status
    BY <2>3 DEF Row
  <2> QED BY <2>1, <2>4 DEF SameStatus, Stored, TypeOK
<1> QED BY <1>1 DEF Toggle, TriggerSync, SameStatus

\* A step of a loop that nobody cancelled, in a database that answers.
LEMMA LiveStep ==
    ASSUME TypeOK, ActiveIsExact, TogglesOnly, NEW l \in Loops, LiveLoop(l), ~ctxDone,
           CheckerStep(l)
    PROVE  /\ Outcomes(l) = {TRUE} /\ l \in Procs
           /\ proc[l].check \in Checks /\ active[proc[l].check] = l
           /\ \A m \in Loops : m # l => proc'[m] = proc[m]
           /\ \A m \in Loops : m # l /\ LiveLoop(m) => proc[m].check # proc[l].check
           /\ UNCHANGED <<start, active, ctxDone>>
<1>1. Outcomes(l) = {TRUE}
  BY DEF Outcomes, Cancelled, LiveLoop, TogglesOnly
<1>2. proc[l].check \in Checks /\ active[proc[l].check] = l
  BY DEF ActiveIsExact, LiveIsOnFile
<1>3. \A m \in Loops : m # l => proc'[m] = proc[m]
  BY LoopMovesItself DEF LoopStep
<1>4. \A m \in Loops : m # l /\ LiveLoop(m) => proc[m].check # proc[l].check
  BY <1>2 DEF ActiveIsExact, LiveIsOnFile
<1> QED BY <1>1, <1>2, <1>3, <1>4
        DEF CheckerStep, CaptureBaseline, Report, SaveStatus, Procs

LEMMA ReportOutage ==
    ASSUME TypeOK, ActiveIsExact, TogglesOnly, OutageInv, NEW l \in Loops, LiveLoop(l),
           ~ctxDone, Report(l)
    PROVE  OutageInv'
<1> DEFINE c == proc[l].check
<1>0. /\ Outcomes(l) = {TRUE} /\ l \in Procs
      /\ c \in Checks
      /\ \A m \in Loops : m # l => proc'[m] = proc[m]
      /\ \A m \in Loops : m # l /\ LiveLoop(m) => proc[m].check # c
      /\ UNCHANGED <<start, active, ctxDone, rows>>
  BY LiveStep DEF CheckerStep, Report
<1>1. notified'[c] = VerdictOf(l) /\ \A d \in Checks : d # c => notified'[d] = notified[d]
  BY <1>0 DEF Report, TypeOK
<1>2. proc'[l] = [proc[l] EXCEPT !.pc = "reported"]
  BY <1>0 DEF Report, TypeOK
<1>3. /\ proc'[l].pc = "reported" /\ proc'[l].check = c
      /\ proc'[l].copy = proc[l].copy /\ proc'[l].answer = proc[l].answer
      /\ LiveLoop(l)'
  BY <1>0, <1>2 DEF TypeOK, Proc, LiveLoop, IsLoop
<1>4. VerdictOf(l)' = VerdictOf(l) /\ VerdictOf(l) # ""
  BY <1>3, VerdictFields DEF VerdictOf, Verdict
<1>5. ASSUME NEW m \in Loops, m # l, LiveLoop(m)'
      PROVE  /\ LiveLoop(m) /\ proc'[m] = proc[m]
             /\ notified'[proc[m].check] = notified[proc[m].check]
             /\ VerdictOf(m)' = VerdictOf(m)
  <2>1. proc'[m] = proc[m] /\ LiveLoop(m)
    BY <1>0, <1>5 DEF LiveLoop, IsLoop
  <2>2. proc[m].check \in Checks /\ proc[m].check # c
    BY <1>0, <1>5, <2>1 DEF ActiveIsExact, LiveIsOnFile
  <2> QED BY <1>1, <2>1, <2>2, VerdictFields
<1> HIDE DEF c
<1>6. ReportedIsNotified'
  <2> SUFFICES ASSUME NEW m \in Loops, LiveLoop(m)', proc'[m].pc = "reported"
               PROVE  notified'[proc'[m].check] = VerdictOf(m)'
    BY DEF ReportedIsNotified
  <2>1. CASE m = l
    BY <1>1, <1>3, <1>4, <2>1
  <2>2. CASE m # l
    <3>1. /\ LiveLoop(m) /\ proc'[m] = proc[m]
          /\ notified'[proc[m].check] = notified[proc[m].check]
          /\ VerdictOf(m)' = VerdictOf(m)
      BY <1>5, <2>2
    <3>2. notified[proc[m].check] = VerdictOf(m)
      BY <3>1 DEF OutageInv, ReportedIsNotified
    <3> QED BY <3>1, <3>2
  <2> QED BY <2>1, <2>2
<1>7. ListIsFresh'
  BY <1>0 DEF OutageInv, ListIsFresh, Stored
<1>8. OutageAnnounced'
  <2> SUFFICES ASSUME NEW m \in Loops, LiveLoop(m)',
                      rows[proc'[m].check].life = "stored",
                      rows[proc'[m].check].status # proc'[m].copy.status,
                      proc'[m].copy.status # ""
               PROVE  /\ notified'[proc'[m].check] # ""
                      /\ proc'[m].pc # "reported"
                            => notified'[proc'[m].check] = rows[proc'[m].check].status
    BY <1>0 DEF OutageAnnounced, Stored
  <2>1. CASE m = l
    BY <1>1, <1>3, <1>4, <2>1
  <2>2. CASE m # l
    <3>1. /\ LiveLoop(m) /\ proc'[m] = proc[m]
          /\ notified'[proc[m].check] = notified[proc[m].check]
      BY <1>5, <2>2
    <3> QED BY <3>1 DEF OutageInv, OutageAnnounced, Stored
  <2> QED BY <2>1, <2>2
<1> QED BY <1>6, <1>7, <1>8 DEF OutageInv

LEMMA SaveOutage ==
    ASSUME TypeOK, ActiveIsExact, TogglesOnly, OutageInv, NEW l \in Loops, LiveLoop(l),
           ~ctxDone, SaveStatus(l)
    PROVE  OutageInv'
<1> DEFINE c == proc[l].check
<1> DEFINE v == VerdictOf(l)
<1>0. /\ Outcomes(l) = {TRUE} /\ l \in Procs
      /\ c \in Checks /\ active[c] = l
      /\ \A m \in Loops : m # l => proc'[m] = proc[m]
      /\ \A m \in Loops : m # l /\ LiveLoop(m) => proc[m].check # c
      /\ UNCHANGED <<start, active, ctxDone, notified>>
  BY LiveStep DEF CheckerStep, SaveStatus
<1>1. rows' = IF Stored(c) THEN [rows EXCEPT ![c].status = v] ELSE rows
  BY <1>0 DEF SaveStatus
<1>2. /\ \A d \in Checks : d # c => rows'[d] = rows[d]
      /\ rows'[c].life = rows[c].life
      /\ Stored(c) => rows'[c].status = v
  BY <1>0, <1>1 DEF TypeOK, Row, Stored
<1>3. /\ proc'[l].pc = "ticking" /\ proc'[l].check = c
      /\ proc'[l].copy = proc[l].copy
  <2>1. proc'[l] = [proc[l] EXCEPT !.pc = "ticking", !.answer = Unreachable]
    BY <1>0 DEF SaveStatus, TypeOK, AfterRun, LiveLoop
  <2> QED BY <1>0, <2>1 DEF TypeOK, Proc
<1>4. v # "" /\ (proc[l].copy.status \notin {"", v} => notified[c] = v)
  <2>1. CASE proc[l].pc = "reported"
    BY <2>1 DEF OutageInv, ReportedIsNotified, VerdictOf, Verdict
  <2>2. CASE proc[l].pc # "reported"
    BY <2>2 DEF SaveStatus, Transition, VerdictOf, Verdict
  <2> QED BY <2>1, <2>2
<1>5. ASSUME NEW m \in Loops, m # l, LiveLoop(m)'
      PROVE  /\ LiveLoop(m) /\ proc'[m] = proc[m]
             /\ rows'[proc[m].check] = rows[proc[m].check]
             /\ VerdictOf(m)' = VerdictOf(m)
  <2>1. proc'[m] = proc[m] /\ LiveLoop(m)
    BY <1>0, <1>5 DEF LiveLoop, IsLoop
  <2>2. proc[m].check \in Checks /\ proc[m].check # c
    BY <1>0, <1>5, <2>1 DEF ActiveIsExact, LiveIsOnFile
  <2> QED BY <1>2, <2>1, <2>2, VerdictFields
<1> HIDE DEF c, v
<1>6. ReportedIsNotified'
  BY <1>0, <1>3, <1>5 DEF OutageInv, ReportedIsNotified
<1>7. ListIsFresh'
  <2> SUFFICES ASSUME start.pc = "reconcile", NEW e \in start.list,
                      active[e.check] = NoLoop, rows'[e.check].life = "stored"
               PROVE  rows'[e.check].status = e.copy.status
    BY <1>0 DEF ListIsFresh, Stored
  <2>1. e.check \in Checks
    BY DEF TypeOK, Listed
  <2>2. e.check # c
    BY <1>0, ConstantsOK
  <2> QED BY <1>2, <2>1, <2>2 DEF OutageInv, ListIsFresh, Stored
<1>8. OutageAnnounced'
  <2> SUFFICES ASSUME NEW m \in Loops, LiveLoop(m)',
                      rows'[proc'[m].check].life = "stored",
                      rows'[proc'[m].check].status # proc'[m].copy.status,
                      proc'[m].copy.status # ""
               PROVE  /\ notified[proc'[m].check] # ""
                      /\ proc'[m].pc # "reported"
                            => notified[proc'[m].check] = rows'[proc'[m].check].status
    BY <1>0 DEF OutageAnnounced, Stored
  <2>1. CASE m = l
    BY <1>2, <1>3, <1>4, <2>1 DEF Stored
  <2>2. CASE m # l
    <3>1. /\ LiveLoop(m) /\ proc'[m] = proc[m]
          /\ rows'[proc[m].check] = rows[proc[m].check]
      BY <1>5, <2>2
    <3> QED BY <3>1 DEF OutageInv, OutageAnnounced, Stored
  <2> QED BY <2>1, <2>2
<1> QED BY <1>6, <1>7, <1>8 DEF OutageInv

\* The steps of a loop that neither write a status nor an event.
LEMMA QuietStepView ==
    ASSUME TypeOK, NEW l \in Loops, Tick(l) \/ LoopExit(l) \/ CaptureBaseline(l)
    PROVE  SameView(l) /\ UNCHANGED notified /\ \A c \in Checks : SameStatus(c)
<1>l. l \in Procs /\ proc[l] \in Proc /\ proc[l].copy \in Row
  BY ProcFields DEF Procs
<1>1. CASE Tick(l)
  <2>1. PICK a : proc' = [proc EXCEPT ![l] = [proc[l] EXCEPT !.pc = "probed", !.answer = a]]
    BY <1>1 DEF Tick
  <2>2. proc'[l] = [proc[l] EXCEPT !.pc = "probed", !.answer = a]
    BY <1>l, <2>1 DEF TypeOK
  <2>3. /\ proc'[l].pc = "probed" /\ proc[l].pc = "ticking"
        /\ proc'[l].check = proc[l].check /\ proc'[l].copy = proc[l].copy
        /\ proc'[l].op = proc[l].op /\ proc'[l].cancelled = proc[l].cancelled
    <3>1. proc[l].pc = "ticking"
      BY <1>1 DEF Tick
    <3> QED BY <1>l, <2>2, <3>1 DEF Proc
  <2> QED BY <1>1, <2>3 DEF Tick, SameView, LiveLoop, IsLoop, SameStatus
<1>2. CASE LoopExit(l)
  <2>1. proc'[l] = Idle
    BY <1>2, <1>l DEF LoopExit, TypeOK
  <2> QED BY <1>2, <2>1, IdleFields DEF LoopExit, SameView, LiveLoop, IsLoop, SameStatus
<1>3. CASE CaptureBaseline(l)
  <2>0. proc[l].pc = "probed"
    BY <1>3 DEF CaptureBaseline, NeedsBaseline
  <2>1. PICK ok \in Outcomes(l) :
          proc' = IF ok THEN [proc EXCEPT ![l].pc = "captured",
                                          ![l].copy.baseline = proc[l].answer]
                  ELSE [proc EXCEPT ![l].pc = "captured"]
    BY <1>3 DEF CaptureBaseline
  <2>2. /\ proc'[l].pc = "captured"
        /\ proc'[l].check = proc[l].check /\ proc'[l].copy.status = proc[l].copy.status
        /\ proc'[l].op = proc[l].op /\ proc'[l].cancelled = proc[l].cancelled
    <3> DEFINE q == [proc[l] EXCEPT !.pc = "captured", !.copy.baseline = proc[l].answer]
    <3>1. CASE ok
      <4>1. proc'[l] = q
        BY <1>l, <2>1, <3>1 DEF TypeOK
      <4>2. /\ q.pc = "captured" /\ q.check = proc[l].check
            /\ q.copy = [proc[l].copy EXCEPT !.baseline = proc[l].answer]
            /\ q.op = proc[l].op /\ q.cancelled = proc[l].cancelled
        BY <1>l DEF Proc
      <4>3. q.copy.status = proc[l].copy.status
        BY <1>l, <4>2 DEF Row
      <4> QED BY <4>1, <4>2, <4>3
    <3>2. CASE ~ok
      <4>1. proc'[l] = [proc[l] EXCEPT !.pc = "captured"]
        BY <1>l, <2>1, <3>2 DEF TypeOK
      <4> QED BY <1>l, <4>1 DEF Proc
    <3> QED BY <3>1, <3>2
  <2>3. \/ rows' = rows
        \/ rows' = [rows EXCEPT ![proc[l].check].baseline = proc[l].answer]
    BY <1>3 DEF CaptureBaseline
  <2>4. \A c \in Checks : rows'[c].status = rows[c].status /\ rows'[c].life = rows[c].life
    BY <2>3 DEF TypeOK, Row
  <2> QED BY <1>3, <2>0, <2>2, <2>4 DEF CaptureBaseline, SameView, LiveLoop, IsLoop, SameStatus
<1> QED BY <1>1, <1>2, <1>3

LEMMA LoopOutage ==
    ASSUME TypeOK, ActiveIsExact, TogglesOnly, LoopSlots, OutageInv,
           NEW l \in Loops, LoopStep(l)
    PROVE  OutageInv'
<1>0. UNCHANGED <<start, active, ctxDone>>
  BY DEF LoopStep, Tick, LoopExit, CheckerStep, CaptureBaseline, Report, SaveStatus
<1>1. \A m \in Loops : m # l => SameView(m)
  BY LoopMovesItself, UntouchedView
<1>2. CASE Tick(l) \/ LoopExit(l) \/ CaptureBaseline(l)
  BY <1>0, <1>1, <1>2, QuietStepView, ViewsAndStatusKept
<1>3. CASE Report(l) \/ SaveStatus(l)
  <2>1. CASE LiveLoop(l) /\ ~ctxDone
    BY <1>3, <2>1, ReportOutage, SaveOutage
  <2>2. CASE ctxDone
    BY <1>0, <2>2 DEF OutageInv, ReportedIsNotified, ListIsFresh, OutageAnnounced
  <2>3. CASE ~LiveLoop(l)
    <3>1. proc[l].pc # "idle"
      BY <1>3 DEF Report, ReadyToReport, SaveStatus
    <3>2. IsLoop(l) /\ Cancelled(l)
      BY <2>3, <3>1, IdleFields DEF LoopSlots, LiveLoop, Cancelled
    <3>3. UNCHANGED <<rows, notified>>
      BY <3>2, CancelledWritesNothing
    <3>4. SameLoop(l)
      BY <1>3, LoopStepKeepsLoop DEF CheckerStep
    <3>5. SameView(l)
      BY <2>3, <3>2, <3>4 DEF SameView, SameLoop, LiveLoop, IsLoop
    <3>6. \A c \in Checks : SameStatus(c)
      BY <3>3 DEF SameStatus
    <3> QED BY <1>0, <1>1, <3>3, <3>5, <3>6, ViewsAndStatusKept
  <2> QED BY <2>1, <2>2, <2>3
<1> QED BY <1>2, <1>3 DEF LoopStep, CheckerStep

\* A new loop starts from the status its row has.
LEMMA ReconcileOutage ==
    ASSUME TypeOK, ActiveIsExact, OutageInv, SyncReconcile PROVE OutageInv'
<1>0. UNCHANGED <<rows, notified, ctxDone>> /\ start.pc = "reconcile" /\ start'.pc = "select"
  BY DEF SyncReconcile
<1>1. PICK slot \in [ToStart -> FreeLoops] :
        proc' = [p \in Procs |->
           IF \E c \in ToStart : slot[c] = p
           THEN NewLoop(CHOOSE c \in ToStart : slot[c] = p)
           ELSE AfterCancel(p, ToStop)]
  BY DEF SyncReconcile
<1>2. ASSUME NEW l \in Loops, LiveLoop(l)'
      PROVE  \/ LiveLoop(l) /\ proc'[l] = proc[l]
             \/ \E c \in ToStart : proc'[l] = NewLoop(c)
  <2>l. l \in Procs /\ proc[l] \in Proc
    BY DEF Procs, TypeOK
  <2>1. CASE \E c \in ToStart : slot[c] = l
    <3> DEFINE d == CHOOSE c \in ToStart : slot[c] = l
    <3>1. d \in ToStart /\ proc'[l] = NewLoop(d)
      BY <1>1, <2>l, <2>1
    <3> QED BY <3>1
  <2>2. CASE ~ \E c \in ToStart : slot[c] = l
    <3>1. proc'[l] = proc[l] \/ proc'[l] = [proc[l] EXCEPT !.cancelled = TRUE]
      BY <1>1, <2>l, <2>2 DEF AfterCancel
    <3>2. [proc[l] EXCEPT !.cancelled = TRUE].cancelled = TRUE
      BY <2>l DEF Proc
    <3>3. proc'[l] = proc[l]
      BY <1>2, <3>1, <3>2 DEF LiveLoop
    <3> QED BY <1>2, <3>3 DEF LiveLoop, IsLoop
  <2> QED BY <2>1, <2>2
<1>3. ASSUME NEW c \in ToStart, ~ctxDone, rows[c].life = "stored"
      PROVE  rows[c].status = NewLoop(c).copy.status
  <2>1. PICK e \in start.list : e.check = c
    BY DEF ToStart, ListedChecks
  <2>2. /\ (CHOOSE x \in start.list : x.check = c) \in start.list
        /\ (CHOOSE x \in start.list : x.check = c).check = c
    BY <2>1
  <2>3. PICK x \in start.list : x.check = c /\ RowListed(c) = x.copy
    BY <2>2 DEF RowListed
  <2>4. rows[c].status = x.copy.status
    BY <1>0, <1>3, <2>3 DEF OutageInv, ListIsFresh, Stored, ToStart
  <2>5. NewLoop(c).copy = RowListed(c)
    BY DEF NewLoop, Idle
  <2> QED BY <2>3, <2>4, <2>5
<1>4. ReportedIsNotified'
  <2> SUFFICES ASSUME NEW l \in Loops, LiveLoop(l)', ~ctxDone, proc'[l].pc = "reported"
               PROVE  notified[proc'[l].check] = VerdictOf(l)'
    BY <1>0 DEF ReportedIsNotified
  <2>1. ~ \E c \in ToStart : proc'[l] = NewLoop(c)
    BY NewLoopType
  <2>2. LiveLoop(l) /\ proc'[l] = proc[l]
    BY <1>2, <2>1
  <2>3. notified[proc[l].check] = VerdictOf(l)
    BY <2>2 DEF OutageInv, ReportedIsNotified
  <2> QED BY <2>2, <2>3, VerdictFields
<1>5. OutageAnnounced'
  <2> SUFFICES ASSUME NEW l \in Loops, LiveLoop(l)', ~ctxDone,
                      rows[proc'[l].check].life = "stored",
                      rows[proc'[l].check].status # proc'[l].copy.status,
                      proc'[l].copy.status # ""
               PROVE  /\ notified[proc'[l].check] # ""
                      /\ proc'[l].pc # "reported"
                            => notified[proc'[l].check] = rows[proc'[l].check].status
    BY <1>0 DEF OutageAnnounced, Stored
  <2>1. CASE LiveLoop(l) /\ proc'[l] = proc[l]
    BY <2>1 DEF OutageInv, OutageAnnounced, Stored
  <2>2. ASSUME NEW c \in ToStart, proc'[l] = NewLoop(c) PROVE FALSE
    <3>1. proc'[l].check = c
      BY <2>2, NewLoopType
    <3>2. rows[c].status = NewLoop(c).copy.status
      BY <1>3, <3>1
    <3> QED BY <2>2, <3>1, <3>2
  <2> QED BY <1>2, <2>1, <2>2
<1> QED BY <1>0, <1>4, <1>5 DEF OutageInv, ListIsFresh

LEMMA OutageStep ==
    ASSUME TypeOK, ActiveIsExact, TogglesOnly, RequestsToggle, LoopSlots, OutageInv,
           [Next]_vars
    PROVE  OutageInv'
<1>1. ASSUME NEW h \in Requests, Arrive(h) \/ Continue(h) PROVE OutageInv'
  <2>1. (\E c \in Checks : Toggle(h, c)) \/ WriteMerged(h) \/ TriggerSync(h)
    BY <1>1, ToggleSteps
  <2>2. UNCHANGED <<notified, ctxDone, start, active>>
    BY <2>1, ToggleEffect
  <2>3. \A l \in Loops : SameView(l)
    BY <1>1, RequestMovesNoLoop, UntouchedView
  <2>4. \A c \in Checks : SameStatus(c)
    BY <2>1, ToggleKeepsStatus
  <2> QED BY <2>2, <2>3, <2>4, ViewsAndStatusKept
<1>2. ASSUME NEW l \in Loops, LoopStep(l) PROVE OutageInv'
  BY <1>2, LoopOutage
<1>3. CASE (\E t \in Targets : Change(t)) \/ CancelContext \/ UNCHANGED vars
  <2>1. /\ UNCHANGED <<rows, notified, start, active, proc>>
        /\ ctxDone' = ctxDone \/ ctxDone'
    BY <1>3 DEF Change, CancelContext, vars
  <2>2. \A l \in Loops : SameView(l)
    BY <2>1, UntouchedView
  <2> QED BY <2>1, <2>2, ViewsAndStatusKept DEF SameStatus
<1>4. CASE SyncList \/ SyncListFails \/ ReceiveSync \/ ReloadTick
  <2>1. UNCHANGED <<rows, notified, ctxDone, active, proc>>
    BY <1>4 DEF SyncList, SyncListFails, ReceiveSync, ReloadTick
  <2>2. ReportedIsNotified' /\ OutageAnnounced'
    <3>1. \A l \in Loops : VerdictOf(l)' = VerdictOf(l)
      BY <2>1, VerdictFields
    <3> QED BY <2>1, <3>1 DEF OutageInv, ReportedIsNotified, OutageAnnounced, LiveLoop,
                IsLoop, Stored
  <2>3. CASE SyncList
    <3>1. start' = [pc |-> "reconcile", list |-> EnabledRows]
      BY <2>3 DEF SyncList
    <3>2. \A e \in EnabledRows : rows[e.check].status = e.copy.status
      BY DEF EnabledRows
    <3> QED BY <2>1, <2>2, <3>1, <3>2 DEF OutageInv, ListIsFresh
  <2>4. CASE SyncListFails \/ ReceiveSync \/ ReloadTick
    <3>1. start'.pc # "reconcile"
      BY <2>4 DEF SyncListFails, ReceiveSync, ReloadTick, TypeOK
    <3> QED BY <2>2, <3>1 DEF OutageInv, ListIsFresh
  <2> QED BY <1>4, <2>3, <2>4
<1>5. CASE SyncReconcile
  BY <1>5, ReconcileOutage
<1>6. CASE Shutdown
  BY <1>6 DEF Shutdown, OutageInv, ReportedIsNotified, ListIsFresh, OutageAnnounced
<1>7. ASSUME NEW c \in Checks, Delete(c) PROVE FALSE
  BY <1>7 DEF Delete, TogglesOnly
<1> QED BY <1>1, <1>2, <1>3, <1>4, <1>5, <1>6, <1>7 DEF Next, StartStep

\* While pauses and resumes are the only requests and the database answers, a loop
\* that started from a known status stores no other one before the event that names
\* it: a restart of the loop in between neither loses nor invents a transition.
THEOREM OutagesAreAnnounced == ASSUME TogglesOnly PROVE Spec => []OutageAnnounced
<1>1. Init => RequestsToggle /\ LoopSlots /\ OutageInv
  <2> SUFFICES ASSUME Init PROVE RequestsToggle /\ LoopSlots /\ OutageInv
    OBVIOUS
  <2>1. start.pc = "list" /\ \A p \in Procs : proc[p] = Idle
    BY DEF Init
  <2>2. \A l \in Loops : ~LiveLoop(l)
    BY <2>1, IdleFields DEF LiveLoop, IsLoop, Procs
  <2> QED BY <2>1, <2>2 DEF RequestsToggle, LoopSlots, OutageInv, ReportedIsNotified,
              ListIsFresh, OutageAnnounced, Procs
<1>2. /\ TypeOK /\ ActiveIsExact /\ RequestsToggle /\ LoopSlots /\ OutageInv /\ [Next]_vars
      => (RequestsToggle /\ LoopSlots /\ OutageInv)'
  BY RequestsToggleStep, LoopSlotsStep, OutageStep
<1>3. OutageInv => OutageAnnounced
  BY DEF OutageInv
<1> QED BY <1>1, <1>2, <1>3, TypeCorrect, BooksExact, PTL DEF Spec

-----------------------------------------------------------------------------
(* Where nobody edits, pauses or resumes: what a DNS warning rests on *)

\* Update writes the baseline of a copy it read earlier; the other writers do not.
NoRewrites == Ops \cap {"edit", "toggle"} = {}

\* A copy somebody holds of a row: the row exists, or did, and if the copy has a
\* baseline the row has one.
Held(c, r) ==
    /\ rows[c].life # "unborn"
    /\ rows[c].life = "stored" /\ r.baseline # NoBaseline => rows[c].baseline # NoBaseline

HeldAfter(c, r) ==
    /\ rows'[c].life # "unborn"
    /\ rows'[c].life = "stored" /\ r.baseline # NoBaseline => rows'[c].baseline # NoBaseline

CopiesHeld ==
    /\ \A p \in Procs : /\ proc[p].pc # "merge"
                        /\ proc[p].check \in Checks => Held(proc[p].check, proc[p].copy)
                        /\ \A e \in proc[p].todo : Held(e.check, e.copy)
    /\ \A e \in start.list : Held(e.check, e.copy)

\* What every write does to a row: it never loses a baseline, and warns only of a row
\* that has one.
SoundWrite(c) ==
    /\ rows[c].life # "unborn" => rows'[c].life # "unborn"
    /\ rows'[c].life = "stored" /\ rows[c].life # "unborn" =>
           /\ rows[c].life = "stored"
           /\ rows[c].baseline # NoBaseline => rows'[c].baseline # NoBaseline
    /\ rows'[c].life = "stored" /\ rows'[c].status = "warn" =>
           \/ rows'[c].baseline # NoBaseline
           \/ rows[c].life = "stored" /\ rows[c].status = "warn"

SoundWrites == \A c \in Checks : SoundWrite(c)

LEMMA NoWrite == ASSUME rows' = rows PROVE SoundWrites
  BY DEF SoundWrites, SoundWrite

LEMMA BaselineWrite ==
    ASSUME TypeOK, NEW d, NEW a, a # NoBaseline,
           rows' = rows \/ rows' = [rows EXCEPT ![d].baseline = a]
    PROVE  /\ SoundWrites
           /\ d \in Checks /\ rows' # rows => rows'[d].baseline = a
<1>1. ASSUME NEW c \in Checks, c = d, rows' # rows
      PROVE  /\ rows'[c].life = rows[c].life /\ rows'[c].status = rows[c].status
             /\ rows'[c].baseline = a
  <2>1. rows'[c] = [rows[c] EXCEPT !.baseline = a] /\ rows[c] \in Row
    BY <1>1 DEF TypeOK
  <2> QED BY <2>1 DEF Row
<1>2. ASSUME NEW c \in Checks, c # d \/ rows' = rows PROVE rows'[c] = rows[c]
  BY <1>2 DEF TypeOK
<1>3. SoundWrites
  BY <1>1, <1>2 DEF SoundWrites, SoundWrite
<1> QED BY <1>1, <1>3

LEMMA StatusWrite ==
    ASSUME TypeOK, NEW d, NEW s,
           rows' = rows \/ rows' = [rows EXCEPT ![d].status = s],
           s = "warn" /\ d \in Checks /\ rows[d].life = "stored" =>
               rows[d].baseline # NoBaseline
    PROVE  SoundWrites
<1>1. ASSUME NEW c \in Checks, c = d, rows' # rows
      PROVE  /\ rows'[c].life = rows[c].life /\ rows'[c].status = s
             /\ rows'[c].baseline = rows[c].baseline
  <2>1. rows'[c] = [rows[c] EXCEPT !.status = s] /\ rows[c] \in Row
    BY <1>1 DEF TypeOK
  <2> QED BY <2>1 DEF Row
<1>2. ASSUME NEW c \in Checks, c # d \/ rows' = rows PROVE rows'[c] = rows[c]
  BY <1>2 DEF TypeOK
<1> QED BY <1>1, <1>2 DEF SoundWrites, SoundWrite

LEMMA WarningsKept == ASSUME WarningHasBaseline, SoundWrites PROVE WarningHasBaseline'
<1> SUFFICES ASSUME NEW c \in Checks, rows'[c].life = "stored", rows'[c].status = "warn"
             PROVE  rows'[c].baseline # NoBaseline
  BY DEF WarningHasBaseline, Stored
<1>1. SoundWrite(c)
  BY DEF SoundWrites
<1> QED BY <1>1 DEF SoundWrite, WarningHasBaseline, Stored

LEMMA HeldStays ==
    ASSUME SoundWrites, NEW c \in Checks, NEW r, Held(c, r) PROVE HeldAfter(c, r)
<1>1. SoundWrite(c)
  BY DEF SoundWrites
<1> QED BY <1>1 DEF SoundWrite, Held, HeldAfter

LEMMA StoredIsHeld == ASSUME NEW c, Stored(c) PROVE Held(c, rows[c])
  BY DEF Stored, Held

LEMMA EnabledHeld == \A e \in EnabledRows : Held(e.check, e.copy)
<1> SUFFICES ASSUME NEW e \in EnabledRows PROVE Held(e.check, e.copy)
  OBVIOUS
<1>1. PICK c \in Checks : e = [check |-> c, copy |-> rows[c]] /\ Stored(c)
  BY DEF EnabledRows
<1>2. e.check = c /\ e.copy = rows[c]
  BY <1>1
<1> QED BY <1>1, <1>2, StoredIsHeld

\* A step that gives one process a new value.
LEMMA OneProcHeld ==
    ASSUME TypeOK, CopiesHeld, SoundWrites, start' = start, NEW p \in Procs, NEW q,
           proc' = [proc EXCEPT ![p] = q],
           q.pc # "merge",
           q.check \in Checks => HeldAfter(q.check, q.copy),
           \A e \in q.todo : HeldAfter(e.check, e.copy)
    PROVE  CopiesHeld'
<1>1. proc'[p] = q /\ \A o \in Procs : o # p => proc'[o] = proc[o]
  BY DEF TypeOK
<1>2. ASSUME NEW o \in Procs, o # p
      PROVE  /\ proc'[o].pc # "merge"
             /\ proc'[o].check \in Checks => HeldAfter(proc'[o].check, proc'[o].copy)
             /\ \A e \in proc'[o].todo : HeldAfter(e.check, e.copy)
  <2>1. proc'[o] = proc[o] /\ proc[o].todo \subseteq Listed
    BY <1>1, <1>2, ProcFields
  <2>2. proc[o].check \in Checks => HeldAfter(proc[o].check, proc[o].copy)
    BY HeldStays DEF CopiesHeld
  <2>3. \A e \in proc[o].todo : HeldAfter(e.check, e.copy)
    BY <2>1, HeldStays DEF CopiesHeld, Listed
  <2> QED BY <2>1, <2>2, <2>3 DEF CopiesHeld
<1>3. \A e \in start.list : HeldAfter(e.check, e.copy)
  <2>1. start.list \subseteq Listed
    BY DEF TypeOK
  <2> QED BY <2>1, HeldStays DEF CopiesHeld, Listed
<1> QED BY <1>1, <1>2, <1>3 DEF CopiesHeld, Held, HeldAfter

LEMMA IdleHolds == Idle.pc # "merge" /\ Idle.check \notin Checks /\ Idle.todo = {}
  BY ConstantsOK DEF Idle

\* So do a process that ends, and one that only moves on.
LEMMA EndHeld ==
    ASSUME TypeOK, CopiesHeld, SoundWrites, start' = start, NEW p \in Procs,
           proc' = [proc EXCEPT ![p] = Idle]
    PROVE  CopiesHeld'
<1>1. \A e \in Idle.todo : HeldAfter(e.check, e.copy)
  BY IdleHolds
<1> QED BY <1>1, IdleHolds, OneProcHeld

LEMMA MoveHeld ==
    ASSUME TypeOK, CopiesHeld, SoundWrites, start' = start, NEW p \in Procs, NEW q,
           proc' = [proc EXCEPT ![p] = q],
           q.pc # "merge", q.check \in Checks => q.check = proc[p].check,
           q.check \in Checks => q.copy = proc[p].copy, q.todo \subseteq proc[p].todo
    PROVE  CopiesHeld'
<1>1. q.check \in Checks => HeldAfter(q.check, q.copy)
  BY HeldStays DEF CopiesHeld
<1>2. ASSUME NEW e \in q.todo PROVE HeldAfter(e.check, e.copy)
  <2>1. e \in Listed /\ e \in proc[p].todo
    BY ProcFields
  <2> QED BY <2>1, HeldStays DEF CopiesHeld, Listed
<1> QED BY <1>1, <1>2, OneProcHeld

\* A verdict of "warn" rests on a baseline in the copy, so on one in the row.
LEMMA WarnIsHeld ==
    ASSUME CopiesHeld, NEW p \in Procs, VerdictOf(p) = "warn",
           proc[p].check \in Checks, rows[proc[p].check].life = "stored"
    PROVE  rows[proc[p].check].baseline # NoBaseline
<1>1. proc[p].copy.baseline # NoBaseline
  BY DEF VerdictOf, Verdict
<1> QED BY <1>1 DEF CopiesHeld, Held

LEMMA CheckerHeld ==
    ASSUME TypeOK, CopiesHeld, NEW p \in Procs, CheckerStep(p)
    PROVE  SoundWrites /\ CopiesHeld'
<1> DEFINE c == proc[p].check
<1>0. start' = start /\ proc[p] \in Proc /\ proc[p].copy \in Row /\ proc[p].pc # "merge"
  BY ProcFields DEF CheckerStep, CaptureBaseline, Report, SaveStatus, CopiesHeld
<1>1. CASE CaptureBaseline(p)
  <2> DEFINE a == proc[p].answer
  <2>1. PICK ok \in Outcomes(p) :
          /\ rows' = IF ok /\ Stored(c) THEN [rows EXCEPT ![c].baseline = a] ELSE rows
          /\ proc' = IF ok THEN [proc EXCEPT ![p].pc = "captured", ![p].copy.baseline = a]
                     ELSE [proc EXCEPT ![p].pc = "captured"]
    BY <1>1 DEF CaptureBaseline
  <2>2. a # NoBaseline
    <3>1. a \in Results /\ a # Unreachable /\ a \notin Recordless
      BY <1>1, ProcFields DEF CaptureBaseline, NeedsBaseline, VerdictOf, Verdict
    <3> QED BY <3>1, ConstantsOK DEF Results
  <2>3. /\ SoundWrites
        /\ c \in Checks /\ rows' # rows => rows'[c].baseline = a
    BY <2>1, <2>2, BaselineWrite
  <2>4. CASE ok
    <3> DEFINE q == [proc[p] EXCEPT !.pc = "captured", !.copy.baseline = a]
    <3>1. /\ q.pc = "captured" /\ q.check = c /\ q.todo = proc[p].todo
          /\ q.copy = [proc[p].copy EXCEPT !.baseline = a]
      BY <1>0 DEF Proc
    <3>2. proc' = [proc EXCEPT ![p] = q]
      BY <2>1, <2>4
    <3>3. ASSUME c \in Checks PROVE HeldAfter(c, q.copy)
      <4>1. HeldAfter(c, proc[p].copy)
        BY <2>3, <3>3, HeldStays DEF CopiesHeld
      <4>2. CASE Stored(c)
        <5>1. rows' = [rows EXCEPT ![c].baseline = a]
          BY <2>1, <2>4, <4>2
        <5>2. rows'[c].baseline = a
          <6>1. rows'[c] = [rows[c] EXCEPT !.baseline = a] /\ rows[c] \in Row
            BY <3>3, <5>1 DEF TypeOK
          <6> QED BY <6>1 DEF Row
        <5> QED BY <2>2, <4>1, <5>2 DEF HeldAfter
      <4>3. CASE ~Stored(c)
        <5>1. rows' = rows
          BY <2>1, <4>3
        <5> QED BY <4>1, <4>3, <5>1 DEF HeldAfter, Stored
      <4> QED BY <4>2, <4>3
    <3>4. ASSUME NEW e \in q.todo PROVE HeldAfter(e.check, e.copy)
      <4>1. e \in Listed /\ e \in proc[p].todo
        BY <3>1, ProcFields
      <4> QED BY <2>3, <4>1, HeldStays DEF CopiesHeld, Listed
    <3> HIDE DEF q
    <3> QED BY <1>0, <2>3, <3>1, <3>2, <3>3, <3>4, OneProcHeld
  <2>5. CASE ~ok
    <3> DEFINE q == [proc[p] EXCEPT !.pc = "captured"]
    <3>1. q.pc = "captured" /\ q.check = c /\ q.copy = proc[p].copy /\ q.todo = proc[p].todo
      BY <1>0 DEF Proc
    <3>2. proc' = [proc EXCEPT ![p] = q]
      BY <2>1, <2>5
    <3> HIDE DEF q
    <3> QED BY <1>0, <2>3, <3>1, <3>2, MoveHeld
  <2> QED BY <2>3, <2>4, <2>5
<1>2. CASE Report(p)
  <2> DEFINE q == [proc[p] EXCEPT !.pc = "reported"]
  <2>1. q.pc = "reported" /\ q.check = c /\ q.copy = proc[p].copy /\ q.todo = proc[p].todo
    BY <1>0 DEF Proc
  <2>2. proc' = [proc EXCEPT ![p] = q] /\ rows' = rows
    BY <1>2 DEF Report
  <2>3. SoundWrites
    BY <2>2, NoWrite
  <2> HIDE DEF q
  <2> QED BY <1>0, <2>1, <2>2, <2>3, MoveHeld
<1>3. CASE SaveStatus(p)
  <2>1. rows' = rows \/ rows' = [rows EXCEPT ![c].status = VerdictOf(p)]
    BY <1>3 DEF SaveStatus
  <2>2. SoundWrites
    BY <2>1, StatusWrite, WarnIsHeld
  <2>3. /\ AfterRun(p).pc # "merge" /\ AfterRun(p).todo = proc[p].todo
        /\ AfterRun(p).check \in Checks => /\ AfterRun(p).check = c
                                           /\ AfterRun(p).copy = proc[p].copy
    BY <1>0, ConstantsOK DEF AfterRun, Proc
  <2>4. proc' = [proc EXCEPT ![p] = AfterRun(p)]
    BY <1>3 DEF SaveStatus
  <2> QED BY <1>0, <2>2, <2>3, <2>4, MoveHeld
<1> QED BY <1>1, <1>2, <1>3 DEF CheckerStep

LEMMA ContinueHeld ==
    ASSUME TypeOK, CopiesHeld, NEW h \in Requests, Continue(h)
    PROVE  SoundWrites /\ CopiesHeld'
<1> DEFINE c == proc[h].check
<1>h. h \in Procs /\ proc[h] \in Proc
  BY DEF Procs, TypeOK
<1>0. start' = start
  BY DEF Continue, Dispatch, RunAllReturns, CheckerStep, CaptureBaseline, Report,
         SaveStatus, StoreBaseline, StoreResolved, WriteMerged, TriggerSync, SaveRun,
         AnnounceRun
<1>e. ASSUME SoundWrites, proc' = [proc EXCEPT ![h] = Idle] PROVE CopiesHeld'
  BY <1>h, <1>0, <1>e, EndHeld
<1>m. ASSUME SoundWrites, NEW pc \in {"status", "announce"},
             proc' = [proc EXCEPT ![h].pc = pc]
      PROVE  CopiesHeld'
  <2> DEFINE q == [proc[h] EXCEPT !.pc = pc]
  <2>1. q.pc = pc /\ q.check = c /\ q.copy = proc[h].copy /\ q.todo = proc[h].todo
    BY <1>h DEF Proc
  <2>2. proc' = [proc EXCEPT ![h] = q]
    BY <1>m
  <2> HIDE DEF q
  <2> QED BY <1>h, <1>0, <1>m, <2>1, <2>2, MoveHeld
<1>1. CASE Dispatch(h)
  <2>1. PICK e \in proc[h].todo :
          proc' = [proc EXCEPT ![h].pc = "probed", ![h].check = e.check,
                               ![h].copy = e.copy, ![h].todo = @ \ {e},
                               ![h].answer = world[e.copy.target]]
    BY <1>1 DEF Dispatch
  <2> DEFINE q == [proc[h] EXCEPT !.pc = "probed", !.check = e.check, !.copy = e.copy,
                                  !.todo = @ \ {e}, !.answer = world[e.copy.target]]
  <2>2. /\ q.pc = "probed" /\ q.check = e.check /\ q.copy = e.copy
        /\ q.todo \subseteq proc[h].todo
    BY <1>h DEF Proc
  <2>3. proc' = [proc EXCEPT ![h] = q]
    BY <2>1
  <2>4. SoundWrites
    BY <1>1, NoWrite DEF Dispatch
  <2>5. ASSUME NEW x \in proc[h].todo PROVE HeldAfter(x.check, x.copy)
    <3>1. x \in Listed
      BY <1>h, ProcFields
    <3> QED BY <1>h, <2>4, <3>1, HeldStays DEF CopiesHeld, Listed
  <2> HIDE DEF q
  <2> QED BY <1>h, <1>0, <2>2, <2>3, <2>4, <2>5, OneProcHeld
<1>2. CASE RunAllReturns(h) \/ TriggerSync(h) \/ AnnounceRun(h)
  BY <1>2, <1>e, NoWrite DEF RunAllReturns, TriggerSync, AnnounceRun
<1>3. CASE CheckerStep(h)
  BY <1>3, <1>h, CheckerHeld
<1>4. CASE StoreBaseline(h)
  <2>1. proc[h].answer # NoBaseline
    BY <1>4, <1>h, ConstantsOK DEF StoreBaseline, TypeOK
  <2>2. rows' = rows \/ rows' = [rows EXCEPT ![c].baseline = proc[h].answer]
    BY <1>4 DEF StoreBaseline
  <2>3. SoundWrites
    BY <2>1, <2>2, BaselineWrite
  <2>4. \/ proc' = [proc EXCEPT ![h].pc = "status"]
        \/ proc' = [proc EXCEPT ![h] = Idle]
    BY <1>4 DEF StoreBaseline
  <2> QED BY <1>e, <1>m, <2>3, <2>4
<1>5. CASE StoreResolved(h)
  <2>1. /\ rows' = rows \/ rows' = [rows EXCEPT ![c].status = "up"]
        /\ proc' = [proc EXCEPT ![h] = Idle]
    BY <1>5 DEF StoreResolved
  <2>2. SoundWrites
    BY <2>1, StatusWrite
  <2> QED BY <1>e, <2>1, <2>2
<1>6. CASE WriteMerged(h)
  BY <1>6, <1>h DEF WriteMerged, CopiesHeld
<1>7. CASE SaveRun(h)
  <2>1. rows' = rows \/ rows' = [rows EXCEPT ![c].status = VerdictOf(h)]
    BY <1>7 DEF SaveRun
  <2>2. SoundWrites
    BY <1>h, <2>1, StatusWrite, WarnIsHeld
  <2>3. \/ proc' = [proc EXCEPT ![h].pc = "announce"]
        \/ proc' = [proc EXCEPT ![h] = Idle]
    BY <1>7 DEF SaveRun
  <2> QED BY <1>e, <1>m, <2>2, <2>3
<1> QED BY <1>1, <1>2, <1>3, <1>4, <1>5, <1>6, <1>7 DEF Continue

\* A handler that has read a stored row.
LEMMA BeginHeld ==
    ASSUME TypeOK, CopiesHeld, NEW h \in Requests, NEW op, NEW c \in Checks, NEW pc,
           NEW a, Stored(c), pc # "merge", Begin(h, op, c, pc, a), rows' = rows
    PROVE  SoundWrites /\ CopiesHeld'
<1> DEFINE q == [Idle EXCEPT !.op = op, !.pc = pc, !.check = c, !.copy = rows[c],
                             !.answer = a]
<1>1. q.pc = pc /\ q.check = c /\ q.copy = rows[c] /\ q.todo = {}
  BY DEF Idle
<1>2. proc' = [proc EXCEPT ![h] = q] /\ start' = start /\ h \in Procs
  BY DEF Begin, Procs
<1>3. SoundWrites
  BY NoWrite
<1>4. HeldAfter(c, rows[c])
  BY <1>3, HeldStays, StoredIsHeld
<1> HIDE DEF q
<1> QED BY <1>1, <1>2, <1>3, <1>4, OneProcHeld

LEMMA CreateHeld ==
    ASSUME TypeOK, CopiesHeld, NEW h \in Requests, NEW c \in Checks, NEW t \in Targets,
           Create(h, c, t)
    PROVE  SoundWrites /\ CopiesHeld'
<1>h. h \in Procs /\ start' = start
  BY DEF Procs, Create
<1>1. PICK b \in Baselines :
        rows' = [rows EXCEPT ![c] = [BlankRow EXCEPT !.life = "stored", !.baseline = b,
                                                     !.enabled = TRUE, !.target = t]]
  BY DEF Create, Baselines
<1>2. /\ rows'[c].life = "stored" /\ rows'[c].status = ""
      /\ \A d \in Checks : d # c => rows'[d] = rows[d]
  <2>1. /\ rows'[c] = [BlankRow EXCEPT !.life = "stored", !.baseline = b,
                                       !.enabled = TRUE, !.target = t]
        /\ \A d \in Checks : d # c => rows'[d] = rows[d]
    BY <1>1 DEF TypeOK
  <2> QED BY <2>1 DEF BlankRow
<1>3. SoundWrites
  <2>1. rows[c].life = "unborn"
    BY DEF Create
  <2> QED BY <1>2, <2>1 DEF SoundWrites, SoundWrite
<1>4. CASE proc' = proc
  <2>1. proc' = [proc EXCEPT ![h] = proc[h]] /\ proc[h].pc # "merge"
    BY <1>h, <1>4 DEF TypeOK, CopiesHeld
  <2> QED BY <1>h, <1>3, <2>1, MoveHeld
<1>5. CASE proc' # proc
  <2> DEFINE q == [Idle EXCEPT !.op = "create", !.pc = "baseline", !.check = c,
                               !.answer = world[t]]
  <2>1. proc' = [proc EXCEPT ![h] = q]
    BY <1>5 DEF Create
  <2>2. q.pc = "baseline" /\ q.check = c /\ q.copy = BlankRow /\ q.todo = {}
    BY DEF Idle
  <2>3. HeldAfter(c, BlankRow)
    BY <1>2 DEF HeldAfter, BlankRow
  <2> HIDE DEF q
  <2> QED BY <1>h, <1>3, <2>1, <2>2, <2>3, OneProcHeld
<1> QED BY <1>3, <1>4, <1>5

LEMMA ArriveHeld ==
    ASSUME TypeOK, NoRewrites, CopiesHeld, NEW h \in Requests, Arrive(h)
    PROVE  SoundWrites /\ CopiesHeld'
<1>h. h \in Procs /\ proc[h] \in Proc
  BY DEF Procs, TypeOK
<1>1. CASE RunAll(h)
  <2> DEFINE q == [proc[h] EXCEPT !.op = "runAll", !.pc = "dispatch", !.todo = EnabledRows]
  <2>1. /\ q.pc = "dispatch" /\ q.todo = EnabledRows
        /\ q.check = proc[h].check /\ q.copy = proc[h].copy
    BY <1>h DEF Proc
  <2>2. proc' = [proc EXCEPT ![h] = q] /\ start' = start
    BY <1>1 DEF RunAll
  <2>3. SoundWrites
    BY <1>1, NoWrite DEF RunAll
  <2>4. \A e \in EnabledRows : HeldAfter(e.check, e.copy)
    BY <2>3, EnabledRowsType, EnabledHeld, HeldStays DEF Listed
  <2>5. proc[h].check \in Checks => HeldAfter(proc[h].check, proc[h].copy)
    BY <1>h, <2>3, HeldStays DEF CopiesHeld
  <2> HIDE DEF q
  <2> QED BY <1>h, <2>1, <2>2, <2>3, <2>4, <2>5, OneProcHeld
<1>2. ASSUME NEW c \in Checks, Edit(h, c) \/ Toggle(h, c) PROVE FALSE
  BY <1>2 DEF Edit, Toggle, Begin, NoRewrites
<1>3. ASSUME NEW c \in Checks, ResetBaseline(h, c) PROVE SoundWrites /\ CopiesHeld'
  BY <1>3, BeginHeld DEF ResetBaseline
<1>4. ASSUME NEW c \in Checks, RunNow(h, c) PROVE SoundWrites /\ CopiesHeld'
  BY <1>4, BeginHeld DEF RunNow
<1> QED BY <1>1, <1>2, <1>3, <1>4, CreateHeld DEF Arrive

LEMMA LoopHeld ==
    ASSUME TypeOK, CopiesHeld, NEW l \in Loops, LoopStep(l)
    PROVE  SoundWrites /\ CopiesHeld'
<1>l. l \in Procs /\ proc[l] \in Proc
  BY DEF Procs, TypeOK
<1>1. CASE Tick(l)
  <2>1. PICK a : proc' = [proc EXCEPT ![l] = [proc[l] EXCEPT !.pc = "probed", !.answer = a]]
    BY <1>1 DEF Tick
  <2> DEFINE q == [proc[l] EXCEPT !.pc = "probed", !.answer = a]
  <2>2. /\ q.pc = "probed" /\ q.check = proc[l].check
        /\ q.copy = proc[l].copy /\ q.todo = proc[l].todo
    BY <1>l DEF Proc
  <2>3. SoundWrites /\ start' = start
    BY <1>1, NoWrite DEF Tick
  <2> HIDE DEF q
  <2>4. proc' = [proc EXCEPT ![l] = q]
    BY <2>1 DEF q
  <2> QED BY <1>l, <2>2, <2>3, <2>4, MoveHeld
<1>2. CASE LoopExit(l)
  <2>1. SoundWrites /\ start' = start /\ proc' = [proc EXCEPT ![l] = Idle]
    BY <1>2, NoWrite DEF LoopExit
  <2> QED BY <1>l, <2>1, EndHeld
<1> QED BY <1>l, <1>1, <1>2, CheckerHeld DEF LoopStep

\* Start hands on what it listed.
LEMMA StartHeld ==
    ASSUME TypeOK, CopiesHeld, StartStep
    PROVE  SoundWrites /\ CopiesHeld'
<1>r. rows' = rows
  BY DEF StartStep, SyncList, SyncListFails, SyncReconcile, ReceiveSync, ReloadTick, Shutdown
<1>w. SoundWrites
  BY <1>r, NoWrite
<1>c. ASSUME NEW p \in Procs, NEW cs, proc'[p] = AfterCancel(p, cs)
      PROVE  /\ proc'[p].pc # "merge"
             /\ proc'[p].check \in Checks => Held(proc'[p].check, proc'[p].copy)
             /\ \A e \in proc'[p].todo : Held(e.check, e.copy)
  <2>1. /\ proc'[p].pc = proc[p].pc /\ proc'[p].check = proc[p].check
        /\ proc'[p].copy = proc[p].copy /\ proc'[p].todo = proc[p].todo
    BY <1>c, ProcFields DEF AfterCancel, Proc
  <2> QED BY <2>1 DEF CopiesHeld
<1>1. CASE SyncList
  <2>1. start'.list = EnabledRows /\ proc' = proc
    BY <1>1 DEF SyncList
  <2> QED BY <1>r, <1>w, <2>1, EnabledHeld DEF CopiesHeld, Held
<1>2. CASE SyncListFails \/ ReceiveSync \/ ReloadTick
  <2>1. start'.list = start.list /\ proc' = proc
    BY <1>2 DEF SyncListFails, ReceiveSync, ReloadTick, TypeOK
  <2> QED BY <1>r, <1>w, <2>1 DEF CopiesHeld, Held
<1>3. CASE SyncReconcile
  <2>1. PICK slot \in [ToStart -> FreeLoops] :
          proc' = [p \in Procs |->
             IF \E c \in ToStart : slot[c] = p
             THEN NewLoop(CHOOSE c \in ToStart : slot[c] = p)
             ELSE AfterCancel(p, ToStop)]
    BY <1>3 DEF SyncReconcile
  <2>2. ASSUME NEW c \in ToStart
        PROVE  /\ NewLoop(c).pc # "merge" /\ NewLoop(c).check = c /\ c \in Checks
               /\ Held(c, NewLoop(c).copy) /\ NewLoop(c).todo = {}
    <3>1. PICK e \in start.list : e.check = c
      BY DEF ToStart, ListedChecks
    <3>2. /\ (CHOOSE x \in start.list : x.check = c) \in start.list
          /\ (CHOOSE x \in start.list : x.check = c).check = c
      BY <3>1
    <3>3. PICK x \in start.list : x.check = c /\ RowListed(c) = x.copy
      BY <3>2 DEF RowListed
    <3>4. NewLoop(c).copy = RowListed(c) /\ NewLoop(c).todo = {}
      BY DEF NewLoop, Idle
    <3>5. Held(c, x.copy)
      BY <3>3 DEF CopiesHeld
    <3> QED BY <3>3, <3>4, <3>5, NewLoopType
  <2>3. ASSUME NEW p \in Procs
        PROVE  /\ proc'[p].pc # "merge"
               /\ proc'[p].check \in Checks => Held(proc'[p].check, proc'[p].copy)
               /\ \A e \in proc'[p].todo : Held(e.check, e.copy)
    <3>1. CASE \E c \in ToStart : slot[c] = p
      <4> DEFINE d == CHOOSE c \in ToStart : slot[c] = p
      <4>1. d \in ToStart /\ proc'[p] = NewLoop(d)
        BY <2>1, <3>1
      <4> HIDE DEF d
      <4> QED BY <2>2, <4>1
    <3>2. CASE ~ \E c \in ToStart : slot[c] = p
      <4>1. proc'[p] = AfterCancel(p, ToStop)
        BY <2>1, <3>2
      <4> QED BY <1>c, <4>1
    <3> QED BY <3>1, <3>2
  <2>4. start'.list = {}
    BY <1>3 DEF SyncReconcile
  <2> QED BY <1>r, <1>w, <2>3, <2>4 DEF CopiesHeld, Held
<1>4. CASE Shutdown
  <2>1. ASSUME NEW p \in Procs PROVE proc'[p] = AfterCancel(p, Checks)
    BY <1>4 DEF Shutdown
  <2>2. start'.list = start.list
    BY <1>4 DEF Shutdown, TypeOK
  <2> QED BY <1>r, <1>w, <1>c, <2>1, <2>2 DEF CopiesHeld, Held
<1> QED BY <1>1, <1>2, <1>3, <1>4 DEF StartStep

LEMMA HeldStep ==
    ASSUME TypeOK, NoRewrites, CopiesHeld, [Next]_vars
    PROVE  SoundWrites /\ CopiesHeld'
<1>1. CASE (\E t \in Targets : Change(t)) \/ CancelContext \/ UNCHANGED vars
  <2>1. UNCHANGED <<rows, start, proc>>
    BY <1>1 DEF Change, CancelContext, vars
  <2> QED BY <2>1, NoWrite DEF CopiesHeld, Held
<1>2. ASSUME NEW c \in Checks, Delete(c) PROVE SoundWrites /\ CopiesHeld'
  <2>1. UNCHANGED <<proc, start>> /\ rows[c].life = "stored" /\ rows'[c].life = "gone"
        /\ \A d \in Checks : d # c => rows'[d] = rows[d]
    BY <1>2 DEF Delete, TypeOK, Stored, BlankRow
  <2>2. SoundWrites
    BY <2>1 DEF SoundWrites, SoundWrite
  <2>3. ASSUME NEW d \in Checks, NEW r, Held(d, r) PROVE HeldAfter(d, r)
    BY <2>2, <2>3, HeldStays
  <2>4. \A p \in Procs : proc[p].todo \subseteq Listed
    BY ProcFields
  <2> QED BY <2>1, <2>2, <2>3, <2>4 DEF CopiesHeld, Held, HeldAfter, Listed, TypeOK
<1> QED BY <1>1, <1>2, ArriveHeld, ContinueHeld, LoopHeld, StartHeld DEF Next

\* Where no update rewrites whole rows, a stored warning has a stored baseline behind
\* it: captures, creations and resets may stop halfway and rows may be deleted under
\* them, and no copy anybody holds has a baseline the table never kept.
THEOREM WarningsHaveBaselines == ASSUME NoRewrites PROVE Spec => []WarningHasBaseline
<1>1. Init => CopiesHeld /\ WarningHasBaseline
  <2> SUFFICES ASSUME Init PROVE CopiesHeld /\ WarningHasBaseline
    OBVIOUS
  <2>1. WarningHasBaseline
    <3> SUFFICES ASSUME NEW c \in Checks, Stored(c), rows[c].status = "warn"
                 PROVE  rows[c].baseline # NoBaseline
      BY DEF WarningHasBaseline
    <3>1. \/ rows[c] = BlankRow
          \/ rows[c].status = "warn" => rows[c].baseline # NoBaseline
      BY DEF Init
    <3>2. BlankRow.life # "stored"
      BY DEF BlankRow
    <3>3. rows[c] # BlankRow
      BY <3>2 DEF Stored
    <3> QED BY <3>1, <3>3
  <2>2. start.list = {} /\ \A p \in Procs : proc[p] = Idle
    BY DEF Init
  <2> QED BY <2>1, <2>2, IdleHolds DEF CopiesHeld
<1>2. TypeOK /\ CopiesHeld /\ WarningHasBaseline /\ [Next]_vars
      => (CopiesHeld /\ WarningHasBaseline)'
  BY HeldStep, WarningsKept
<1> QED BY <1>1, <1>2, TypeCorrect, PTL DEF Spec
=============================================================================

------------------------------ MODULE AppIngest ------------------------------
(***************************************************************************)
(* What reaches NORA from applications: webhooks, which a sender posts     *)
(* under an app's token and a rate limit, and the values polled from an    *)
(* app's own API.  An app is edited, given a new token and deleted while   *)
(* requests and polls that read its row are under way.                     *)
(***************************************************************************)
EXTENDS Naturals, FiniteSets

CONSTANTS
    Senders,        \* one request each at a time
    Pollers,        \* the hourly job and polls on request
    Limits,         \* bound: rate limits an app is given
    MaxCount,       \* bound: the counter of a window stops here, above every limit
    MaxToken,       \* bound: tokens an app is given
    MaxEdits        \* bound: changes of an app's row

ASSUME IngestConstants ==
    /\ Limits \subseteq Nat /\ Limits # {}
    /\ MaxCount \in Nat /\ \A l \in Limits : l < MaxCount
    /\ MaxToken \in Nat \ {0} /\ MaxEdits \in Nat

\* What the app's template makes of its payloads: no template, levels the events
\* table takes, or a severity it does not; whether there is an API to poll.
Profiles == {"none", "known", "unknown", "polled"}
WindowAge == 2      \* the 60 seconds of a window, in steps of the clock

VARIABLES
    app,        \* the row of an app
    window,     \* its rate window: count, and age in steps of the clock
    taken,      \* what Allow let through in this window
    hook,       \* the webhooks under way
    events,     \* the levels of its events
    api,        \* the value its API shows
    poll,       \* the polls under way
    snapshot,   \* its row in app_metric_snapshots
    edits       \* updates made, and the copy of the row one is about to write

ingestVars == <<app, window, taken, hook, events, api, poll, snapshot, edits>>

AppRow == [live : BOOLEAN, token : 1 .. MaxToken, limit : Limits, profile : Profiles]
NoHook == [pc |-> "idle", limit |-> 0, profile |-> "none"]
NoPoll == [pc |-> "idle", profile |-> "none", value |-> 0]

IngestInit ==
    /\ \E l \in Limits, p \in Profiles :
          app = [live |-> TRUE, token |-> 1, limit |-> l, profile |-> p]
    /\ window = [count |-> 0, age |-> WindowAge]
    /\ taken = 0
    /\ hook = [s \in Senders |-> NoHook]
    /\ events = {}
    /\ api = 0
    /\ poll = [p \in Pollers |-> NoPoll]
    /\ snapshot = 2
    /\ edits = [n |-> 0, copy |-> <<>>]

-----------------------------------------------------------------------------
(* A webhook: HandleIngest and Process *)

\* GetByToken reads the row under the token of the path; no row ends the request.
Receive(s, t) ==
    /\ hook[s].pc = "idle"
    /\ app.live /\ t = app.token
    /\ hook' = [hook EXCEPT ![s] = [pc |-> "allow", limit |-> app.limit, profile |-> app.profile]]
    /\ UNCHANGED <<app, window, taken, events, api, poll, snapshot, edits>>

Least(m, n) == IF m < n THEN m ELSE n

\* Mutated Counted: one more than the limit passes.
CountedOneMore(w, l) ==
    IF w.age = WindowAge THEN [w |-> [count |-> 1, age |-> 0], ok |-> TRUE]
    ELSE [w |-> [w EXCEPT !.count = Least(@ + 1, MaxCount)], ok |-> w.count <= l]

\* Mutated Counted: the window slides, every call starts its 60 seconds again.
CountedSliding(w, l) ==
    IF w.age = WindowAge THEN [w |-> [count |-> 1, age |-> 0], ok |-> TRUE]
    ELSE [w |-> [count |-> Least(w.count + 1, MaxCount), age |-> 0], ok |-> Least(w.count + 1, MaxCount) <= l]

\* RateLimiter.Allow on the window w: a refused request is counted too.
Counted(w, l) ==
    IF w.age = WindowAge THEN [w |-> [count |-> 1, age |-> 0], ok |-> TRUE]
    ELSE LET n == Least(w.count + 1, MaxCount) IN [w |-> [w EXCEPT !.count = n], ok |-> n <= l]

\* Allow holds the limiter's mutex from its look at the window to its count.
Allow(s) ==
    /\ hook[s].pc = "allow"
    /\ LET r == Counted(window, hook[s].limit) IN
       /\ window' = r.w
       /\ taken' = IF window.age = WindowAge THEN 1 ELSE Least(taken + (IF r.ok THEN 1 ELSE 0), MaxCount)
       /\ hook' = [hook EXCEPT ![s] = IF r.ok THEN [@ EXCEPT !.pc = "store"] ELSE NoHook]
    /\ UNCHANGED <<app, events, api, poll, snapshot, edits>>

\* mapSeverity hands the template's value on; events.level has a CHECK.
LevelOf(p) == IF p = "unknown" THEN "unknown" ELSE "info"
Levels == {"debug", "info", "warn", "error", "critical"}

\* Mutated StoreEvent: the table has no CHECK.
StoreEventAny(s) ==
    /\ hook[s].pc = "store"
    /\ events' = events \cup {LevelOf(hook[s].profile)}
    /\ hook' = [hook EXCEPT ![s] = NoHook]
    /\ UNCHANGED <<app, window, taken, api, poll, snapshot, edits>>

\* The event is stored whatever became of the app; a level the table refuses
\* ends the request with an internal error.
StoreEvent(s) ==
    /\ hook[s].pc = "store"
    /\ events' = IF LevelOf(hook[s].profile) \in Levels THEN events \cup {LevelOf(hook[s].profile)} ELSE events
    /\ hook' = [hook EXCEPT ![s] = NoHook]
    /\ UNCHANGED <<app, window, taken, api, poll, snapshot, edits>>

\* A step of the clock; a window older than 60 seconds is as good as none.
ClockSteps ==
    /\ window.age < WindowAge
    /\ window' = [window EXCEPT !.age = @ + 1]
    /\ UNCHANGED <<app, taken, hook, events, api, poll, snapshot, edits>>

-----------------------------------------------------------------------------
(* Polling: RunAPIPolling, PollOneApp and pollEntry *)

StartPoll(p) ==
    /\ poll[p].pc = "idle" /\ app.live /\ app.profile = "polled"
    /\ poll' = [poll EXCEPT ![p] = [pc |-> "call", profile |-> app.profile, value |-> 0]]
    /\ UNCHANGED <<app, window, taken, hook, events, api, snapshot, edits>>

\* The API answers with its value; or it fails, and an event is written when no good
\* response came, none when its body cannot be read or holds no such value.
PollAnswers(p) ==
    /\ poll[p].pc = "call"
    /\ poll' = [poll EXCEPT ![p] = [@ EXCEPT !.pc = "write", !.value = api]]
    /\ UNCHANGED <<app, window, taken, hook, events, api, snapshot, edits>>
PollFails(p) ==
    /\ poll[p].pc = "call"
    /\ events' \in {events, events \cup {"warn"}}
    /\ poll' = [poll EXCEPT ![p] = NoPoll]
    /\ UNCHANGED <<app, window, taken, hook, api, snapshot, edits>>

\* INSERT OR REPLACE under (app, metric); the table has no key to apps.
WriteSnapshot(p) ==
    /\ poll[p].pc = "write"
    /\ snapshot' = poll[p].value
    /\ events' = events \cup {"info"}
    /\ poll' = [poll EXCEPT ![p] = NoPoll]
    /\ UNCHANGED <<app, window, taken, hook, api, edits>>

ApiChanges ==
    /\ api' = 1 - api
    /\ UNCHANGED <<app, window, taken, hook, events, poll, snapshot, edits>>

-----------------------------------------------------------------------------
(* The handlers of apps *)

\* PUT writes the name, profile, configuration and limit of the row it read.
UpdateRead ==
    /\ edits.n < MaxEdits /\ edits.copy = <<>> /\ app.live
    /\ \E l \in Limits : edits' = [n |-> edits.n + 1, copy |-> <<l>>]
    /\ UNCHANGED <<app, window, taken, hook, events, api, poll, snapshot>>
UpdateWrite ==
    /\ edits.copy # <<>>
    /\ app' = IF app.live THEN [app EXCEPT !.limit = edits.copy[1]] ELSE app
    /\ edits' = [edits EXCEPT !.copy = <<>>]
    /\ UNCHANGED <<window, taken, hook, events, api, poll, snapshot>>

RegenerateToken ==
    /\ app.live /\ app.token < MaxToken /\ edits.n < MaxEdits
    /\ app' = [app EXCEPT !.token = @ + 1]
    /\ edits' = [edits EXCEPT !.n = @ + 1]
    /\ UNCHANGED <<window, taken, hook, events, api, poll, snapshot>>

\* The events and the snapshot of the app stay.
RemoveApp ==
    /\ app.live /\ edits.n < MaxEdits
    /\ app' = [app EXCEPT !.live = FALSE]
    /\ edits' = [edits EXCEPT !.n = @ + 1]
    /\ UNCHANGED <<window, taken, hook, events, api, poll, snapshot>>

Hook(s) == Allow(s) \/ StoreEvent(s)
Polling(p) == PollAnswers(p) \/ PollFails(p) \/ WriteSnapshot(p)

IngestNext ==
    \/ \E s \in Senders : Hook(s) \/ \E t \in 1 .. MaxToken : Receive(s, t)
    \/ \E p \in Pollers : StartPoll(p) \/ Polling(p)
    \/ ClockSteps \/ ApiChanges
    \/ UpdateRead \/ UpdateWrite \/ RegenerateToken \/ RemoveApp

\* Requests and polls run on, and time passes.
IngestFairness ==
    /\ \A s \in Senders : WF_ingestVars(Hook(s))
    /\ \A p \in Pollers : WF_ingestVars(Polling(p))
    /\ WF_ingestVars(ClockSteps) /\ WF_ingestVars(UpdateWrite)

IngestSpec == IngestInit /\ [][IngestNext]_ingestVars /\ IngestFairness

-----------------------------------------------------------------------------
(* Properties *)

IngestTypeOK ==
    /\ app \in AppRow
    /\ window \in [count : 0 .. MaxCount, age : 0 .. WindowAge]
    /\ taken \in 0 .. MaxCount
    /\ hook \in [Senders -> [pc : {"idle", "allow", "store"}, limit : Limits \cup {0}, profile : Profiles]]
    /\ events \subseteq Levels
    /\ api \in 0 .. 1 /\ snapshot \in 0 .. 2
    /\ poll \in [Pollers -> [pc : {"idle", "call", "write"}, profile : Profiles, value : 0 .. 1]]
    /\ edits \in [n : 0 .. MaxEdits, copy : {<<>>} \cup {<<l>> : l \in Limits}]

\* However many requests are at the limiter at once, and whichever limit each of
\* them read, a request that passes is within its limit for the window.
RateHeld == [][\A s \in Senders :
    hook[s].pc = "allow" /\ hook'[s].pc = "store" => taken' <= hook[s].limit \/ taken' = 1]_ingestVars

\* A sender over its limit is not shut out for good by going on sending: as long
\* as requests keep reaching the limiter, some pass (ratelimit.go, fixed windows).
SenderServed ==
    []<>(\E s \in Senders : hook[s].pc = "allow") => []<>(\E s \in Senders : hook[s].pc = "store")
=============================================================================

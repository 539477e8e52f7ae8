------------------------------- MODULE RuleBook -------------------------------
(***************************************************************************)
(* What the rules engine promises to whoever edits a rule, with no cache   *)
(* and no lock in it: events are judged by one set of rules at a time, and *)
(* a change is in force at the latest when the handlers at work on the     *)
(* rules have answered.                                                    *)
(***************************************************************************)
CONSTANTS Handlers, Events, Tables, InForce(_), Unjudged

VARIABLES
    table,     \* the stored rules
    seen,      \* the rules events are judged by
    open,      \* handlers that have changed a rule and have not answered
    judged     \* the rules each event was judged by

bookVars == <<table, seen, open, judged>>

Init ==
    /\ table \in Tables
    /\ seen = InForce(table)
    /\ open = {}
    /\ judged = [e \in Events |-> Unjudged]

\* A change may come into force at once or later.
Change(h) ==
    /\ table' \in Tables
    /\ open' = open \cup {h}
    /\ seen' \in {seen, InForce(table')}
    /\ UNCHANGED judged

\* Any moment is good to bring the stored rules into force.
Publish ==
    /\ seen' = InForce(table)
    /\ UNCHANGED <<table, open, judged>>

\* The last handler to answer leaves nothing out of force.
Answer(h) ==
    /\ h \in open
    /\ open' = open \ {h}
    /\ seen' \in {seen, InForce(table)}
    /\ open' = {} => seen' = InForce(table)
    /\ UNCHANGED <<table, judged>>

Judge(e) ==
    /\ judged[e] = Unjudged
    /\ judged' = [judged EXCEPT ![e] = seen]
    /\ UNCHANGED <<table, seen, open>>

Next ==
    \/ \E h \in Handlers : Change(h) \/ Answer(h)
    \/ Publish
    \/ \E e \in Events : Judge(e)

Spec == Init /\ [][Next]_bookVars
=============================================================================

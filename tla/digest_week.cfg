SPECIFICATION TablesSpec
CONSTANTS
    Apps = {a1}
    Comps = {node, engine, guest}
    Conts = {c1}
    Routes = {r1}
    Monitors = {m1}
    Guests = {guest}
    GuestOf <- MCGuestOf
    TypesOf <- MCTypesOf
    ParentsOf <- MCParentsOf
    Posted <- MCPosted
    None = None
    node = node
    engine = engine
    guest = guest
    Templates = {t1, t2}
    Builtins = {t1}
    Cards = {k1, k2}
    Loaders = {l1, l2}
    Reconcilers = {q1}
    MaxHands = 1
    HoursPerDay = 2
    Offsets <- MCNoOffset
    Starts <- MCStarts
    Span = 9
    Schedules <- MCSchedules
    MaxTurns = 3
    Types = {"url"}
    Groups <- MCGroups
    ReadsMayFail = TRUE
INVARIANT CurrentPeriod
CHECK_DEADLOCK FALSE

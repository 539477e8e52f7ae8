SPECIFICATION PollsSpec
CONSTANTS
    Devices = {d1}
    KindsOf <- MCKindsOf
    MaxKey = 2
    MaxUpsets = 2
    Senders = {s1, s2}
    Pollers = {p1}
    Limits = {1, 2}
    MaxCount = 3
    MaxToken = 2
    MaxEdits = 1
    Images = {i1}
    SourcesOf <- MCSourcesOf
    MaxDigest = 2
    MaxMoves = 3
INVARIANTS
    PollsTypeOK
PROPERTIES
    ScansEnd
    StatusHeals
    RateHeld
    SenderServed
    FlagHeals
CHECK_DEADLOCK FALSE

SPECIFICATION Spec
CONSTANTS
    cpu = cpu
    temp = temp
    load = load
    probe = probe
    router = router
    disk = disk
    cert = cert
    pool = pool
    Nothing = Nothing
    Stopped = Stopped
    NoKey = NoKey
    Untold = Untold
    Starting = Starting
    Healthy = Healthy
    Unhealthy = Unhealthy
    enabled = enabled
    disabled = disabled
    Keys = {cpu, temp, load, probe, router, disk, cert, pool}
    Kind <- MixedKind
    Readings <- MixedReadings
    Passes = {p1}
    DbMayFail = TRUE
CONSTRAINT FewTouched
INVARIANTS
    TypeOK
    EventsTellState
    NoRepeat

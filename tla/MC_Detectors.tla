------------------------------ MODULE MC_Detectors ------------------------------
(***************************************************************************)
(* Instances of Detectors for TLC: one key of each kind, with a reading on *)
(* either side of each threshold.                                          *)
(***************************************************************************)
EXTENDS Detectors, FiniteSets, TLC

CONSTANTS cpu, temp, load, probe, router, disk, cert, pool, enabled, disabled

MixedKind == (cpu :> "cpu") @@ (temp :> "temp") @@ (load :> "container") @@ (probe :> "health")
             @@ (router :> "router") @@ (disk :> "disk") @@ (cert :> "ssl")
             @@ (pool :> "pool")

MixedReadings ==
    (cpu :> {90, 91}) @@ (temp :> {80, 81, 91}) @@ (load :> {80, 95, 96, Stopped})
    @@ (probe :> {Starting, Healthy, Unhealthy}) @@ (router :> {enabled, disabled})
    @@ (disk :> {79990, 80000, 90000}) @@ (cert :> {0, 7, 30, 31})
    @@ (pool :> {79990, 80000, 80010, 90000})

Base(k) == CHOOSE v \in Readings[k] : TRUE

Touched(k) ==
    \/ world[k] # Base(k)
    \/ known[k] # Nothing
    \/ announced[k] # Untold \/ base[k] # Blank(k)
    \/ \E p \in Passes : pass[p].key = k

\* Keys share nothing but the pass that visits them, so one at a time is followed.
MaxTouched == 1
FewTouched == Cardinality({k \in Keys : Touched(k)}) <= MaxTouched
=============================================================================

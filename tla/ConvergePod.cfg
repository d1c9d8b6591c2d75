\* The content changes, also back within the 5 s before the old VCL is
\* discarded; varnishd restarts; a content does not compile; a VCL is validated
\* in between.
SPECIFICATION FairSpec
CONSTANTS
    Pods = {p1}
    Slots = {s1}
    Contents = {"a", "dry", "bad"}
    Clustered = FALSE
    Orders = {o1}
    MaxChanges = 2
    FaultKinds = {"varnishd"}
    MaxFaults = 1
    Names <- MCNames
    Broken <- MCBroken
    Starved <- MCStarved
    Temps = {t}
    Boot = boot
    NoName = none
INVARIANTS
    NoOrphanVCL
PROPERTIES
    OldVCLDiscarded
    Convergence
    PushesStop

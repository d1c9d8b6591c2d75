\* A cluster starts, readiness and peers chasing each other, while pushes are cut
\* off or refused, the operator restarts or a status write is lost.
SPECIFICATION FairSpec
CONSTANTS
    Pods = {p1, p2}
    Slots = {s1}
    Contents = {"a"}
    Clustered = TRUE
    Orders = {o1}
    MaxChanges = 0
    FaultKinds = {"ctx", "abandon", "admin", "operator", "status"}
    MaxFaults = 1
    Names <- MCNames
    Broken <- MCBroken
    Starved <- MCStarved
    Temps = {}
    Boot = boot
    NoName = none
INVARIANTS
    NoShardToBoot
PROPERTIES
    OnlyDesiredActivated
    OnlyOrphansBlock

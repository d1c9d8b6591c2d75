\* Two pods, listed in any order.
SPECIFICATION FairSpec
CONSTANTS
    Pods = {p1, p2}
    Slots = {s1}
    Contents = {"a"}
    Clustered = TRUE
    Orders = {o1, o2}
    MaxChanges = 0
    FaultKinds = {}
    MaxFaults = 0
    Names <- MCNames
    Broken <- MCBroken
    Starved <- MCStarved
    Temps = {}
    Boot = boot
    NoName = none
PROPERTIES
    PushesStop

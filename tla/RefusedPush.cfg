\* One vcl.use fails: the pod never carries the VCL.
SPECIFICATION FairSpec
CONSTANTS
    Pods = {p1}
    Slots = {s1}
    Contents = {"a"}
    Clustered = FALSE
    Orders = {o1}
    MaxChanges = 0
    FaultKinds = {"admin"}
    MaxFaults = 1
    Names <- MCNames
    Broken <- MCBroken
    Starved <- MCStarved
    Temps = {}
    Boot = boot
    NoName = none
PROPERTIES
    Convergence

\* Every fault, two overlapping pushes: a push is still atomic.
SPECIFICATION AgentSpec
CONSTANTS
    Pods = {p1}
    Slots = {s1, s2}
    Names = {a, b}
    Broken = {}
    Temps = {t}
    Boot = boot
    NoName = none
    FaultKinds = {"varnishd", "agent", "ctx", "abandon", "admin"}
    MaxFaults = 2
PROPERTIES
    PushIsAtomic
    OrphansHaveCause
SYMMETRY Symmetry

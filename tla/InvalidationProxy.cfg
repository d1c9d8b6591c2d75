\* One request of any kind while pods, caches and the operator change.
\* With every cache deleted the operator has nothing to do.
SPECIFICATION FairProxySpec
CONSTANTS
    Caches <- MCCaches
    Pods = {"p1", "p2", "p3"}
    PodsOf <- MCPodsOf
    SpecHosts <- MCSpecHosts
    Clients = {a}
    Requests <- MCRequests
    MaxPurgeHosts = 2
    MaxChanges = 2
    NoCache = nocache
    Unknown = unknown
INVARIANTS
    OkMeansEveryPod
    SentToNamedCache
    CountIsConfirmed
PROPERTIES
    RequestsAnswered
    MapCatchesUp
CHECK_DEADLOCK FALSE

\* One cache, three edits or changes of catalog, endpoints and pods.
SPECIFICATION DesiredSpec
CONSTANTS
    OperatorIP = "10.0.0.1"
    x = x
    y = y
    Services = {x, y}
    BaseSpecs <- MCBaseSpecs
    LegacySpecs <- MCLegacySpecs
    EditValues <- MCEditValues
    RawCatalogs <- MCRawCatalogs
    Listings <- MCListings
    CacheName <- MCCacheName
    OperatorAntiAffinity <- MCOperatorAntiAffinity
    ForbiddenParams = {8}
    MalformedParams = {9}
    MaxChanges = 3
INVARIANTS
    ResubmitAdmitted
    ProxyListenerAlone
    Reachable
    MountsSound
    CacheFilesFit
    DirectorsServed
PROPERTIES
    TemplateStable
    BackendsStable
\* An operator whose catalog does not load does nothing.
CHECK_DEADLOCK FALSE

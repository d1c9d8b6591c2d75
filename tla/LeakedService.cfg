\* A cache is created, reconciled and deleted.
SPECIFICATION LifecycleSpec
CONSTANTS
    Specs <- MCSpecs
    Releases <- MCReleases
    Window = 1
    MaxLives = 1
    MaxChanges = 0
INVARIANTS
    FinalizerCleansUp
CHECK_DEADLOCK FALSE

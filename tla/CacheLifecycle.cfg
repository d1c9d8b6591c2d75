\* Three edits, restarts, endpoint events or faults, and a second life.
\* Without a cache the operator has nothing to do.
SPECIFICATION FairLifecycleSpec
CONSTANTS
    Specs <- MCSpecs
    Releases <- MCReleases
    Window = 1
    MaxLives = 2
    MaxChanges = 3
INVARIANTS
    FinalizerGuards
    PushAdmitted
PROPERTIES
    TokenStable
    DeletionCompletes
    Settles
CHECK_DEADLOCK FALSE

\* A queue of one span and batches of two, so that both overflow.
SPECIFICATION TracerSpec
CONSTANTS
    Groups <- MCGroups
    Tx <- MCTx
    Vxids <- MCVxids
    NoGroup = none
    Capacity = 1
    TTL = 1
    MaxParked = 1
    AgeLimit = 0
    MaxTime = 1
    QueueLen = 1
    MaxBatch = 2
    MaxErrors = 1
INVARIANTS
    TracerTypeOK
    NoSilentLoss
    ExportedOnce
PROPERTIES
    SignalEnds

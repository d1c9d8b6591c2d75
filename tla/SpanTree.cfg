\* Every log of up to four transactions, four levels deep, with a line lost.
\* The log ends when its transactions are written.
SPECIFICATION SpanTreeSpec
CONSTANTS
    MaxTx = 4
    MaxLost = 1
    MaxLevel = 4
INVARIANTS
    SpanTreeTypeOK
    GroupsApart
    ReturnedOnce
    SpansFormTree
    CompleteGroupExact
CHECK_DEADLOCK FALSE

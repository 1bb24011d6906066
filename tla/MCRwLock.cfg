SPECIFICATION FairSpec
CONSTANTS
    t1 = t1  t2 = t2  t3 = t3
    Threads <- MCThreads
    Upgraders <- MCUpgraders
    MaxNesting = 2
    MaxRefused = 2
    NoThread = NoThread
CHECK_DEADLOCK FALSE
INVARIANTS TypeOK MutualExclusion ReadersCounted NoLostWakeup
PROPERTIES RefusedUpgradeBlocks WriterGetsIn

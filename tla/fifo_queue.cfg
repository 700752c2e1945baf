SPECIFICATION FairSpec
CONSTANTS
    Thread = {t1, t2, t3}
    Link = {l1, l2}
    Value = {a}
    Urgent = {a}
    MaxBlockCnt = 3
    NoThread = NoThread
    Null = Null
    None = None
    Failed = Failed
INVARIANTS
    BlockCntCoversSleepers
    NoLostAdd
    ListWellFormed
PROPERTIES
    ImplementsQueue
    DataReachesRemover

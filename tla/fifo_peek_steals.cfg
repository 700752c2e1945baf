SPECIFICATION FairPeekSpec
CONSTANTS
    Thread = {t1, t2, t3}
    Link = {l1}
    Value = {a}
    Urgent = {a}
    MaxBlockCnt = 2
    NoThread = NoThread
    Null = Null
    None = None
    Failed = Failed
PROPERTIES
    DataReachesRemover

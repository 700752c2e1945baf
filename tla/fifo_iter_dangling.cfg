SPECIFICATION IterSpec
CONSTANTS
    Thread = {t1, t2}
    Link = {l1, l2}
    Value = {a}
    Urgent = {a}
    MaxBlockCnt = 1
    NoThread = NoThread
    Null = Null
    None = None
    Failed = Failed
INVARIANTS
    IterLinkLive

SPECIFICATION FairSpec
CONSTANTS
    Thread = {t1, t2}
    Value = {a}
    Size = 1
    NoThread = NoThread
    None = None
    Failed = Failed
PROPERTIES
    TimedRemoveReturns

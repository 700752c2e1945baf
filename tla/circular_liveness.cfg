SPECIFICATION RetireSpec
CONSTANTS
    Thread = {t1, t2, t3}
    Value = {a}
    Size = 1
    NoThread = NoThread
    None = None
    Failed = Failed
CHECK_DEADLOCK FALSE
PROPERTIES
    ElementReachesRemover
    SlotReachesAdder
    TimedAddReturns
    RemoversReturn

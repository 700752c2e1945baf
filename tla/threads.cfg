SPECIFICATION FairSpec
CONSTANTS
    Thread = {t1, t2, t3, t4}
    Adder = t1
    MaxSlots = 3
    Size = 2
    NoThread = NoThread
    PoolThread = {p1, p2, p3}
    PoolSize = 2
    Caller = {c1, c2}
    TaskObj = {k1, k2}
    Param = {p}
    MaxWorkers = 2
    User = {u1, u2}
    HKey = {1, 2}
    Data = {a}
    Object = {1, 2, 3}
    Holder = {h1, h2, h3}
    Callback = {f, g}
    MaxCallbacks = 2
    Peer = {x, y}
    Ring = {1, 2}
    Elem = {va, vb}
    RingSize = 2
INVARIANTS
    AdderNotStranded
    PoolKept
    JoinedMeansDone
    DataAccounted
    IteratorsStand
    CallbacksBeforeDelete
    RingsKeepElements
PROPERTIES
    SlotReachesAdder
    JoinAllReturns

SPECIFICATION Spec
CONSTANTS
    Thread = {t1, t2, t3, t4}
    Value = {a}
    Size = 2
    NoThread = NoThread
    None = None
    Failed = Failed
SYMMETRY Symmetry
INVARIANTS
    TypeOK
    NoLostRelease
    NoLostAcquire
    NotAllAsleep

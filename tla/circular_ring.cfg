SPECIFICATION ArraySpec
CONSTANTS
    Thread = {t1, t2}
    Value = {a, b}
    Size = 3
    NoThread = NoThread
    None = None
    Failed = Failed
SYMMETRY Symmetry
INVARIANTS
    RingConsistent
    IterInOrder
    ArrayMissesOnlyWrapped
PROPERTIES
    ImplementsQueue

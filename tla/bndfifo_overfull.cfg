SPECIFICATION BndSpec
CONSTANTS
    Thread = {t1, t2}
    Adder = t1
    Size = 1
    NoThread = NoThread
INVARIANTS
    BoundKept

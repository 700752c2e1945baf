SPECIFICATION FindSpec
CONSTANTS
    User = {u1, u2, u3}
    HKey = {1}
    Data = {a}
    Object = {1, 2}
    Sparse = FALSE
INVARIANT
    DataAccounted

SPECIFICATION AllSpec
CONSTANTS
    Uses = {"buf", "list", "strings", "fifo", "stack", "array", "keys", "hash", "tree"}
    Blk = {1, 2, 3, 4, 5, 6}
    Handle = {1, 2}
    Sizes = {2}
    Wide = 2
    MaxBuilt = 3
    MaxCalls = 5
    Node = {1, 2, 3}
    Nil = 0
    Item = {"a"}
    Key = {"a", "b", "c", "d"}
    HashOf <- SomeHashes
    StepOf <- TheirSteps
    Val = {"v"}
    Absent = "none"
    MaxBuckets = 8
    Name = {"p", "q"}
    Word = {"x", "y"}
    Chars = {1, 2, 3, 4}
    Link = {1, 2, 3}
    Null = 0
    Elem = {"a"}
    Cell = {1, 2, 3}
    Datum = {"a", "b"}
    Array = {"x", "y"}
    Value = {"a"}
    MaxSize = 3
    KeyName = {"n", "m"}
    KeyDatum = {"d"}
    KeyChars = {1, 2, 3, 4, 5}
    T = 2
    TreeKey = {1, 2, 3, 4, 5, 6, 7}
    MaxKeys = 9
    MaxCopies = 2
INVARIANTS
    ReadsAsText
    RefCountsViews
    ReadersServed
    ListsHold
    StringsKept
    NamesFound
    QueuesHold
    StackHolds
    ArrayHolds
    TableHolds
    CountsAgree
    TreeHolds

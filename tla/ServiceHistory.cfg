SPECIFICATION Spec
CONSTANTS
    LevelKey = {A}
    Message = {m}
    Time = {1}
    Blob <- AnyDelta
    MaxId = 4
    MaxSquash = 3
    Key = {k1}
    Empty = ""
    RawText = {""}
    EmptyRaw = ""
    Str = {"", "a"}
    Uuid = {u1}
    Nil = Nil
    Ops = {"commit", "revert", "crash", "import", "inspect", "message", "misread"}
    Incoming <- TwoStates
    CacheCapacity = 1
    MaxPending = 1
    MaxBatch = 2
INVARIANTS
    TypeOK
    HistoryFaithful
    CacheBounded

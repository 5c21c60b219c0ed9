SPECIFICATION FairSpec
CONSTANTS
    LevelKey = {A, B}
    Message = {m}
    Time = {1}
    Blob <- AnyDelta
    MaxId = 4
    MaxSquash = 3
    Key = {k1}
    Empty = ""
    RawText = {""}
    EmptyRaw = ""
    Str = {""}
    Uuid = {u1}
    Nil = Nil
    Ops = {"commit", "checkout", "revert", "squash", "replace", "delete"}
    Incoming <- TwoStates
    CacheCapacity = 1
    MaxPending = 1
    MaxBatch = 2
PROPERTIES
    ImplementsStore
    JobsEnd
INVARIANTS
    HistoryFaithful
    CacheOnlyLiveCommits
    EveryLevelLoadable

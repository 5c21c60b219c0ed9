SPECIFICATION Spec
CONSTANTS
    Objects <- Around
    MaxUuid = 3
    MaxIncoming = 3
    Threshold = 4
INVARIANTS
    NoObjectLost
    GridFindsNearest
    UnchangedLevelKeepsUuids
    AddAndRemoveOnlyIfFar
CHECK_DEADLOCK FALSE

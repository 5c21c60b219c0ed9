SPECIFICATION Spec
CONSTANTS
    Key = {"k1", "kS38"}
    Str <- Strings
    Empty = ""
    RawText <- Texts
    EmptyRaw <- TheNoText
    Uuid = {1, 2, 3, 4}
    MaxUuid = 4
    Nil = Nil
    KeyOrder <- Keys
    ColorKey = "kS38"
    Channel = {1, 2}
    ChannelsOf <- ChannelTexts
    Malformed = Malformed
    States <- SomeStates
INVARIANTS
    TypeOK
    RebuildGivesTarget
    CleanRevertUndoesOnlyTarget
    CleanImportKeepsBothSides
    ImportIsSymmetric
    ImportBackAgrees
    OneSidedHeaderChangesArrive
CHECK_DEADLOCK FALSE

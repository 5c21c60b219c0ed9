SPECIFICATION DatabaseSpec
CONSTANTS
    LevelKey = {A, B}
    Message = {m}
    Time = {1}
    Blob = {d}
    MaxId = 4
    MaxSquash = 3
    ModVersion = {1, 2}
    NotOpening = NotOpening
    NoLayout = 0
INVARIANTS
    StoreTypeOK
    HeadInOwnLevel
    EveryLevelDeletable
PROPERTIES
    OpenedWholeOrWiped

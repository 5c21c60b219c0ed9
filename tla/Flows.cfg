SPECIFICATION FairSpec
CONSTANTS
    LevelKey = {A, B}
    Message = {m}
    Time = {1}
    Blob = {c}
    MaxId = 2
    MaxSquash = 2
    Popup = {p, q}
    NoPopup = NoPopup
    NoEditor = NoEditor
    NoFlow = NoFlow
    UserOps = {"commit", "checkout", "squash", "import"}
    MaxLayers = 2
    MaxFlows = 2
INVARIANTS
    BusyWhileOneFlowRuns
PROPERTIES
    OnlyOwnLevelReplaced
    FlowsEnd

SPECIFICATION Spec
CONSTANTS
    LevelKey = {A, B}
    Message = {m}
    Time = {1}
    Blob = {c, d}
    MaxId = 4
    MaxSquash = 2
    Popup = {p, q}
    NoPopup = NoPopup
    NoEditor = NoEditor
    NoFlow = NoFlow
    UserOps = {"commit", "checkout", "revert", "squash", "import", "load", "delete"}
    MaxLayers = 2
    MaxFlows = 1
INVARIANTS
    FlowTypeOK
    EditorShowsHead

SPECIFICATION Spec
CONSTANTS
    LevelKey = {A}
    Message = {m}
    Time = {1}
    Blob = {c, d}
    MaxId = 4
    MaxSquash = 2
    Popup = {p}
    NoPopup = NoPopup
    NoEditor = NoEditor
    NoFlow = NoFlow
    UserOps = {"commit", "squash"}
    MaxLayers = 1
    MaxFlows = 1
PROPERTIES
    SquashKeepsLevel

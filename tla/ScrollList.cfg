SPECIFICATION Spec
CONSTANTS
    MaxItems = 3
    MaxClicks = 3
INVARIANTS
    PopupShowsSelection
PROPERTIES
    ListsNeverGoBack
    OwnChangesAppear
CHECK_DEADLOCK FALSE

SPECIFICATION Spec
CONSTANTS
    None = None
    Pages = {"options", "popup"}
    MaxAsks = 3
    MaxSelections = 2
    MaxToggles = 0
    MaxCloses = 1
    MaxUnloads = 0
    MaxSpent = 4
    MaxFailures = 0
INVARIANT SwitchingBackRemovesPermission
CHECK_DEADLOCK FALSE

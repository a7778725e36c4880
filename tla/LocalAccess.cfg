SPECIFICATION Spec
CONSTANTS
    None = None
    Pages = {"options", "popup"}
    MaxAsks = 3
    MaxSelections = 2
    MaxToggles = 1
    MaxCloses = 1
    MaxUnloads = 1
    MaxSpent = 4
    MaxFailures = 1
INVARIANTS MemoryIsStored NothingBehindSwitch NoEndlessChecking
    BrowserGivesUpPermission
PROPERTIES OnlyItsSetting ShownOnlyNewer
CHECK_DEADLOCK FALSE

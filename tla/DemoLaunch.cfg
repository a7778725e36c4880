SPECIFICATION Spec
CONSTANTS
    None = None
    Tabs = {t1, t2}
    Clicks = {c1, c2}
    MaxDocuments = 1
    MaxRuns = 2
    MaxChanges = 1
    MaxUnloads = 1
    MaxFailures = 1
CONSTRAINT StorageKeepsUp
INVARIANTS LaunchIsKept OneTabAtATime DemoIsWhole
PROPERTY NoDemoBesideRules
CHECK_DEADLOCK FALSE

SPECIFICATION Spec
CONSTANTS
    None = None
    Tabs = {t1}
    Clicks = {c1}
    MaxDocuments = 1
    MaxRuns = 1
    MaxChanges = 0
    MaxUnloads = 0
    MaxFailures = 0
PROPERTY WaitFailsUnconfirmed
CHECK_DEADLOCK FALSE

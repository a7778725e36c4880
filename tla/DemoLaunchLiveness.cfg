SPECIFICATION FairSpec
CONSTANTS
    None = None
    Tabs = {t1}
    Clicks = {c1}
    MaxDocuments = 1
    MaxRuns = 1
    MaxChanges = 1
    MaxUnloads = 1
    MaxFailures = 1
PROPERTIES RunEnds DocumentAnswered
CHECK_DEADLOCK FALSE

SPECIFICATION FairSpec
CONSTANTS
    h1 = h1
    h2 = h2
    raw1 = raw1
    r1 = r1
    Rules = {r1, r2}
    Hosts = {h1, h2}
    RawSites = {raw1}
    HostOf <- MCHostOf
    Drafts <- MCDrafts
    InitialStates <- MCInitialStates
    None = None
    Malformed = Malformed
    Down = Down
    MaxChanges = 3
    MaxWrites = 2
INVARIANTS TypeOK QuietIsSaved NoStaleFlags CachedAsTheRuleIs
PROPERTIES NeverTorn EventuallySaved
CHECK_DEADLOCK FALSE

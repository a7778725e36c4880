SPECIFICATION Spec
CONSTANTS
    js = js
    css = css
    jsFolder = jsFolder
    cssFolder = cssFolder
    project = project
    long = long
    other = other
    short = short
    rule = rule
    Files = {js, css}
    Folders = {jsFolder, cssFolder, project}
    FolderOf <- MCFolderOf
    Inside <- MCInside
    FirstContent <- MCFirst
    EarlierGrants <- MCGrants
    MaxCalls = 2
    Contents = {long, other, short}
    Gone = Gone
    Size <- MCSize
    RawChunkBytes = 2
    MaximumEntries = 1
    MaximumBytes = 8
    MaximumBookmarks = 2
    NoRequest = NoRequest
    Never = Never
    MaxWrites = 2
    MaxFaults = 1
    MaxDeletions = 1
    Readers = {r1, r2}
    Editors = {rule}
    Sources <- MCSources
    NoAnswer = NoAnswer
INVARIANTS TypeOK SnapshotsAreOfTheirWriting GrantsKept
PROPERTIES ReadsKeepTheirPromise
SYMMETRY MCSymmetry
CHECK_DEADLOCK FALSE

SPECIFICATION Spec
CONSTANTS
    Rules = {r1, r2}
    js1 = js1
    css1 = css1
    Paths <- BothPaths
    Requests = {q1, q2}
    Descriptors <- MCDescriptors
    FileBytes <- MCFileBytes
    MaximumEntries = 1
    MaximumBytes = 3
    None = None
    Pending = Pending
    Failed = Failed
    NoAnswer = NoAnswer
    Refused = Refused
    MaxEdits = 1
    MaxVersion = 1
    MaxEpoch = 1
SYMMETRY MCSymmetry
INVARIANTS TypeOK CacheBounded
CHECK_DEADLOCK FALSE

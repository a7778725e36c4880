SPECIFICATION Spec
CONSTANTS
    f1 = f1
    f2 = f2
    f3 = f3
    Files = {f1, f2, f3}
    TooLongUrls = {f3}
    Size <- MCSize
    RawChunkBytes = 2
    MaxFileBytes = 4
    Requests = {1, 2}
    Ports = {1, 2}
    NoRequest = 0
    None = None
    Refused = Refused
    NoAnswer = NoAnswer
    MaxEdits = 1
    MaxFaults = 1
INVARIANTS RequestsKept AnswerIsAhead
PROPERTIES ReadsAreWhole
CHECK_DEADLOCK FALSE

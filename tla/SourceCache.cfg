SPECIFICATION FairSpec
CONSTANTS
    Rules = {r1}
    js1 = js1
    css1 = css1
    Paths <- JsPath
    Requests = {q1, q2, q3}
    Descriptors <- JsDescriptors
    FileBytes <- MCFileBytes
    MaximumEntries = 1
    MaximumBytes = 3
    None = None
    Pending = Pending
    Failed = Failed
    NoAnswer = NoAnswer
    Refused = Refused
    MaxEdits = 1
    MaxVersion = 1
    MaxEpoch = 1
INVARIANTS EntriesCurrent NoDuplicateRefresh
PROPERTIES NeverBackwards AnswersFresh EveryRequestAnswered
CHECK_DEADLOCK FALSE

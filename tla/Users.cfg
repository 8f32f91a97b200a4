\* Two requests at a time on one profile, and a stream that watches it.
CONSTANTS
    Ids = {i1}
    Emails = {e1}
    First = first
    Values = {new}
    Flags = {banned}
    Workers = {w1, w2}
    None = None
    MaxRequests = 2
SPECIFICATION Spec
INVARIANTS KeysExplained EditsSurvive
PROPERTIES WatcherCatchesUp
\* Requests are bounded, and the stream may end.
CHECK_DEADLOCK FALSE

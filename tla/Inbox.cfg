\* Two requests at a time, everything may go wrong; or one at a time and nothing does.
CONSTANTS
    Ids = {n1, n2}
    Handlers = {h1, h2}
    Requests = {"inbox", "prefs"}
    Settings <- CalmAndRough
    TTL = 2
    MaxLag = 1
    MaxTime = 4
SPECIFICATION Spec
INVARIANTS TypeOK CountIsRecent FlaggedIsQueued CountSettles ChoiceStays
PROPERTIES MailWasWanted
SYMMETRY Symmetry
\* The clock stops at its bound.
CHECK_DEADLOCK FALSE

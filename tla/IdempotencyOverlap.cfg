\* Two requests with one key, and nothing goes wrong.
CONSTANTS
    Requests = {r1, r2}
    Keys = {k1}
    Faults = {}
SPECIFICATION Spec
INVARIANTS DuplicatesSpared
CHECK_DEADLOCK FALSE

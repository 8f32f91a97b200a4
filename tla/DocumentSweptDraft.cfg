\* One request at a time and the sweep: a draft becomes overdue.
CONSTANTS
    Docs = {d1}
    Workers = {w1}
    Users = {}
    Titles = {t1}
    Times = {0}
    NoUser = NoUser
    NoTime = NoTime
    MaxTime = 1
    MaxTrail = 2
    Exclusive = TRUE
SPECIFICATION Spec
PROPERTIES TransitionsEnforced

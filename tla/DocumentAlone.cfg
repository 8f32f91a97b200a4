\* One document, requests one after the other, every failure and restart.
CONSTANTS
    Docs = {d1}
    Workers = {w1}
    Users = {u1, u2}
    Titles = {t1}
    Times = {0}
    NoUser = NoUser
    NoTime = NoTime
    MaxTime = 1
    MaxTrail = 3
    Exclusive = TRUE
SPECIFICATION Spec
INVARIANTS RecordAgrees
PROPERTIES FollowsLifecycle

\* Two requests at a time on one task, every interleaving and failure.
CONSTANTS
    Tasks = {t1}
    Workers = {w1, w2}
    Users = {u1, u2}
    Deadlines = {0}
    NoUser = NoUser
    NoTime = NoTime
    MaxTime = 1
    MaxTrail = 3
SPECIFICATION Spec
INVARIANTS StatusAccountedFor TrailReplays
PROPERTIES ChangesFollowReading
SYMMETRY Symmetry

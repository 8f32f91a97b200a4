\* Two requests at a time on one document, every interleaving.
CONSTANTS
    Docs = {d1}
    Workers = {w1, w2}
    Users = {u1}
    Titles = {t1}
    Times = {0}
    NoUser = NoUser
    NoTime = NoTime
    MaxTime = 1
    MaxTrail = 2
    Exclusive = FALSE
SPECIFICATION Spec
INVARIANTS StatusAccountedFor TrailLawful
PROPERTIES ChangesFollowReading
SYMMETRY Symmetry

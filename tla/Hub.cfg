\* Two streams, two publishers, channels of two notes; no symmetry, which TLC's
\* liveness check does not allow.
CONSTANTS
    Users = {u1}
    Streams = {s1, s2}
    Publishers = {p1, p2}
    Notes = {n1, n2, n3}
    NoNote = NoNote
    Capacity = 2
SPECIFICATION HubSpec
INVARIANTS NeverSendsOnClosed Accounted
PROPERTIES PublishersFinish StreamsEnd
\* Every note is published once and every stream ends.
CHECK_DEADLOCK FALSE

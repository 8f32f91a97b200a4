\* Keys: three requests on two keys, an original, a retry and a bystander; everything
\* may go wrong.  Limit: two handlers and a window of six seconds, of which two may be
\* busy; commands may fail in two seconds.  Doors: every operation of every service,
\* a body leaving out at most one field, or all it can, and giving at most
\* one text nobody can read.
CONSTANTS
    Requests = {r1, r2, r3}
    Keys = {k1, k2}
    Faults = {"redis", "torn", "crash", "expiry"}
    Handlers = {h1, h2}
    Limit = 2
    Window = 6
    MaxLag = 1
    Lifetime = 7
    MaxFailures = 2
    MaxTime = 8
    MaxLeftOut = 1
    MaxGarbled = 1
SPECIFICATION GatewaySpec
INVARIANTS OnceUnlessExcused ReplayIsSound BusySecondsBounded
           GivenFieldsArrive OmittedFieldsStay NamedValuesArrive ActorIsCaller FailuresAreOwned
SYMMETRY Symmetry
\* Every request is served once, and the clock stops at its bound.
CHECK_DEADLOCK FALSE

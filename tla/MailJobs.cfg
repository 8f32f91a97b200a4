\* Two consumers, two job ids, each published twice; no symmetry, which TLC's
\* liveness check does not allow.
CONSTANTS
    Jobs = {j1, j2}
    Consumers = {c1, c2}
    NoJob = NoJob
    MaxCopies = 2
SPECIFICATION Spec
INVARIANTS AtMostOneMail StalledIsExplained
PROPERTIES KeepsLog JobsFinish
\* Messages are bounded and finished jobs stay: the system may stop.
CHECK_DEADLOCK FALSE

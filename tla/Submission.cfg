CONSTANTS
    Schedulers = {s1, s2}
    Ids = {i1, i2}
    Clients = {c1}
    Prefixes = {"x"}
    PrefixOf <- OnePrefix
    MaxTime = 1
    Times = {1}
    MaxFaults = 2
    NoJob = NoJob
SPECIFICATION Spec
CHECK_DEADLOCK FALSE
INVARIANT TypeOK
INVARIANT SubmittedOnce
INVARIANT RemovedIsNeverSubmitted
INVARIANT SubmittedIsStarted
INVARIANT TaskIsItsOwn
PROPERTY EndedIsFinal
PROPERTY DueEnds

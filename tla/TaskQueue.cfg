CONSTANTS
    t1 = t1
    t2 = t2
    d1 = d1
    Tasks = {t1, t2}
    Datasets = {d1}
    DatasetsOf <- OneEach
    Prios = {1, 2}
    MaxTries = 3
    MaxRank = 4
    NotYet = NotYet
    Gone = Gone
    NoEntry = NoEntry
    Procs <- TwoProcs
    MaxCalls = 3
    MaxFaults = 1
    NoTask = NoTask
SPECIFICATION Spec
CHECK_DEADLOCK FALSE
INVARIANT TypeOK
INVARIANT FileIsSound
INVARIANT OnlyActiveRuns
INVARIANT NoSilentInversion
INVARIANT RunsAreCounted
INVARIANT CompletionsArrive
PROPERTY TaskIsServed

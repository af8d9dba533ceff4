CONSTANTS
    Schedulers = {s1}
    Ids = {i1}
    Clients = {c1}
    Prefixes = {"x"}
    PrefixOf <- OnePrefix
    MaxTime = 1
    Times = {1}
    MaxFaults = 0
    NoJob = NoJob
SPECIFICATION Spec
CHECK_DEADLOCK FALSE
INVARIANT TaskHasItsConfig

CONSTANTS
    Services = {s1}
    Workers = {w1, w2}
    ServiceOf <- OneService
    Versions = {"old", "new"}
    Chunks = {1, 2, 3}
    ChunksOf <- OfVersion
    BatchSize = 2
    Attempts = 2
    MaxEdits = 1
    MaxBuilds = 1
    MaxFaults = 1
    NoVersion = "none"
    NoWorker = NoWorker
    Configs <- ConfigsTried
    ValidStages = {"precheck", "train", "eval", "lost"}
    Scripts = {"precheck", "train", "eval"}
    GpuScripts = {"train"}
    TaskTypes = {"known"}
    MaxChanges = 2
    Clients = {c1}
    Limit = 4
    MaxEvents = 5
    MaxCrashes = 2
SPECIFICATION ServicesSpec
CHECK_DEADLOCK FALSE
INVARIANT ServicesTypeOK
INVARIANT SearchIsCurrent
INVARIANT DenseIsWhole
INVARIANT TriggeredIsRunnable
PROPERTY SearchEnds
PROPERTY StreamTellsTheEnd

CONSTANTS
    p1 = p1
    p2 = p2
    t1 = t1
    t2 = t2
    Gpus = {1, 2}
    Procs = {p1, p2}
    Tasks = {t1, t2}
    TaskOf <- TaskOfPid
    Total = 2
    Sizes = {1, 2}
    IdleMax = 1
    Patient = {p1}
    Foreign = {p2}
    Pools <- AllPools
    MaxRequests = 2
    MaxEvents = 2
    NoGpu = NoGpu
    NoTask = NoTask
SPECIFICATION Spec
CHECK_DEADLOCK FALSE
INVARIANT TypeOK
INVARIANT ExclusiveIsAlone
INVARIANT PromisesFit
INVARIANT WaitIsRight
PROPERTY WaiterIsServed

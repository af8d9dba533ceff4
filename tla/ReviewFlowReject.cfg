CONSTANTS
    r1 = r1
    r2 = r2
    Calls <- ThreeCalls
    Runs = {r1}
    Prints <- OneAction
    MaxSteps = 2
    Serial = TRUE
    NoPrint = NoPrint
    NoRun = NoRun
SPECIFICATION Spec
CHECK_DEADLOCK FALSE
INVARIANT RejectProducesNoMutation

CONSTANTS
    r1 = r1
    r2 = r2
    Calls <- ThreeCalls
    Runs = {r1, r2}
    Prints <- TwoActions
    MaxSteps = 1
    Serial = FALSE
    NoPrint = NoPrint
    NoRun = NoRun
SPECIFICATION FairSpec
CHECK_DEADLOCK FALSE
INVARIANT OnlyApprovedIsAttempted
PROPERTY CallsEnd

CONSTANTS
    r1 = r1
    r2 = r2
    Calls <- FourCalls
    Runs = {r1, r2}
    Prints <- TwoActions
    MaxSteps = 2
    Serial = TRUE
    NoPrint = NoPrint
    NoRun = NoRun
SPECIFICATION Spec
CHECK_DEADLOCK FALSE
INVARIANT TypeOK
INVARIANT WithdrawnIsNeverAttempted
INVARIANT FinalResponseIsTrue
PROPERTY FinishedRunIsFinal

SPECIFICATION Spec
CONSTANTS
    c1 = c1
    c2 = c2
    b1 = b1
    Targets = {c1, c2, b1}
    RelOf <- MCRelOf
    Runs <- MCRuns
    MaxAttempts = 2
    Limit = 2
    MaxOps = 4
    MaxFaults = 2
INVARIANTS OneCurrent NewestIsShown
PROPERTIES DoneIsDone
CHECK_DEADLOCK FALSE

SPECIFICATION Spec
CONSTANTS
    Controller = {c1, c2}
    None = None
    Attempts = 2
    Refusals = {"refused"}
    MaxCrashes = 0
    MaxFaults = 1
    MaxRevisions = 3
INVARIANTS OneStep
CHECK_DEADLOCK FALSE

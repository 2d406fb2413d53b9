SPECIFICATION Spec
CONSTANTS
    Controller = {c1, c2}
    None = None
    Attempts = 2
    Refusals = {"refused"}
    MaxCrashes = 1
    MaxFaults = 1
    MaxRevisions = 3
INVARIANTS ExternalOnce OutcomesStand
PROPERTIES Implements
CHECK_DEADLOCK FALSE

SPECIFICATION Spec
CONSTANTS
    p1 = p1
    p2 = p2
    base = base
    feature = feature
    Process = {p1, p2}
    Nothing = Nothing
    Plan <- TwoArms
    MaxCalls = 3
    MaxFaults = 1
SYMMETRY Symmetry
CHECK_DEADLOCK FALSE
INVARIANTS
    SampledOnce
    SampledUnderItsArm
    SessionsAccounted

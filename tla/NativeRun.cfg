SPECIFICATION Spec
CONSTANTS
    Process = {p1, p2}
    Nothing = Nothing
    MaxTurns = 1
    Gradings = 2
    MaxFaults = 2
    MaxRecoveries = 2
SYMMETRY Symmetry
CHECK_DEADLOCK FALSE
INVARIANTS CalledOnce GradeAccounted SessionBound

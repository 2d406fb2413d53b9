SPECIFICATION AllSpec
CONSTANTS
    p1 = p1 p2 = p2 j1 = j1 j2 = j2 j3 = j3
    Process = {p1, p2}
    Job = {j1, j2, j3}
    First = {j1}
    MaxUpdates = 3
    MaxGroups = 7
    GroupsPerUpdate = 2
    Nothing = Nothing
    MaxCalls = 3
    MaxFaults = 1
    Worker = {1, 2}
    MaxContents = 3
    MaxSessions = 2
    MaxFailures = 2
SYMMETRY Symmetry
CHECK_DEADLOCK FALSE
INVARIANTS
    UpdatesAccounted
    CheckpointsStand
    BackendSound

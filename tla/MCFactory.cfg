SPECIFICATION Spec
CONSTANTS
  p1 = p1
  p2 = p2
  c1 = c1
  c2 = c2
  c3 = c3
  k1 = k1
  k2 = k2
  r1 = r1
  r2 = r2
  Nothing = Nothing
  Process <- MCProcess
  Revision <- MCRevision
  Root <- MCRevision
  Batch <- MCBatch
  Caps <- MCCaps
  AttemptsPerRole = 2
  Overrun = 1
  MaxRecords = 1
  MaxCalls = 3
  MaxFaults = 2
  TaskVersion = {1, 2}
  Sound = {1}
  PolicyId = {1}
  Implementation = {1, 2}
  Controller = {1}
  MaxOperations = 3
  MaxNotices = 1
SYMMETRY MCSymmetry
CHECK_DEADLOCK FALSE
INVARIANTS EffectOnce CompletionBindsEffect CallsReserved ReleaseStands

SPECIFICATION Spec
CONSTANTS
  p1 = p1
  p2 = p2
  public = public
  authored = authored
  hidden = hidden
  d1 = d1
  d2 = d2
  JustRead = JustRead
  Garbled = Garbled
  Nobody = Nobody
  Nothing = Nothing
  None = None
  Process <- MCProcess
  Artifact <- MCArtifact
  VisibilityOf <- MCVisibilityOf
  RefsOf <- MCRefsOf
  MaxOps = 1
  MaxFaults = 2
  Cases = 3
  Cap = 2
  Base = {1, 2}
  Package = {1, 2}
  MaxRuns = 3
  MaxPolls = 1
CHECK_DEADLOCK FALSE
INVARIANTS RewardSound ChargedRight AcceptedIsWhole StoreKept ResolvedOnce
PROPERTIES WorkspaceKept WhatBeganEnds

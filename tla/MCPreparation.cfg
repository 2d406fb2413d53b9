SPECIFICATION Spec
CONSTANTS
  Package = {1, 2, 3}
  MaxWheels = 3
  MaxChanges = 1
  PageSize = 2
  MaxPages = 2
  MaxEvents = 3
  MaxRuns = 2
  Name = {"a", "b"}
  None = None
  Rejection = Rejection
CHECK_DEADLOCK FALSE
INVARIANTS
  ResolutionExact HistoryIsFair DeclarationsRead StudyIsSound SourceStands ContractGrounded

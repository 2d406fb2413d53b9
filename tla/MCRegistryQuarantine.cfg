SPECIFICATION Spec
CONSTANTS
    a1 = a1 a2 = a2 a3 = a3 a4 = a4
    j1 = j1 j2 = j2 j3 = j3 k1 = k1 k2 = k2 k3 = k3
    u1 = u1 u2 = u2 n1 = n1 n2 = n2
    policy = policy subjects = subjects protected = protected
    Artifact = {a1, a2, a3, a4, policy, subjects, protected}
    Intrinsic <- QuarIntrinsic
    Policy = {policy}
    SubjectGroup = {subjects}
    ProtectedGroup = {protected}
    Explicit <- QuarExplicit
    Job = {j1, j2, j3}
    Inputs <- QuarInputs
    Configuration <- QuarConfiguration
    AttemptLimit <- QuarAttemptLimit
    AuditJob = {j2}
    ClaimKey = {k1, k2, k3}
    Evidence = {a2}
    Outcome <- QuarOutcome
    Upstream = {u1, u2}
    MaxRevision = 1
    Receipts <- QuarReceipts
    Costs <- NoCost
    Unknown = Unknown
    Notice = {n1}
    InitialLimits <- QuarLimits
    LimitChoices = {}
    MaxActiveJobs = 3
    MaxAttemptsPerJob = 2
    MaxDamage = 0
INVARIANT GraphSound
PROPERTIES QuarantineContained AdmissionClean ProtectedScopeBlocks
CHECK_DEADLOCK FALSE

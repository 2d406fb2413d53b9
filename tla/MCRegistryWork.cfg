SPECIFICATION Spec
CONSTANTS
    a1 = a1 a2 = a2 a3 = a3 a4 = a4
    j1 = j1 j2 = j2 j3 = j3 k1 = k1 k2 = k2 k3 = k3
    u1 = u1 u2 = u2 n1 = n1 n2 = n2
    policy = policy subjects = subjects protected = protected
    Artifact = {a1, a2}
    Intrinsic <- NoRefs
    Policy = {}
    SubjectGroup = {}
    ProtectedGroup = {}
    Explicit = {}
    Job = {j1, j2}
    Inputs <- WorkInputs
    Configuration <- WorkConfiguration
    AttemptLimit <- WorkAttemptLimit
    AuditJob = {}
    ClaimKey = {k1, k2, k3}
    Evidence = {a2}
    Outcome <- WorkOutcome
    Upstream = {u1, u2}
    MaxRevision = 2
    Receipts <- WorkReceipts
    Costs <- WorkCosts
    Unknown = Unknown
    Notice = {}
    InitialLimits <- WorkLimits
    LimitChoices <- WorkChoices
    MaxActiveJobs = 1
    MaxAttemptsPerJob = 2
    MaxDamage = 1
INVARIANTS OneOwner NeverStranded ActiveCap LedgerCumulative
PROPERTIES CompletionBindsNewest
CHECK_DEADLOCK FALSE

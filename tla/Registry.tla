------------------------------ MODULE Registry ------------------------------
(***************************************************************************)
(* The registry of feature_rl/registry (state.py, core.py, historical.py): *)
(* the bookkeeping every controller process shares.  One step is one       *)
(* committed event, i.e. one successful Storage.change() whose semantic    *)
(* key was new.  A replayed key, and every rejected call, leaves the state *)
(* as it was and is a stuttering step.  RegistryStorage describes how an   *)
(* event becomes durable.                                                  *)
(*                                                                         *)
(* Abstracted: an artifact is a model value, its bytes are intact or       *)
(* damaged, and its embedded references are Intrinsic; a claim is its      *)
(* claim key (owner and token travel with it); a job is its JobSpec;       *)
(* reasons are left out.  The byte, closure and edge caps bound the same   *)
(* tables as the count caps that are kept.                                 *)
(***************************************************************************)
EXTENDS Naturals, FiniteSets, Sequences

CONSTANTS
    Artifact,           \* artifact references
    Intrinsic,          \* Intrinsic[a]: references embedded in a's bytes
    Policy, SubjectGroup, ProtectedGroup,   \* reserved kinds of historical.py
    Explicit,           \* <<a, D>>: D may be declared when a is registered
    Job, Inputs, Configuration, AttemptLimit,   \* the JobSpecs
    AuditJob,           \* the jobs whose operation is "audit"
    ClaimKey,
    Evidence,           \* artifacts submitted as supervisor evidence
    Outcome,            \* the artifacts and evidence a result can carry
    Upstream, MaxRevision, Receipts, Costs, Unknown,   \* accounting inputs
    Notice,
    InitialLimits, LimitChoices, MaxActiveJobs, MaxAttemptsPerJob,
    MaxDamage           \* how many artifacts the environment may damage

VARIABLES
    artifacts,      \* artifacts[a]: dependencies of the registered artifact a
    jobs,           \* jobs[j]: JobRecord of the enqueued job j
    attempts,       \* attempts[k]: AttemptRecord of the claim key k
    observations,   \* observations[<<u, r>>]: revision r for upstream u
    notices,        \* notices[n]: QuarantineNotice
    limits,         \* RegistryLimits in force
    events,         \* the semantic keys of the committed events
    damaged         \* artifacts whose bytes no longer verify

vars == <<artifacts, jobs, attempts, observations, notices, limits, events, damaged>>

Reserved == Policy \cup SubjectGroup \cup ProtectedGroup

\* Mutant: only an artifact that depends on itself is refused.
AcyclicSelfOnly(g) == \A a \in DOMAIN g : a \notin g[a]

\* No nonempty set of nodes of the graph g in which every node has a parent.
Acyclic(g) == {S \in SUBSET DOMAIN g : \A a \in S : g[a] \cap S # {}} = {{}}

LimitRecord == [events : Nat, jobs : Nat, artifacts : Nat]

\* The specifications, the embedded references and the inputs are well formed.
ASSUME ReferenceAssumption ==
    /\ IsFiniteSet(Artifact)
    /\ Intrinsic \in [Artifact -> SUBSET Artifact]
    /\ Reserved \subseteq Artifact
    /\ Evidence \subseteq Artifact
    /\ Explicit \subseteq Artifact \X SUBSET Artifact
    /\ Outcome \subseteq [artifacts : SUBSET Artifact, evidence : SUBSET Artifact]
    /\ Receipts \subseteq SUBSET Artifact

ASSUME JobAssumption ==
    /\ Inputs \in [Job -> SUBSET Artifact]
    /\ Configuration \in [Job -> Artifact]
    /\ AttemptLimit \in [Job -> Nat \ {0}]
    /\ AuditJob \subseteq Job

ASSUME BoundAssumption ==
    /\ MaxRevision \in Nat
    /\ MaxActiveJobs \in Nat
    /\ MaxAttemptsPerJob \in Nat
    /\ MaxDamage \in Nat
    /\ InitialLimits \in LimitRecord
    /\ LimitChoices \subseteq LimitRecord

\* A cost that is not known yet (None in the code) is no number.
ASSUME CostAssumption ==
    /\ Unknown \notin Nat
    /\ \A c \in Costs : \A channel \in DOMAIN c : c[channel] \in Nat \cup {Unknown}

-----------------------------------------------------------------------------
(* The artifact index.                                                     *)

\* Least set that contains S and the dependencies (under d) of its members.
Closure(S, d) ==
    LET closed == {T \in SUBSET (Artifact \ S) : \A a \in S \cup T : d[a] \subseteq S \cup T}
    IN  {a \in Artifact : a \in S \/ \A T \in closed : a \in T}

\* Dependencies _verify gives each artifact when `declared` is passed explicitly.
Declared(declared) ==
    [a \in Artifact |-> Intrinsic[a] \cup
        (IF a \in DOMAIN declared THEN declared[a]
         ELSE IF a \in DOMAIN artifacts THEN artifacts[a] ELSE {})]

\* Every artifact in the closure of the roots is read and verified, then
\* installed: known records must not drift, the graph stays acyclic and bounded.
Install(roots, declared) ==
    LET d == Declared(declared)
        verified == Closure(roots, d)
        index == [a \in verified \cup DOMAIN artifacts |->
                     IF a \in verified THEN d[a] ELSE artifacts[a]]
    IN  /\ verified \cap damaged = {}
        /\ \A a \in verified \cap Reserved : d[a] = Intrinsic[a]
        /\ \A a \in verified \cap DOMAIN artifacts : d[a] = artifacts[a]
        /\ Acyclic(index)
        /\ Cardinality(DOMAIN index) <= limits.artifacts
        /\ artifacts' = index

NoDeclaration == [a \in {} |-> {}]
InstallAll(roots) == Install(roots, NoDeclaration)

-----------------------------------------------------------------------------
(* Quarantine: State.affected, State.usable and historical.ignored_roots.  *)
(* `index` is the artifact index the check runs on: apply() installs the   *)
(* records of its event before it asks whether the job is usable.          *)

JobInputs(j) == Inputs[j] \cup {Configuration[j]}
JobDependencies(j) == JobInputs(j) \cup jobs[j].result.evidence

\* Least set that contains root, every registered dependent of a member, and
\* the result of every job that consumed a member or rests on one as evidence.
Affected(root, index) ==
    LET closed ==
          {T \in {U \cup {root} : U \in SUBSET (DOMAIN index \ {root})} :
              /\ \A a \in DOMAIN index : index[a] \cap T # {} => a \in T
              /\ \A j \in DOMAIN jobs : JobDependencies(j) \cap T # {} =>
                                           jobs[j].result.artifacts \subseteq T}
    IN  {a \in DOMAIN index : \A T \in closed : a \in T}

ActiveNotices == {n \in DOMAIN notices : notices[n].active}

Scoped(j) == j \in AuditJob /\ Configuration[j] \in Policy

\* The closure of the audit's historical subjects, and what stays protected in it.
SubjectClosure(j, index) ==
    LET known == [a \in Artifact |-> IF a \in DOMAIN index THEN index[a] ELSE {}]
        groups == known[Configuration[j]] \cap SubjectGroup
    IN  Closure(UNION {known[g] : g \in groups}, known)

Guarded(j, index) ==
    LET scope == index[Configuration[j]]
    IN  {Configuration[j]} \cup scope \cup
        UNION {index[g] : g \in scope \cap ProtectedGroup}

\* Mutant: the protected references of the scope are not taken out.
IgnoredRootsUnguarded(j, index) == IF Scoped(j) THEN SubjectClosure(j, index) ELSE {}

IgnoredRoots(j, index) ==
    IF Scoped(j) THEN SubjectClosure(j, index) \ Guarded(j, index) ELSE {}

\* Mutant: what a result names is not looked at.
JobUsableInputsOnly(j, refs, index) ==
    \A n \in ActiveNotices :
       notices[n].root \notin IgnoredRoots(j, index) =>
          JobInputs(j) \cap Affected(notices[n].root, index) = {}

\* Mutant: only the quarantined artifact itself is refused, not what derives from it.
JobUsableDirect(j, refs, index) ==
    \A n \in ActiveNotices :
       notices[n].root \notin IgnoredRoots(j, index) => notices[n].root \notin refs

\* A scope nested in the subjects is an error whatever the notices are.
JobUsable(j, refs, index) ==
    /\ Scoped(j) => SubjectClosure(j, index) \cap Reserved = {}
    /\ refs \subseteq DOMAIN index
    /\ \A n \in ActiveNotices :
          notices[n].root \notin IgnoredRoots(j, index) =>
             refs \cap Affected(notices[n].root, index) = {}

-----------------------------------------------------------------------------
(* Attempts and accounting.                                                *)

LastAttempt(j) == jobs[j].attempts[Len(jobs[j].attempts)]

\* Mutant: any known claim is taken for the owner of its job.
OwnsAnyAttempt(k) == k \in DOMAIN attempts

\* authenticate(claim, running=True)
OwnsRunningJob(k) ==
    /\ k \in DOMAIN attempts
    /\ attempts[k].state = "running"
    /\ jobs[attempts[k].job].state = "running"
    /\ LastAttempt(attempts[k].job) = k

\* Mutant: a paused job gives its place up.
IsActiveUnpaused(j) == jobs[j].state \in {"queued", "running"}

IsActive(j) == jobs[j].state \in {"queued", "running", "paused"}

Latest == {o \in DOMAIN observations :
             \A p \in DOMAIN observations : p[1] = o[1] => p[2] <= o[2]}

\* Mutant: superseded revisions are bound as well.
LatestOfAll(k) == {o \in DOMAIN observations : observations[o].attempt = k}

LatestOf(k) == {o \in Latest : observations[o].attempt = k}

\* Mutant: a known cost may become unknown again.
CostKeptIfKnown(old, new) ==
    \A c \in DOMAIN old :
        /\ c \in DOMAIN new
        /\ old[c] # Unknown /\ new[c] # Unknown => old[c] <= new[c]

\* A new snapshot keeps every channel and neither loses nor lowers a known cost.
CostKept(old, new) ==
    \A c \in DOMAIN old :
        /\ c \in DOMAIN new
        /\ old[c] # Unknown => new[c] # Unknown /\ old[c] <= new[c]

\* Mutants: the attempt's state is given to the job; the job is queued again at
\* once; the attempt limit is compared off by one.
StateAfterAbandonMixed(j) == "abandoned"
StateAfterAbandonRequeued(j) == "queued"
StateAfterAbandonLate(j) ==
    IF Len(jobs[j].attempts) > AttemptLimit[j] THEN "exhausted" ELSE "paused"

StateAfterAbandon(j) ==
    IF Len(jobs[j].attempts) >= AttemptLimit[j] THEN "exhausted" ELSE "paused"

\* Storage.change: a new semantic key takes one slot of the bounded history.
RecordEvent(key, cap) ==
    /\ key \notin events
    /\ Cardinality(events) < cap
    /\ events' = events \cup {key}

Commit(key) == RecordEvent(key, limits.events)

NoResult == [artifacts |-> {}, evidence |-> {}]

-----------------------------------------------------------------------------
Init ==
    /\ artifacts = [a \in {} |-> {}]
    /\ jobs = [j \in {} |-> NoResult]
    /\ attempts = [k \in {} |-> NoResult]
    /\ observations = [o \in {} |-> NoResult]
    /\ notices = [n \in {} |-> NoResult]
    /\ limits = InitialLimits
    /\ events = {}
    /\ damaged = {}

Register(a, D) ==
    /\ a \in Reserved => D \subseteq Intrinsic[a]
    /\ Commit(<<"register", a>>)
    /\ Install({a}, [b \in {a} |-> D])
    /\ UNCHANGED <<jobs, attempts, observations, notices, limits, damaged>>

Enqueue(j) ==
    /\ j \notin DOMAIN jobs
    /\ Commit(<<"enqueue", j>>)
    /\ InstallAll(JobInputs(j))
    /\ Cardinality(DOMAIN jobs) < limits.jobs
    /\ Cardinality({i \in DOMAIN jobs : IsActive(i)}) < MaxActiveJobs
    /\ AttemptLimit[j] <= MaxAttemptsPerJob
    /\ JobUsable(j, JobInputs(j), artifacts')
    /\ jobs' = [i \in DOMAIN jobs \cup {j} |->
                  IF i = j THEN [state |-> "queued", attempts |-> <<>>,
                                 result |-> NoResult, bound |-> {}]
                  ELSE jobs[i]]
    /\ UNCHANGED <<attempts, observations, notices, limits, damaged>>

\* claim() only verifies the inputs: its event carries no artifact rows.
Claim(j, k) ==
    /\ j \in DOMAIN jobs
    /\ jobs[j].state = "queued"
    /\ k \notin DOMAIN attempts
    /\ Len(jobs[j].attempts) < AttemptLimit[j]
    /\ JobUsable(j, JobInputs(j), artifacts)
    /\ Closure(JobInputs(j), Declared(NoDeclaration)) \cap damaged = {}
    /\ Commit(<<"claim", k>>)
    /\ attempts' = [i \in DOMAIN attempts \cup {k} |->
                      IF i = k THEN [job |-> j, state |-> "running"] ELSE attempts[i]]
    /\ jobs' = [jobs EXCEPT ![j].state = "running", ![j].attempts = Append(@, k)]
    /\ UNCHANGED <<artifacts, observations, notices, limits, damaged>>

Abandon(k, e) ==
    /\ OwnsRunningJob(k)
    /\ Commit(<<"abandon", k>>)
    /\ InstallAll({e})
    /\ attempts' = [attempts EXCEPT ![k].state = "abandoned"]
    /\ jobs' = [jobs EXCEPT ![attempts[k].job].state = StateAfterAbandon(attempts[k].job)]
    /\ UNCHANGED <<observations, notices, limits, damaged>>

Retry(j, e) ==
    /\ j \in DOMAIN jobs
    /\ Len(jobs[j].attempts) < AttemptLimit[j]
    /\ jobs[j].state = "paused"
    /\ Commit(<<"retry", j, Len(jobs[j].attempts)>>)
    /\ InstallAll({e} \cup JobInputs(j))
    /\ JobUsable(j, JobInputs(j), artifacts')
    /\ jobs' = [jobs EXCEPT ![j].state = "queued"]
    /\ UNCHANGED <<attempts, observations, notices, limits, damaged>>

\* Allowed in every state of the attempt: late costs are still recorded.
Reconcile(k, u, r, R, c) ==
    /\ k \in DOMAIN attempts
    /\ {o \in Latest : o[1] = u} = {} => r = 1
    /\ \A o \in Latest : o[1] = u =>
          /\ observations[o].attempt = k
          /\ r = o[2] + 1
          /\ observations[o].receipts \subseteq R
          /\ CostKept(observations[o].cost, c)
    /\ Commit(<<"reconcile", u, r>>)
    /\ InstallAll(R)
    /\ observations' = [o \in DOMAIN observations \cup {<<u, r>>} |->
                          IF o = <<u, r>> THEN [attempt |-> k, receipts |-> R, cost |-> c]
                          ELSE observations[o]]
    /\ UNCHANGED <<jobs, attempts, notices, limits, damaged>>

\* O is the tuple of snapshot identities the caller gathered before the call.
Complete(k, res, O) ==
    /\ OwnsRunningJob(k)
    /\ O # {} /\ O = LatestOf(k)
    /\ LET j == attempts[k].job
           refs == JobInputs(j) \cup res.artifacts \cup res.evidence
       IN  /\ Commit(<<"complete", j>>)
           /\ InstallAll(refs)
           /\ JobUsable(j, refs, artifacts')
           /\ jobs' = [jobs EXCEPT ![j].state = "completed", ![j].result = res, ![j].bound = O]
    /\ attempts' = [attempts EXCEPT ![k].state = "completed"]
    /\ UNCHANGED <<observations, notices, limits, damaged>>

\* The root's bytes may be damaged; it only has to be registered.
Quarantine(n, root, e) ==
    /\ n \notin DOMAIN notices
    /\ root \in DOMAIN artifacts
    /\ Commit(<<"quarantine", n>>)
    /\ InstallAll({e})
    /\ notices' = [i \in DOMAIN notices \cup {n} |->
                     IF i = n THEN [root |-> root, active |-> TRUE] ELSE notices[i]]
    /\ UNCHANGED <<jobs, attempts, observations, limits, damaged>>

LiftQuarantine(n, e) ==
    /\ n \in ActiveNotices
    /\ Commit(<<"lift", n>>)
    /\ InstallAll({e})
    /\ notices' = [notices EXCEPT ![n].active = FALSE]
    /\ UNCHANGED <<jobs, attempts, observations, limits, damaged>>

\* The event cap applied is the expanded one, so a full history can be expanded.
ExpandLimits(l) ==
    /\ l # limits
    /\ \A field \in {"events", "jobs", "artifacts"} : limits[field] <= l[field]
    /\ RecordEvent(<<"expand_limits", l>>, l.events)
    /\ limits' = l
    /\ UNCHANGED <<artifacts, jobs, attempts, observations, notices, damaged>>

\* The environment damages the stored bytes of an artifact.
Damage(a) ==
    /\ a \notin damaged
    /\ Cardinality(damaged) < MaxDamage
    /\ damaged' = damaged \cup {a}
    /\ UNCHANGED <<artifacts, jobs, attempts, observations, notices, limits, events>>

Next ==
    \/ \E decl \in Explicit : Register(decl[1], decl[2])
    \/ \E j \in Job : Enqueue(j)
    \/ \E j \in Job, k \in ClaimKey : Claim(j, k)
    \/ \E k \in ClaimKey, e \in Evidence : Abandon(k, e)
    \/ \E j \in Job, e \in Evidence : Retry(j, e)
    \/ \E k \in ClaimKey, u \in Upstream, r \in 1..MaxRevision, R \in Receipts, c \in Costs :
          Reconcile(k, u, r, R, c)
    \/ \E k \in ClaimKey, res \in Outcome, O \in SUBSET DOMAIN observations : Complete(k, res, O)
    \/ \E n \in Notice, root \in Artifact, e \in Evidence : Quarantine(n, root, e)
    \/ \E n \in Notice, e \in Evidence : LiftQuarantine(n, e)
    \/ \E l \in LimitChoices : ExpandLimits(l)
    \/ \E a \in Artifact : Damage(a)

Spec == Init /\ [][Next]_vars

-----------------------------------------------------------------------------
(* Properties.                                                             *)

JobRecord == [state : {"queued", "running", "paused", "exhausted", "completed"},
              attempts : Seq(ClaimKey),
              result : [artifacts : SUBSET Artifact, evidence : SUBSET Artifact],
              bound : SUBSET (Upstream \X (1..MaxRevision))]

AttemptRecord == [job : Job, state : {"running", "abandoned", "completed"}]

EventKey ==
    ({"register"} \X Artifact) \cup ({"enqueue", "complete"} \X Job)
    \cup ({"claim", "abandon"} \X ClaimKey) \cup ({"retry"} \X Job \X Nat)
    \cup ({"reconcile"} \X Upstream \X (1..MaxRevision))
    \cup ({"quarantine", "lift"} \X Notice) \cup ({"expand_limits"} \X LimitChoices)

\* The types of the five tables State replays, of the limits and of the history
\* (state.py State.__init__ and the strict models of models.py).
TypeOK ==
    /\ DOMAIN artifacts \subseteq Artifact
    /\ \A a \in DOMAIN artifacts : artifacts[a] \subseteq Artifact
    /\ DOMAIN jobs \subseteq Job
    /\ \A j \in DOMAIN jobs : jobs[j] \in JobRecord
    /\ DOMAIN attempts \subseteq ClaimKey
    /\ \A k \in DOMAIN attempts : attempts[k] \in AttemptRecord
    /\ DOMAIN observations \subseteq Upstream \X (1..MaxRevision)
    /\ \A o \in DOMAIN observations :
          observations[o] \in [attempt : ClaimKey, receipts : Receipts, cost : Costs]
    /\ DOMAIN notices \subseteq Notice
    /\ \A n \in DOMAIN notices : notices[n] \in [root : Artifact, active : BOOLEAN]
    /\ limits \in LimitRecord
    /\ events \subseteq EventKey
    /\ damaged \subseteq Artifact

\* However claims, abandonments and completions of several controllers interleave,
\* an attempt runs exactly while it is the last attempt of a running job, every
\* earlier attempt of a job was abandoned, and no attempt serves two jobs
\* (authenticate, claim, abandon, complete).
OneOwner ==
    /\ \A k \in DOMAIN attempts :
          LET j == attempts[k].job IN
          /\ j \in DOMAIN jobs
          /\ \E i \in DOMAIN jobs[j].attempts : jobs[j].attempts[i] = k
          /\ attempts[k].state = "running" => jobs[j].state = "running" /\ LastAttempt(j) = k
    /\ \A j \in DOMAIN jobs : \A i \in DOMAIN jobs[j].attempts :
          LET k == jobs[j].attempts[i] IN
          /\ k \in DOMAIN attempts
          /\ attempts[k].job = j
          /\ i < Len(jobs[j].attempts) => attempts[k].state = "abandoned"
          /\ i = Len(jobs[j].attempts) =>
                CASE jobs[j].state = "running"   -> attempts[k].state = "running"
                  [] jobs[j].state = "completed" -> attempts[k].state = "completed"
                  [] OTHER                       -> attempts[k].state = "abandoned"

\* No automatic redispatch: a job reaches its (i+1)-th attempt only after its
\* i-th was abandoned and a retry was recorded for exactly that count
\* (docs/interfaces-M6-registry.md "Only a paused job can be explicitly retried").
RetryDiagnosed ==
    \A j \in DOMAIN jobs : \A i \in 1..(Len(jobs[j].attempts) - 1) :
        /\ <<"abandon", jobs[j].attempts[i]>> \in events
        /\ <<"retry", j, i>> \in events

\* The attempt limit neither leaks nor strands: a job that can still be claimed or
\* retried has an attempt left, and a job ends up exhausted only when none is left.
NeverStranded ==
    \A j \in DOMAIN jobs :
        /\ Len(jobs[j].attempts) <= AttemptLimit[j]
        /\ jobs[j].state \in {"queued", "paused"} => Len(jobs[j].attempts) < AttemptLimit[j]
        /\ jobs[j].state = "exhausted" => Len(jobs[j].attempts) = AttemptLimit[j]

\* Retrying does not ask for backpressure again (State.apply "retry"): the cap on
\* active jobs holds all the same, because a paused job keeps its place.
ActiveCap ==
    Cardinality({j \in DOMAIN jobs : jobs[j].state \notin {"completed", "exhausted"}})
        <= MaxActiveJobs

\* A completed or exhausted job never changes again, whoever still holds a claim
\* on it (StaleClaim in authenticate; changed completions fail).
TerminalJobs ==
    [][\A j \in DOMAIN jobs : jobs[j].state \in {"completed", "exhausted"} =>
          j \in DOMAIN jobs' /\ jobs'[j] = jobs[j]]_vars

\* The snapshots of one upstream attempt form a cumulative account: contiguous
\* revisions, one attempt, no receipt or channel dropped, no known cost reduced
\* between any two of them (State.apply "reconcile").
LedgerCumulative ==
    \A o \in DOMAIN observations :
        /\ o[2] > 1 => <<o[1], o[2] - 1>> \in DOMAIN observations
        /\ \A p \in DOMAIN observations : o[1] = p[1] /\ o[2] <= p[2] =>
              /\ observations[o].attempt = observations[p].attempt
              /\ observations[o].receipts \subseteq observations[p].receipts
              /\ \A c \in DOMAIN observations[o].cost :
                    LET cost == observations[o].cost[c] IN
                    /\ c \in DOMAIN observations[p].cost
                    /\ cost # Unknown => observations[p].cost[c] # Unknown /\ observations[p].cost[c] >= cost

\* A completion that races reconciliations, also of abandoned siblings, binds the
\* snapshots of the winning attempt only, each upstream call known at that moment
\* once and at its newest revision (State.apply "complete").
CompletionBindsNewest ==
    [][\A j \in DOMAIN jobs : jobs[j].state = "running" /\ jobs'[j].state = "completed" =>
          /\ \A p \in jobs'[j].bound :
                /\ p \in DOMAIN observations
                /\ observations[p].attempt = LastAttempt(j)
                /\ \A q \in jobs'[j].bound : p[1] = q[1] => p = q
          /\ \A o \in DOMAIN observations : observations[o].attempt = LastAttempt(j) =>
                \E p \in jobs'[j].bound : p[1] = o[1] /\ p[2] >= o[2]]_vars

\* The index is always a closed acyclic graph that contains every embedded
\* reference, whatever explicit dependencies were declared (State.install).
GraphSound ==
    /\ \A a \in DOMAIN artifacts :
          artifacts[a] \subseteq DOMAIN artifacts /\ Intrinsic[a] \subseteq artifacts[a]
    /\ LET known == [a \in Artifact |-> IF a \in DOMAIN artifacts THEN artifacts[a] ELSE {}]
       IN  \A a \in DOMAIN artifacts : a \notin Closure(artifacts[a], known)

Admitted(j) == j \in DOMAIN jobs /\ jobs[j].state \in {"queued", "running", "completed"}

\* What a step admits: a job that becomes queued, running or completed in it.
AdmittedByStep == {j \in DOMAIN jobs' : Admitted(j)' /\ ~(Admitted(j) /\ jobs'[j] = jobs[j])}

\* Quarantine contains: while a notice is active, an artifact that was registered
\* and clean becomes affected only through a historical audit completing
\* (affected, usable, job_usable at enqueue, claim, retry and complete).
QuarantineContained ==
    [][\A n \in ActiveNotices :
          \/ ~notices'[n].active
          \/ \E j \in AdmittedByStep : notices[n].root \in IgnoredRoots(j, artifacts)'
          \/ Affected(notices[n].root, artifacts)' \cap DOMAIN artifacts
                \subseteq Affected(notices[n].root, artifacts)]_vars

\* No ordinary job is queued, started or completed by a step after which an active
\* notice affects its inputs, its configuration, its result or its result's evidence.
AdmissionClean ==
    [][\A j \in AdmittedByStep : ~Scoped(j) =>
          \A n \in ActiveNotices' :
             (JobDependencies(j)' \cup jobs'[j].result.artifacts)
                \cap Affected(notices[n].root, artifacts)' = {}]_vars

\* A historical audit ignores notices on its subjects only: a notice rooted at its
\* configuration, its scope or a protected reference stops it all the same.
ProtectedScopeBlocks ==
    [][\A j \in AdmittedByStep : Scoped(j) =>
          \A n \in ActiveNotices' : notices'[n].root \notin Guarded(j, artifacts)']_vars
=============================================================================

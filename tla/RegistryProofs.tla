--------------------------- MODULE RegistryProofs ---------------------------
(***************************************************************************)
(* Theorems about Registry, for every set of artifacts, jobs, claims,      *)
(* upstream calls and notices and for every limit.                         *)
(***************************************************************************)
EXTENDS Registry, FiniteSetTheorems, TLAPS

USE DEF EventKey, AttemptRecord, JobRecord

-----------------------------------------------------------------------------
(* Type correctness.                                                       *)

ArtifactsOK ==
    /\ DOMAIN artifacts \subseteq Artifact
    /\ \A a \in DOMAIN artifacts : artifacts[a] \subseteq Artifact

\* What one installed record declares stays within the artifacts.
LEMMA DeclaredType ==
    ASSUME ArtifactsOK, NEW declared, NEW a \in Artifact,
           \A b \in DOMAIN declared : declared[b] \subseteq Artifact
    PROVE  Declared(declared)[a] \subseteq Artifact
  BY ReferenceAssumption DEF ArtifactsOK, Declared

LEMMA ClosureType == \A S, d : Closure(S, d) \subseteq Artifact
  BY DEF Closure

\* Installing verified records keeps the index within the artifacts.
LEMMA InstallType ==
    ASSUME ArtifactsOK, NEW roots, NEW declared,
           \A b \in DOMAIN declared : declared[b] \subseteq Artifact,
           Install(roots, declared)
    PROVE  ArtifactsOK'
<1> DEFINE d == Declared(declared)
           verified == Closure(roots, d)
           index == [a \in verified \cup DOMAIN artifacts |->
                        IF a \in verified THEN d[a] ELSE artifacts[a]]
<1>1. artifacts' = index
  BY DEF Install
<1>2. verified \subseteq Artifact
  BY ClosureType
<1>3. \A a \in verified : d[a] \subseteq Artifact
  BY <1>2, DeclaredType
<1> HIDE DEF verified, d
<1>4. QED
  BY <1>1, <1>2, <1>3 DEF ArtifactsOK

LEMMA InstallAllType ==
    ASSUME ArtifactsOK, NEW roots, InstallAll(roots)
    PROVE  ArtifactsOK'
  BY InstallType DEF InstallAll, NoDeclaration

JobsOK == DOMAIN jobs \subseteq Job /\ \A j \in DOMAIN jobs : jobs[j] \in JobRecord

AttemptsOK ==
    DOMAIN attempts \subseteq ClaimKey /\ \A k \in DOMAIN attempts : attempts[k] \in AttemptRecord

ObservationsOK ==
    /\ DOMAIN observations \subseteq Upstream \X (1..MaxRevision)
    /\ \A o \in DOMAIN observations :
          observations[o] \in [attempt : ClaimKey, receipts : Receipts, cost : Costs]

NoticesOK ==
    /\ DOMAIN notices \subseteq Notice
    /\ \A n \in DOMAIN notices : notices[n] \in [root : Artifact, active : BOOLEAN]

LEMMA TypeParts ==
    TypeOK <=> /\ ArtifactsOK /\ JobsOK /\ AttemptsOK /\ ObservationsOK /\ NoticesOK
               /\ limits \in LimitRecord /\ events \subseteq EventKey /\ damaged \subseteq Artifact
  BY DEF TypeOK, ArtifactsOK, JobsOK, AttemptsOK, ObservationsOK, NoticesOK

\* Whatever is committed under a well-formed key keeps the history well formed.
LEMMA CommitType ==
    ASSUME events \subseteq EventKey, NEW key \in EventKey, NEW cap, RecordEvent(key, cap)
    PROVE  events' \subseteq EventKey
  BY DEF RecordEvent

\* Changing one job to another well-formed record keeps the table of jobs typed.
LEMMA JobUpdateType ==
    ASSUME JobsOK, NEW j, NEW record \in JobRecord, jobs' = [jobs EXCEPT ![j] = record]
    PROVE  JobsOK'
  BY DEF JobsOK

\* The tables keep their types under every operation (State.apply, Registry).
THEOREM TypeCorrect == Spec => []TypeOK
<1>1. Init => TypeOK
  BY BoundAssumption DEF Init, TypeOK
<1>2. TypeOK /\ [Next]_vars => TypeOK'
  <2> SUFFICES ASSUME TypeOK, [Next]_vars PROVE TypeOK'
    OBVIOUS
  <2> USE TypeParts
  <2>0. TypeOK' <=> /\ ArtifactsOK' /\ JobsOK' /\ AttemptsOK' /\ ObservationsOK' /\ NoticesOK'
                    /\ limits' \in LimitRecord /\ events' \subseteq EventKey /\ damaged' \subseteq Artifact
    BY DEF TypeOK, ArtifactsOK, JobsOK, AttemptsOK, ObservationsOK, NoticesOK
  <2>1. ASSUME NEW decl \in Explicit, Register(decl[1], decl[2]) PROVE TypeOK'
    <3>1. decl[1] \in Artifact /\ decl[2] \subseteq Artifact
      BY ReferenceAssumption
    <3>2. ArtifactsOK'
      BY <2>1, <3>1, InstallType DEF Register
    <3>3. events' \subseteq EventKey
      BY <2>1, <3>1, CommitType DEF Register, Commit
    <3>4. QED
      BY <2>0, <2>1, <3>2, <3>3 DEF Register, JobsOK, AttemptsOK, ObservationsOK, NoticesOK
  <2>2. ASSUME NEW j \in Job, Enqueue(j) PROVE TypeOK'
    <3>1. ArtifactsOK' /\ events' \subseteq EventKey
      BY <2>2, InstallAllType, CommitType DEF Enqueue, Commit
    <3>2. JobsOK'
      BY <2>2 DEF Enqueue, JobsOK, NoResult
    <3>3. QED
      BY <2>0, <2>2, <3>1, <3>2 DEF Enqueue, AttemptsOK, ObservationsOK, NoticesOK
  <2>3. ASSUME NEW j \in Job, NEW k \in ClaimKey, Claim(j, k) PROVE TypeOK'
    <3>1. events' \subseteq EventKey
      BY <2>3, CommitType DEF Claim, Commit
    <3>2. AttemptsOK'
      BY <2>3 DEF Claim, AttemptsOK
    <3> DEFINE claimed == [jobs[j] EXCEPT !.state = "running", !.attempts = Append(@, k)]
    <3>3. claimed \in JobRecord
      <4>1. j \in DOMAIN jobs /\ jobs[j] \in JobRecord
        BY <2>3 DEF Claim, JobsOK
      <4>2. Append(jobs[j].attempts, k) \in Seq(ClaimKey)
        BY <4>1
      <4>3. QED
        BY <4>1, <4>2
    <3>4. JobsOK'
      <4>1. jobs' = [jobs EXCEPT ![j] = claimed]
        BY <2>3 DEF Claim
      <4> HIDE DEF claimed
      <4>2. QED
        BY <3>3, <4>1, JobUpdateType
    <3>5. QED
      BY <2>0, <2>3, <3>1, <3>2, <3>4 DEF Claim, ArtifactsOK, ObservationsOK, NoticesOK
  <2>4. ASSUME NEW k \in ClaimKey, NEW e \in Evidence, Abandon(k, e) PROVE TypeOK'
    <3>1. ArtifactsOK' /\ events' \subseteq EventKey
      BY <2>4, InstallAllType, CommitType DEF Abandon, Commit
    <3>2. AttemptsOK'
      BY <2>4 DEF Abandon, OwnsRunningJob, AttemptsOK
    <3>3. JobsOK'
      <4> DEFINE j == attempts[k].job
                 record == [jobs[j] EXCEPT !.state = StateAfterAbandon(j)]
      <4>1. StateAfterAbandon(j) \in {"exhausted", "paused"}
        BY DEF StateAfterAbandon
      <4>2. CASE j \in DOMAIN jobs
        <5>1. jobs[j] \in JobRecord
          BY <4>2 DEF JobsOK
        <5>2. record \in JobRecord
          BY <4>1, <5>1
        <5>3. jobs' = [jobs EXCEPT ![j] = record]
          BY <2>4 DEF Abandon
        <5> HIDE DEF record
        <5>4. QED
          BY <5>2, <5>3, JobUpdateType
      <4>3. CASE j \notin DOMAIN jobs
        BY <2>4, <4>3 DEF Abandon, JobsOK
      <4>4. QED
        BY <4>2, <4>3
    <3>4. QED
      BY <2>0, <2>4, <3>1, <3>2, <3>3 DEF Abandon, ObservationsOK, NoticesOK
  <2>5. ASSUME NEW j \in Job, NEW e \in Evidence, Retry(j, e) PROVE TypeOK'
    <3>1. Len(jobs[j].attempts) \in Nat
      BY <2>5 DEF Retry, JobsOK
    <3>2. ArtifactsOK' /\ events' \subseteq EventKey
      BY <2>5, <3>1, InstallAllType, CommitType DEF Retry, Commit
    <3>3. JobsOK'
      BY ZenonT(30), <2>5 DEF Retry, JobsOK
    <3>4. QED
      BY <2>0, <2>5, <3>2, <3>3 DEF Retry, AttemptsOK, ObservationsOK, NoticesOK
  <2>6. ASSUME NEW k \in ClaimKey, NEW u \in Upstream, NEW r \in 1..MaxRevision,
               NEW R \in Receipts, NEW c \in Costs, Reconcile(k, u, r, R, c)
        PROVE  TypeOK'
    <3>1. ArtifactsOK' /\ events' \subseteq EventKey
      BY <2>6, InstallAllType, CommitType DEF Reconcile, Commit
    <3>2. ObservationsOK'
      BY <2>6 DEF Reconcile, ObservationsOK
    <3>3. QED
      BY <2>0, <2>6, <3>1, <3>2 DEF Reconcile, JobsOK, AttemptsOK, NoticesOK
  <2>7. ASSUME NEW k \in ClaimKey, NEW res \in Outcome, NEW O \in SUBSET DOMAIN observations,
               Complete(k, res, O)
        PROVE  TypeOK'
    <3>1. attempts[k].job \in Job
      BY <2>7 DEF Complete, OwnsRunningJob, AttemptsOK
    <3>2. ArtifactsOK' /\ events' \subseteq EventKey
      BY <2>7, <3>1, InstallAllType, CommitType DEF Complete, Commit
    <3>3. JobsOK' /\ AttemptsOK'
      <4>1. res \in [artifacts : SUBSET Artifact, evidence : SUBSET Artifact]
        BY ReferenceAssumption
      <4>2. O \in SUBSET (Upstream \X (1..MaxRevision))
        BY DEF ObservationsOK
      <4>3. AttemptsOK'
        BY <2>7 DEF Complete, OwnsRunningJob, AttemptsOK
      <4>4. JobsOK'
        <5> DEFINE j == attempts[k].job
                   record == [jobs[j] EXCEPT !.state = "completed", !.result = res, !.bound = O]
        <5>1. jobs' = [jobs EXCEPT ![j] = record]
          BY <2>7 DEF Complete
        <5>2. CASE j \in DOMAIN jobs
          <6>1. record \in JobRecord
            BY <4>1, <4>2, <5>2 DEF JobsOK
          <6> HIDE DEF record
          <6>2. QED
            BY <5>1, <6>1, JobUpdateType
        <5>3. CASE j \notin DOMAIN jobs
          BY <5>1, <5>3 DEF JobsOK
        <5>4. QED
          BY <5>2, <5>3
      <4>5. QED
        BY <4>3, <4>4
    <3>4. QED
      BY <2>0, <2>7, <3>2, <3>3 DEF Complete, ObservationsOK, NoticesOK
  <2>8. ASSUME NEW n \in Notice, NEW root \in Artifact, NEW e \in Evidence, Quarantine(n, root, e)
        PROVE  TypeOK'
    <3>1. ArtifactsOK' /\ events' \subseteq EventKey
      BY <2>8, InstallAllType, CommitType DEF Quarantine, Commit
    <3>2. NoticesOK'
      BY <2>8 DEF Quarantine, NoticesOK
    <3>3. QED
      BY <2>0, <2>8, <3>1, <3>2 DEF Quarantine, JobsOK, AttemptsOK, ObservationsOK
  <2>9. ASSUME NEW n \in Notice, NEW e \in Evidence, LiftQuarantine(n, e) PROVE TypeOK'
    <3>1. ArtifactsOK' /\ events' \subseteq EventKey
      BY <2>9, InstallAllType, CommitType DEF LiftQuarantine, Commit
    <3>2. NoticesOK'
      BY <2>9 DEF LiftQuarantine, ActiveNotices, NoticesOK
    <3>3. QED
      BY <2>0, <2>9, <3>1, <3>2 DEF LiftQuarantine, JobsOK, AttemptsOK, ObservationsOK
  <2>10. ASSUME NEW l \in LimitChoices, ExpandLimits(l) PROVE TypeOK'
    <3>1. events' \subseteq EventKey /\ limits' \in LimitRecord
      BY <2>10, CommitType, BoundAssumption DEF ExpandLimits
    <3>2. QED
      BY <2>0, <2>10, <3>1 DEF ExpandLimits, ArtifactsOK, JobsOK, AttemptsOK, ObservationsOK, NoticesOK
  <2>11. ASSUME NEW a \in Artifact, Damage(a) PROVE TypeOK'
    BY <2>0, <2>11 DEF Damage, ArtifactsOK, JobsOK, AttemptsOK, ObservationsOK, NoticesOK
  <2>12. CASE UNCHANGED vars
    BY <2>0, <2>12 DEF vars, ArtifactsOK, JobsOK, AttemptsOK, ObservationsOK, NoticesOK
  <2>13. QED
    BY <2>1, <2>2, <2>3, <2>4, <2>5, <2>6, <2>7, <2>8, <2>9, <2>10, <2>11, <2>12 DEF Next
<1>3. QED
  BY <1>1, <1>2, PTL DEF Spec

-----------------------------------------------------------------------------
(* Ownership: a claim and its job agree.                                   *)

\* The first half of OneOwner, read from the attempts.
OwnsItsJob(k) ==
    LET j == attempts[k].job IN
    /\ j \in DOMAIN jobs
    /\ \E i \in DOMAIN jobs[j].attempts : jobs[j].attempts[i] = k
    /\ attempts[k].state = "running" => jobs[j].state = "running" /\ LastAttempt(j) = k

\* The second half, read from the jobs: attempt i of job j.
AttemptOfJob(j, i) ==
    LET k == jobs[j].attempts[i] IN
    /\ k \in DOMAIN attempts
    /\ attempts[k].job = j
    /\ i < Len(jobs[j].attempts) => attempts[k].state = "abandoned"
    /\ i = Len(jobs[j].attempts) =>
          /\ jobs[j].state = "running" => attempts[k].state = "running"
          /\ jobs[j].state = "completed" => attempts[k].state = "completed"
          /\ jobs[j].state \in {"queued", "paused", "exhausted"} => attempts[k].state = "abandoned"

Owners ==
    /\ \A k \in DOMAIN attempts : OwnsItsJob(k)
    /\ \A j \in DOMAIN jobs : \A i \in DOMAIN jobs[j].attempts : AttemptOfJob(j, i)

LEMMA OneOwnerParts ==
    ASSUME JobsOK
    PROVE  OneOwner <=> Owners
<1>1. \A j \in DOMAIN jobs : jobs[j].state \in {"queued", "running", "paused", "exhausted", "completed"}
  BY DEF JobsOK
<1>2. ASSUME NEW j \in DOMAIN jobs, NEW i \in DOMAIN jobs[j].attempts
      PROVE  AttemptOfJob(j, i) <=>
               LET k == jobs[j].attempts[i] IN
               /\ k \in DOMAIN attempts
               /\ attempts[k].job = j
               /\ i < Len(jobs[j].attempts) => attempts[k].state = "abandoned"
               /\ i = Len(jobs[j].attempts) =>
                     CASE jobs[j].state = "running"   -> attempts[k].state = "running"
                       [] jobs[j].state = "completed" -> attempts[k].state = "completed"
                       [] OTHER                       -> attempts[k].state = "abandoned"
  BY <1>1 DEF AttemptOfJob
<1>3. QED
  BY <1>2 DEF OneOwner, Owners, OwnsItsJob

\* The inductive form of OneOwner.
LEMMA OwnersInvariant == Spec => []Owners
<1>1. Init => Owners
  BY DEF Init, Owners
<1>2. TypeOK /\ TypeOK' /\ Owners /\ [Next]_vars => Owners'
  <2> SUFFICES ASSUME TypeOK, TypeOK', Owners, [Next]_vars PROVE Owners'
    OBVIOUS
  <2>0. JobsOK /\ AttemptsOK /\ JobsOK' /\ AttemptsOK'
    BY DEF TypeOK, JobsOK, AttemptsOK
  <2>a. /\ \A k \in DOMAIN attempts : OwnsItsJob(k)
        /\ \A j \in DOMAIN jobs : \A i \in DOMAIN jobs[j].attempts : AttemptOfJob(j, i)
    BY DEF Owners
  <2>b. SUFFICES /\ \A k \in DOMAIN attempts' : OwnsItsJob(k)'
                 /\ \A j \in DOMAIN jobs' : \A i \in DOMAIN jobs'[j].attempts : AttemptOfJob(j, i)'
    BY DEF Owners
  <2>c. \A j \in DOMAIN jobs : /\ jobs[j].attempts \in Seq(ClaimKey)
                               /\ Len(jobs[j].attempts) \in Nat
                               /\ DOMAIN jobs[j].attempts = 1..Len(jobs[j].attempts)
    BY <2>0 DEF JobsOK
  <2>1. ASSUME NEW j \in Job, Enqueue(j)
        PROVE  /\ \A k \in DOMAIN attempts' : OwnsItsJob(k)'
               /\ \A i \in DOMAIN jobs' : \A n \in DOMAIN jobs'[i].attempts : AttemptOfJob(i, n)'
    BY SMTT(20), <2>1, <2>a, <2>c DEF Enqueue, OwnsItsJob, AttemptOfJob, LastAttempt
  <2>2. ASSUME NEW j \in Job, NEW k \in ClaimKey, Claim(j, k)
        PROVE  /\ \A kk \in DOMAIN attempts' : OwnsItsJob(kk)'
               /\ \A jj \in DOMAIN jobs' : \A i \in DOMAIN jobs'[jj].attempts : AttemptOfJob(jj, i)'
    <3>1. /\ DOMAIN jobs' = DOMAIN jobs /\ j \in DOMAIN jobs
          /\ jobs[j].state = "queued"
          /\ jobs'[j].state = "running"
          /\ jobs'[j].attempts = Append(jobs[j].attempts, k)
          /\ \A jj \in DOMAIN jobs : jj # j => jobs'[jj] = jobs[jj]
      BY <2>2, <2>0 DEF Claim, JobsOK
    <3>2. /\ k \notin DOMAIN attempts
          /\ DOMAIN attempts' = DOMAIN attempts \cup {k}
          /\ attempts'[k].job = j /\ attempts'[k].state = "running"
          /\ \A kk \in DOMAIN attempts : attempts'[kk] = attempts[kk]
      BY <2>2 DEF Claim
    <3>3. /\ Len(jobs'[j].attempts) = Len(jobs[j].attempts) + 1
          /\ DOMAIN jobs'[j].attempts = 1..(Len(jobs[j].attempts) + 1)
          /\ jobs'[j].attempts[Len(jobs[j].attempts) + 1] = k
          /\ \A i \in 1..Len(jobs[j].attempts) : jobs'[j].attempts[i] = jobs[j].attempts[i]
      BY <3>1, <2>c
    <3>4. ASSUME NEW kk \in DOMAIN attempts' PROVE OwnsItsJob(kk)'
      <4>1. CASE kk = k
        BY <4>1, <3>1, <3>2, <3>3, <2>c DEF OwnsItsJob, LastAttempt
      <4>2. CASE kk # k /\ attempts[kk].job = j
        BY <4>2, <3>1, <3>2, <3>3, <2>a, <2>c DEF OwnsItsJob, LastAttempt
      <4>3. CASE kk # k /\ attempts[kk].job # j
        BY <4>3, <3>1, <3>2, <2>a DEF OwnsItsJob, LastAttempt
      <4>4. QED
        BY <4>1, <4>2, <4>3
    <3>5. ASSUME NEW jj \in DOMAIN jobs', NEW i \in DOMAIN jobs'[jj].attempts
          PROVE  AttemptOfJob(jj, i)'
      <4>1. CASE jj # j
        BY <4>1, <3>1, <3>2, <2>a DEF AttemptOfJob
      <4>2. CASE jj = j /\ i = Len(jobs[j].attempts) + 1
        BY <4>2, <3>1, <3>2, <3>3, <2>c DEF AttemptOfJob
      <4>3. CASE jj = j /\ i \in 1..Len(jobs[j].attempts)
        <5>1. AttemptOfJob(j, i)
          BY <4>3, <3>1, <2>a, <2>c
        <5>2. attempts[jobs[j].attempts[i]].state = "abandoned"
          BY <5>1, <4>3, <3>1, <2>c DEF AttemptOfJob
        <5>3. QED
          BY <5>1, <5>2, <4>3, <3>1, <3>2, <3>3, <2>c DEF AttemptOfJob
      <4>4. QED
        BY <4>1, <4>2, <4>3, <3>3, <2>c, <3>1
    <3>6. QED
      BY <3>4, <3>5
  <2>3. ASSUME NEW k \in ClaimKey, NEW st \in {"abandoned", "completed"},
               OwnsRunningJob(k),
               attempts' = [attempts EXCEPT ![k].state = st],
               NEW s \in {"paused", "exhausted", "completed"},
               s = "completed" <=> st = "completed",
               DOMAIN jobs' = DOMAIN jobs,
               jobs'[attempts[k].job].state = s,
               jobs'[attempts[k].job].attempts = jobs[attempts[k].job].attempts,
               \A jj \in DOMAIN jobs : jj # attempts[k].job => jobs'[jj] = jobs[jj]
        PROVE  /\ \A kk \in DOMAIN attempts' : OwnsItsJob(kk)'
               /\ \A jj \in DOMAIN jobs' : \A i \in DOMAIN jobs'[jj].attempts : AttemptOfJob(jj, i)'
    <3> DEFINE j == attempts[k].job
    <3>1. /\ k \in DOMAIN attempts /\ attempts[k].state = "running"
          /\ j \in DOMAIN jobs /\ jobs[j].state = "running" /\ LastAttempt(j) = k
      BY <2>3, <2>a DEF OwnsRunningJob, OwnsItsJob
    <3>2. /\ DOMAIN attempts' = DOMAIN attempts
          /\ attempts'[k].job = j /\ attempts'[k].state = st
          /\ \A kk \in DOMAIN attempts : kk # k => attempts'[kk] = attempts[kk]
      BY <2>3, <3>1, <2>0 DEF AttemptsOK
    <3>3. ASSUME NEW kk \in DOMAIN attempts' PROVE OwnsItsJob(kk)'
      <4>1. CASE kk = k
        BY <4>1, <2>3, <3>1, <3>2, <2>a DEF OwnsItsJob, LastAttempt
      <4>2. CASE kk # k /\ attempts[kk].job = j
        BY <4>2, <2>3, <3>1, <3>2, <2>a DEF OwnsItsJob, LastAttempt
      <4>3. CASE kk # k /\ attempts[kk].job # j
        BY <4>3, <2>3, <3>2, <2>a DEF OwnsItsJob, LastAttempt
      <4>4. QED
        BY <4>1, <4>2, <4>3
    <3>4. ASSUME NEW jj \in DOMAIN jobs', NEW i \in DOMAIN jobs'[jj].attempts
          PROVE  AttemptOfJob(jj, i)'
      <4>1. CASE jj # j
        <5>1. jobs'[jj] = jobs[jj] /\ AttemptOfJob(jj, i)
          BY <4>1, <2>3, <2>a
        <5>2. jobs[jj].attempts[i] # k
          BY <4>1, <5>1 DEF AttemptOfJob
        <5>3. QED
          BY <5>1, <5>2, <3>2 DEF AttemptOfJob
      <4>2. CASE jj = j /\ i < Len(jobs[j].attempts)
        <5>1. AttemptOfJob(j, i)
          BY <4>2, <2>3, <2>a
        <5>2. jobs[j].attempts[i] # k
          BY <4>2, <5>1, <3>1 DEF AttemptOfJob
        <5>3. QED
          BY <4>2, <5>1, <5>2, <3>2, <2>3, <2>c, <3>1 DEF AttemptOfJob
      <4>3. CASE jj = j /\ i = Len(jobs[j].attempts)
        BY <4>3, <2>3, <3>1, <3>2 DEF AttemptOfJob, LastAttempt
      <4>4. QED
        BY <4>1, <4>2, <4>3, <2>c, <2>3, <3>1
    <3>5. QED
      BY <3>3, <3>4
  <2>4. ASSUME NEW k \in ClaimKey, NEW e \in Evidence, Abandon(k, e)
        PROVE  /\ \A kk \in DOMAIN attempts' : OwnsItsJob(kk)'
               /\ \A jj \in DOMAIN jobs' : \A i \in DOMAIN jobs'[jj].attempts : AttemptOfJob(jj, i)'
    <3> DEFINE j == attempts[k].job
    <3>1. j \in DOMAIN jobs /\ OwnsRunningJob(k)
      BY <2>4, <2>a DEF Abandon, OwnsRunningJob, OwnsItsJob
    <3>2. StateAfterAbandon(j) \in {"paused", "exhausted"}
      BY DEF StateAfterAbandon
    <3>3. /\ DOMAIN jobs' = DOMAIN jobs
          /\ jobs'[j].state = StateAfterAbandon(j)
          /\ jobs'[j].attempts = jobs[j].attempts
          /\ \A jj \in DOMAIN jobs : jj # j => jobs'[jj] = jobs[jj]
      BY <2>4, <3>1, <2>0 DEF Abandon, JobsOK
    <3>4. QED
      BY <2>3, <2>4, <3>1, <3>2, <3>3 DEF Abandon
  <2>5. ASSUME NEW j \in Job, NEW e \in Evidence, Retry(j, e)
        PROVE  /\ \A kk \in DOMAIN attempts' : OwnsItsJob(kk)'
               /\ \A jj \in DOMAIN jobs' : \A i \in DOMAIN jobs'[jj].attempts : AttemptOfJob(jj, i)'
    <3>1. /\ DOMAIN jobs' = DOMAIN jobs /\ j \in DOMAIN jobs /\ attempts' = attempts
          /\ jobs[j].state = "paused" /\ jobs'[j].state = "queued"
          /\ jobs'[j].attempts = jobs[j].attempts
          /\ \A jj \in DOMAIN jobs : jj # j => jobs'[jj] = jobs[jj]
      BY <2>5, <2>0 DEF Retry, JobsOK
    <3>2. ASSUME NEW kk \in DOMAIN attempts' PROVE OwnsItsJob(kk)'
      BY <3>1, <2>a DEF OwnsItsJob, LastAttempt
    <3>3. ASSUME NEW jj \in DOMAIN jobs', NEW i \in DOMAIN jobs'[jj].attempts
          PROVE  AttemptOfJob(jj, i)'
      <4>1. CASE jj # j
        BY <4>1, <3>1, <2>a DEF AttemptOfJob
      <4>2. CASE jj = j
        BY <4>2, <3>1, <2>a DEF AttemptOfJob
      <4>3. QED
        BY <4>1, <4>2
    <3>4. QED
      BY <3>2, <3>3
  <2>6. ASSUME NEW k \in ClaimKey, NEW res \in Outcome, NEW O \in SUBSET DOMAIN observations,
               Complete(k, res, O)
        PROVE  /\ \A kk \in DOMAIN attempts' : OwnsItsJob(kk)'
               /\ \A jj \in DOMAIN jobs' : \A i \in DOMAIN jobs'[jj].attempts : AttemptOfJob(jj, i)'
    <3> DEFINE j == attempts[k].job
    <3>1. j \in DOMAIN jobs /\ OwnsRunningJob(k)
      BY <2>6, <2>a DEF Complete, OwnsRunningJob, OwnsItsJob
    <3>2. /\ DOMAIN jobs' = DOMAIN jobs
          /\ jobs'[j].state = "completed"
          /\ jobs'[j].attempts = jobs[j].attempts
          /\ \A jj \in DOMAIN jobs : jj # j => jobs'[jj] = jobs[jj]
      BY <2>6, <3>1, <2>0 DEF Complete, JobsOK
    <3>3. QED
      BY <2>3, <2>6, <3>1, <3>2 DEF Complete
  <2>7. CASE UNCHANGED <<jobs, attempts>>
    BY <2>7, <2>a DEF OwnsItsJob, AttemptOfJob, LastAttempt
  <2>8. QED
    <3>1. CASE UNCHANGED vars
      BY <3>1, <2>7 DEF vars
    <3>2. CASE \E decl \in Explicit : Register(decl[1], decl[2])
      BY <3>2, <2>7 DEF Register
    <3>3. CASE \E k \in ClaimKey, u \in Upstream, r \in 1..MaxRevision, R \in Receipts, c \in Costs :
                  Reconcile(k, u, r, R, c)
      BY <3>3, <2>7 DEF Reconcile
    <3>4. CASE \/ \E n \in Notice, root \in Artifact, e \in Evidence : Quarantine(n, root, e)
               \/ \E n \in Notice, e \in Evidence : LiftQuarantine(n, e)
               \/ \E l \in LimitChoices : ExpandLimits(l)
               \/ \E a \in Artifact : Damage(a)
      BY <3>4, <2>7 DEF Quarantine, LiftQuarantine, ExpandLimits, Damage
    <3>5. QED
      BY <3>1, <3>2, <3>3, <3>4, <2>1, <2>2, <2>4, <2>5, <2>6 DEF Next
<1>3. QED
  BY <1>1, <1>2, TypeCorrect, PTL DEF Spec

\* An attempt runs exactly while it is the last one of a running job, earlier
\* attempts were abandoned and no attempt serves two jobs, for any number of
\* controllers (State.authenticate and the claim, abandon, complete branches).
THEOREM Ownership == Spec => []OneOwner
<1>1. TypeOK /\ Owners => OneOwner
  BY OneOwnerParts DEF TypeOK, JobsOK
<1>2. QED
  BY <1>1, OwnersInvariant, TypeCorrect, PTL

-----------------------------------------------------------------------------
(* What one step does to one job.                                          *)

JobMove(j) ==
    \/ jobs'[j] = jobs[j]
    \/ /\ jobs[j].state = "queued" /\ jobs'[j].state = "running"
       /\ Len(jobs[j].attempts) < AttemptLimit[j]
       /\ \E k \in ClaimKey : jobs'[j].attempts = Append(jobs[j].attempts, k)
    \/ /\ jobs[j].state = "running" /\ jobs'[j].state = StateAfterAbandon(j)
       /\ jobs'[j].attempts = jobs[j].attempts
       /\ <<"abandon", LastAttempt(j)>> \in events'
    \/ /\ jobs[j].state = "paused" /\ jobs'[j].state = "queued"
       /\ Len(jobs[j].attempts) < AttemptLimit[j]
       /\ jobs'[j].attempts = jobs[j].attempts
       /\ <<"retry", j, Len(jobs[j].attempts)>> \in events'
    \/ /\ jobs[j].state = "running" /\ jobs'[j].state = "completed"
       /\ jobs'[j].attempts = jobs[j].attempts

NewJob(j) == jobs'[j].state = "queued" /\ jobs'[j].attempts = <<>>

JobSteps ==
    /\ DOMAIN jobs \subseteq DOMAIN jobs'
    /\ events \subseteq events'
    /\ \A j \in DOMAIN jobs : JobMove(j)
    /\ \A j \in DOMAIN jobs' \ DOMAIN jobs : NewJob(j)

\* Every step moves every job along the table of State.apply, or leaves it alone.
LEMMA JobStep == TypeOK /\ Owners /\ [Next]_vars => JobSteps
<1> SUFFICES ASSUME TypeOK, Owners, [Next]_vars PROVE JobSteps
  OBVIOUS
<1>0. JobsOK /\ AttemptsOK
  BY DEF TypeOK, JobsOK, AttemptsOK
<1>1. ASSUME NEW j \in Job, Enqueue(j) PROVE JobSteps
  <2>1. events \subseteq events'
    BY <1>1 DEF Enqueue, Commit, RecordEvent
  <2>2. QED
    BY <1>1, <2>1 DEF Enqueue, JobSteps, JobMove, NewJob
<1>2. ASSUME NEW j \in Job, NEW k \in ClaimKey, Claim(j, k) PROVE JobSteps
  <2>1. /\ DOMAIN jobs' = DOMAIN jobs /\ j \in DOMAIN jobs
        /\ jobs[j].state = "queued" /\ jobs'[j].state = "running"
        /\ jobs'[j].attempts = Append(jobs[j].attempts, k)
        /\ \A i \in DOMAIN jobs : i # j => jobs'[i] = jobs[i]
    BY <1>2, <1>0 DEF Claim, JobsOK
  <2>2. events \subseteq events' /\ Len(jobs[j].attempts) < AttemptLimit[j]
    BY <1>2 DEF Claim, Commit, RecordEvent
  <2>3. JobMove(j)
    BY <2>1, <2>2 DEF JobMove
  <2>4. \A i \in DOMAIN jobs : i # j => JobMove(i)
    BY <2>1 DEF JobMove
  <2>5. QED
    BY <2>1, <2>2, <2>3, <2>4 DEF JobSteps
<1>3. ASSUME NEW k \in ClaimKey, NEW e \in Evidence, Abandon(k, e) PROVE JobSteps
  <2> DEFINE j == attempts[k].job
  <2>1. j \in DOMAIN jobs /\ jobs[j].state = "running" /\ LastAttempt(j) = k
    BY <1>3 DEF Abandon, OwnsRunningJob, Owners, OwnsItsJob
  <2>2. /\ DOMAIN jobs' = DOMAIN jobs
        /\ jobs'[j].state = StateAfterAbandon(j)
        /\ jobs'[j].attempts = jobs[j].attempts
        /\ \A i \in DOMAIN jobs : i # j => jobs'[i] = jobs[i]
    BY <1>3, <1>0, <2>1 DEF Abandon, JobsOK
  <2>3. events \subseteq events' /\ <<"abandon", k>> \in events'
    BY <1>3 DEF Abandon, Commit, RecordEvent
  <2>4. JobMove(j)
    BY <2>1, <2>2, <2>3 DEF JobMove
  <2>5. \A i \in DOMAIN jobs : i # j => JobMove(i)
    BY <2>2 DEF JobMove
  <2>6. QED
    BY <2>1, <2>2, <2>3, <2>4, <2>5 DEF JobSteps
<1>4. ASSUME NEW j \in Job, NEW e \in Evidence, Retry(j, e) PROVE JobSteps
  <2>1. /\ DOMAIN jobs' = DOMAIN jobs /\ j \in DOMAIN jobs
        /\ jobs[j].state = "paused" /\ jobs'[j].state = "queued"
        /\ jobs'[j].attempts = jobs[j].attempts
        /\ \A i \in DOMAIN jobs : i # j => jobs'[i] = jobs[i]
    BY <1>4, <1>0 DEF Retry, JobsOK
  <2>2. /\ events \subseteq events' /\ Len(jobs[j].attempts) < AttemptLimit[j]
        /\ <<"retry", j, Len(jobs[j].attempts)>> \in events'
    BY <1>4 DEF Retry, Commit, RecordEvent
  <2>3. JobMove(j)
    BY <2>1, <2>2 DEF JobMove
  <2>4. \A i \in DOMAIN jobs : i # j => JobMove(i)
    BY <2>1 DEF JobMove
  <2>5. QED
    BY <2>1, <2>2, <2>3, <2>4 DEF JobSteps
<1>5. ASSUME NEW k \in ClaimKey, NEW res \in Outcome, NEW O \in SUBSET DOMAIN observations,
             Complete(k, res, O)
      PROVE  JobSteps
  <2> DEFINE j == attempts[k].job
  <2>1. j \in DOMAIN jobs /\ jobs[j].state = "running"
    BY <1>5 DEF Complete, OwnsRunningJob, Owners, OwnsItsJob
  <2>2. /\ DOMAIN jobs' = DOMAIN jobs
        /\ jobs'[j].state = "completed"
        /\ jobs'[j].attempts = jobs[j].attempts
        /\ \A i \in DOMAIN jobs : i # j => jobs'[i] = jobs[i]
    BY <1>5, <1>0, <2>1 DEF Complete, JobsOK
  <2>3. events \subseteq events'
    BY <1>5 DEF Complete, Commit, RecordEvent
  <2>4. JobMove(j)
    BY <2>1, <2>2 DEF JobMove
  <2>5. \A i \in DOMAIN jobs : i # j => JobMove(i)
    BY <2>2 DEF JobMove
  <2>6. QED
    BY <2>2, <2>3, <2>4, <2>5 DEF JobSteps
<1>6. ASSUME UNCHANGED jobs, events \subseteq events' PROVE JobSteps
  BY <1>6 DEF JobSteps, JobMove
<1>7. QED
  <2>1. CASE UNCHANGED vars
    BY <2>1, <1>6 DEF vars
  <2>2. CASE \E decl \in Explicit : Register(decl[1], decl[2])
    BY <2>2, <1>6 DEF Register, Commit, RecordEvent
  <2>3. CASE \E k \in ClaimKey, u \in Upstream, r \in 1..MaxRevision, R \in Receipts, c \in Costs :
                Reconcile(k, u, r, R, c)
    BY <2>3, <1>6 DEF Reconcile, Commit, RecordEvent
  <2>4. CASE \/ \E n \in Notice, root \in Artifact, e \in Evidence : Quarantine(n, root, e)
             \/ \E n \in Notice, e \in Evidence : LiftQuarantine(n, e)
             \/ \E l \in LimitChoices : ExpandLimits(l)
             \/ \E a \in Artifact : Damage(a)
    BY <2>4, <1>6 DEF Quarantine, LiftQuarantine, ExpandLimits, Damage, Commit, RecordEvent
  <2>5. QED
    BY <2>1, <2>2, <2>3, <2>4, <1>1, <1>2, <1>3, <1>4, <1>5 DEF Next

-----------------------------------------------------------------------------
(* Attempt limits, terminal jobs, diagnosed retries.                       *)

Bounded(j) ==
    /\ Len(jobs[j].attempts) <= AttemptLimit[j]
    /\ jobs[j].state \in {"queued", "paused"} => Len(jobs[j].attempts) < AttemptLimit[j]
    /\ jobs[j].state = "exhausted" => Len(jobs[j].attempts) = AttemptLimit[j]

\* A job that may still be claimed or retried has an attempt left, and is exhausted
\* only when none is (State.apply claim, abandon and retry).
THEOREM AttemptsBounded == Spec => []NeverStranded
<1> DEFINE Inv == \A j \in DOMAIN jobs : Bounded(j)
<1>1. Init => Inv
  BY DEF Init
<1>2. TypeOK /\ TypeOK' /\ JobSteps /\ Inv => Inv'
  <2> SUFFICES ASSUME TypeOK, TypeOK', JobSteps, Inv, NEW j \in DOMAIN jobs' PROVE Bounded(j)'
    OBVIOUS
  <2>0. /\ j \in Job /\ AttemptLimit[j] \in Nat \ {0}
        /\ jobs'[j].attempts \in Seq(ClaimKey) /\ Len(jobs'[j].attempts) \in Nat
    BY JobAssumption DEF TypeOK
  <2>1. CASE j \notin DOMAIN jobs
    BY <2>0, <2>1 DEF JobSteps, NewJob, Bounded
  <2>2. CASE j \in DOMAIN jobs
    <3>1. /\ Bounded(j) /\ JobMove(j)
          /\ jobs[j].attempts \in Seq(ClaimKey) /\ Len(jobs[j].attempts) \in Nat
          /\ jobs[j].state \in {"queued", "running", "paused", "exhausted", "completed"}
      BY <2>2 DEF JobSteps, TypeOK
    <3>2. CASE jobs'[j] = jobs[j]
      BY <3>1, <3>2 DEF Bounded
    <3>3. CASE /\ jobs'[j].state = "running"
               /\ Len(jobs[j].attempts) < AttemptLimit[j]
               /\ \E k \in ClaimKey : jobs'[j].attempts = Append(jobs[j].attempts, k)
      BY <2>0, <3>1, <3>3 DEF Bounded
    <3>4. CASE jobs'[j].state = StateAfterAbandon(j) /\ jobs'[j].attempts = jobs[j].attempts
      BY <2>0, <3>1, <3>4 DEF Bounded, StateAfterAbandon
    <3>5. CASE /\ jobs'[j].state = "queued" /\ Len(jobs[j].attempts) < AttemptLimit[j]
               /\ jobs'[j].attempts = jobs[j].attempts
      BY <2>0, <3>1, <3>5 DEF Bounded
    <3>6. CASE jobs'[j].state = "completed" /\ jobs'[j].attempts = jobs[j].attempts
      BY <2>0, <3>1, <3>6 DEF Bounded
    <3>7. QED
      BY <3>1, <3>2, <3>3, <3>4, <3>5, <3>6 DEF JobMove
  <2>3. QED
    BY <2>1, <2>2
<1>3. Inv => NeverStranded
  BY DEF NeverStranded, Bounded
<1> HIDE DEF Inv
<1>4. QED
  BY <1>1, <1>2, <1>3, JobStep, TypeCorrect, OwnersInvariant, PTL DEF Spec

\* Nothing a controller does, with whatever claim it still holds, changes a
\* completed or exhausted job (State.authenticate, State.apply).
THEOREM TerminalStable == Spec => TerminalJobs
<1>1. TypeOK /\ Owners /\ [Next]_vars /\ JobSteps =>
        [\A j \in DOMAIN jobs : jobs[j].state \in {"completed", "exhausted"} =>
            j \in DOMAIN jobs' /\ jobs'[j] = jobs[j]]_vars
  BY DEF JobSteps, JobMove
<1>2. QED
  BY <1>1, JobStep, TypeCorrect, OwnersInvariant, PTL DEF Spec, TerminalJobs

AbandonRecorded ==
    \A j \in DOMAIN jobs : \A i \in DOMAIN jobs[j].attempts :
        \/ <<"abandon", jobs[j].attempts[i]>> \in events
        \/ i = Len(jobs[j].attempts) /\ jobs[j].state \in {"running", "completed"}

RetryRecorded ==
    \A j \in DOMAIN jobs : \A i \in DOMAIN jobs[j].attempts :
        \/ <<"retry", j, i>> \in events
        \/ i = Len(jobs[j].attempts) /\ jobs[j].state # "queued"

\* No automatic redispatch: behind every attempt but the first stand the recorded
\* abandonment of the one before and a retry for exactly that count
\* (Registry.abandon, Registry.retry).
THEOREM Diagnosed == Spec => []RetryDiagnosed
<1> DEFINE Inv == AbandonRecorded /\ RetryRecorded
<1>1. Init => Inv
  BY DEF Init, AbandonRecorded, RetryRecorded
<1>2. TypeOK /\ JobSteps /\ Inv => Inv'
  <2> SUFFICES ASSUME TypeOK, JobSteps, Inv,
                      NEW j \in DOMAIN jobs', NEW i \in DOMAIN jobs'[j].attempts
               PROVE  /\ \/ <<"abandon", jobs'[j].attempts[i]>> \in events'
                         \/ i = Len(jobs'[j].attempts) /\ jobs'[j].state \in {"running", "completed"}
                      /\ \/ <<"retry", j, i>> \in events'
                         \/ i = Len(jobs'[j].attempts) /\ jobs'[j].state # "queued"
    BY DEF AbandonRecorded, RetryRecorded
  <2>1. CASE j \notin DOMAIN jobs
    BY <2>1 DEF JobSteps, NewJob
  <2>2. CASE j \in DOMAIN jobs
    <3>1. /\ JobMove(j) /\ events \subseteq events'
          /\ jobs[j].attempts \in Seq(ClaimKey) /\ Len(jobs[j].attempts) \in Nat
          /\ DOMAIN jobs[j].attempts = 1..Len(jobs[j].attempts)
          /\ jobs[j].state \in {"queued", "running", "paused", "exhausted", "completed"}
      BY <2>2 DEF JobSteps, TypeOK
    <3>a. \A n \in DOMAIN jobs[j].attempts :
            \/ <<"abandon", jobs[j].attempts[n]>> \in events
            \/ n = Len(jobs[j].attempts) /\ jobs[j].state \in {"running", "completed"}
      BY <2>2 DEF AbandonRecorded
    <3>b. \A n \in DOMAIN jobs[j].attempts :
            \/ <<"retry", j, n>> \in events
            \/ n = Len(jobs[j].attempts) /\ jobs[j].state # "queued"
      BY <2>2 DEF RetryRecorded
    <3>2. CASE jobs'[j] = jobs[j]
      BY <3>1, <3>2, <3>a, <3>b
    <3>3. CASE /\ jobs[j].state = "queued" /\ jobs'[j].state = "running"
               /\ \E k \in ClaimKey : jobs'[j].attempts = Append(jobs[j].attempts, k)
      <4>1. PICK k \in ClaimKey : jobs'[j].attempts = Append(jobs[j].attempts, k)
        BY <3>3
      <4>2. CASE i = Len(jobs[j].attempts) + 1
        BY <4>1, <4>2, <3>1, <3>3
      <4>3. CASE i \in 1..Len(jobs[j].attempts)
        <5>1. jobs'[j].attempts[i] = jobs[j].attempts[i] /\ i \in DOMAIN jobs[j].attempts
          BY <4>1, <4>3, <3>1
        <5>2. QED
          BY <5>1, <3>1, <3>3, <3>a, <3>b
      <4>4. QED
        BY <4>1, <4>2, <4>3, <3>1
    <3>4. CASE /\ jobs[j].state = "running" /\ jobs'[j].state = StateAfterAbandon(j)
               /\ jobs'[j].attempts = jobs[j].attempts
               /\ <<"abandon", LastAttempt(j)>> \in events'
      <4>1. StateAfterAbandon(j) \in {"paused", "exhausted"}
        BY DEF StateAfterAbandon
      <4>2. QED
        BY <4>1, <3>1, <3>4, <3>a, <3>b DEF LastAttempt
    <3>5. CASE /\ jobs[j].state = "paused" /\ jobs'[j].state = "queued"
               /\ jobs'[j].attempts = jobs[j].attempts
               /\ <<"retry", j, Len(jobs[j].attempts)>> \in events'
      BY <3>1, <3>5, <3>a, <3>b
    <3>6. CASE /\ jobs[j].state = "running" /\ jobs'[j].state = "completed"
               /\ jobs'[j].attempts = jobs[j].attempts
      BY <3>1, <3>6, <3>a, <3>b
    <3>7. QED
      BY <3>1, <3>2, <3>3, <3>4, <3>5, <3>6 DEF JobMove
  <2>3. QED
    BY <2>1, <2>2
<1>3. TypeOK /\ Inv => RetryDiagnosed
  <2> SUFFICES ASSUME TypeOK, Inv, NEW j \in DOMAIN jobs, NEW i \in 1..(Len(jobs[j].attempts) - 1)
               PROVE  <<"abandon", jobs[j].attempts[i]>> \in events /\ <<"retry", j, i>> \in events
    BY DEF RetryDiagnosed
  <2>1. jobs[j].attempts \in Seq(ClaimKey) /\ Len(jobs[j].attempts) \in Nat
    BY DEF TypeOK
  <2>2. i \in DOMAIN jobs[j].attempts /\ i # Len(jobs[j].attempts)
    BY <2>1
  <2>3. QED
    BY <2>2 DEF AbandonRecorded, RetryRecorded
<1> HIDE DEF Inv
<1>4. QED
  BY <1>1, <1>2, <1>3, JobStep, TypeCorrect, OwnersInvariant, PTL DEF Spec

-----------------------------------------------------------------------------
(* The cap on active jobs.                                                 *)

ActiveJobs == {j \in DOMAIN jobs : jobs[j].state \notin {"completed", "exhausted"}}

LEMMA JobDomainStep ==
    ASSUME TypeOK, [Next]_vars
    PROVE  DOMAIN jobs' = DOMAIN jobs \/ \E j \in Job : Enqueue(j)
<1>1. CASE UNCHANGED vars
  BY <1>1 DEF vars
<1>2. CASE Next
  BY <1>2 DEF Next, Register, Claim, Abandon, Retry, Reconcile, Complete, Quarantine,
              LiftQuarantine, ExpandLimits, Damage
<1>3. QED
  BY <1>1, <1>2

\* Backpressure is only asked for at enqueue, and yet the cap holds through every
\* retry (State.apply enqueue counts paused jobs as active).
THEOREM ActiveBounded == Spec => []ActiveCap
<1> DEFINE Inv == IsFiniteSet(ActiveJobs) /\ Cardinality(ActiveJobs) <= MaxActiveJobs
<1>1. Init => Inv
  <2>1. Init => ActiveJobs = {}
    BY DEF Init, ActiveJobs
  <2>2. QED
    BY <2>1, FS_EmptySet, BoundAssumption
<1>2. TypeOK /\ JobSteps /\ [Next]_vars /\ Inv => Inv'
  <2> SUFFICES ASSUME TypeOK, JobSteps, [Next]_vars, Inv PROVE Inv'
    OBVIOUS
  <2>1. \A j \in DOMAIN jobs : j \in DOMAIN jobs' /\ (j \in ActiveJobs' => j \in ActiveJobs)
    <3> SUFFICES ASSUME NEW j \in DOMAIN jobs, j \in ActiveJobs' PROVE j \in ActiveJobs
      BY DEF JobSteps
    <3>1. JobMove(j)
      BY DEF JobSteps
    <3>2. QED
      BY <3>1 DEF JobMove, ActiveJobs
  <2>2. CASE DOMAIN jobs' = DOMAIN jobs
    <3>1. ActiveJobs' \subseteq ActiveJobs
      BY <2>1, <2>2 DEF ActiveJobs
    <3>2. IsFiniteSet(ActiveJobs') /\ Cardinality(ActiveJobs') <= Cardinality(ActiveJobs)
      BY <3>1, FS_Subset
    <3>3. Cardinality(ActiveJobs) \in Nat /\ Cardinality(ActiveJobs') \in Nat
      BY <3>2, FS_CardinalityType
    <3>4. QED
      BY <3>2, <3>3, BoundAssumption
  <2>3. ASSUME NEW j \in Job, Enqueue(j) PROVE Inv'
    <3>1. {i \in DOMAIN jobs : IsActive(i)} = ActiveJobs
      BY DEF TypeOK, IsActive, ActiveJobs
    <3>2. Cardinality(ActiveJobs) < MaxActiveJobs
      BY <2>3, <3>1 DEF Enqueue
    <3>3. ActiveJobs' = ActiveJobs \cup {j} /\ j \notin ActiveJobs
      BY <2>3 DEF Enqueue, ActiveJobs
    <3>4. IsFiniteSet(ActiveJobs') /\ Cardinality(ActiveJobs') = Cardinality(ActiveJobs) + 1
      BY <3>3, FS_AddElement
    <3>5. QED
      BY <3>2, <3>4, FS_CardinalityType, BoundAssumption
  <2>4. QED
    BY <2>2, <2>3, JobDomainStep
<1>3. Inv => ActiveCap
  BY DEF ActiveCap, ActiveJobs
<1> HIDE DEF Inv
<1>4. QED
  BY <1>1, <1>2, <1>3, JobStep, TypeCorrect, OwnersInvariant, PTL DEF Spec

-----------------------------------------------------------------------------
(* The ledger of cost snapshots.                                           *)

\* o is an earlier snapshot of the account p continues.
Below(o, p) ==
    /\ observations[o].attempt = observations[p].attempt
    /\ observations[o].receipts \subseteq observations[p].receipts
    /\ CostKept(observations[o].cost, observations[p].cost)

Contiguous == \A o \in DOMAIN observations : o[2] > 1 => <<o[1], o[2] - 1>> \in DOMAIN observations

Cumulative ==
    \A o, p \in DOMAIN observations : o[1] = p[1] /\ o[2] <= p[2] => Below(o, p)

\* Every upstream call that has a snapshot has a newest one.
NewestExists == \A o \in DOMAIN observations : \E p \in Latest : p[1] = o[1]

LedgerInv == Contiguous /\ Cumulative /\ NewestExists

LEMMA CostKeptReflexive == \A c \in Costs : CostKept(c, c)
  BY CostAssumption DEF CostKept

LEMMA CostKeptTransitive ==
    \A a, b, c \in Costs : CostKept(a, b) /\ CostKept(b, c) => CostKept(a, c)
  BY CostAssumption DEF CostKept

LEMMA LedgerInitial == Init => LedgerInv
  BY DEF Init, LedgerInv, Contiguous, Cumulative, NewestExists

LEMMA LedgerFrame ==
    ASSUME LedgerInv, UNCHANGED observations
    PROVE  LedgerInv'
  BY DEF LedgerInv, Contiguous, Cumulative, NewestExists, Latest, Below

\* One more snapshot extends the account of its upstream call.
LEMMA LedgerReconcile ==
    ASSUME TypeOK, LedgerInv, NEW k \in ClaimKey, NEW u \in Upstream, NEW r \in 1..MaxRevision,
           NEW R \in Receipts, NEW c \in Costs, Reconcile(k, u, r, R, c)
    PROVE  LedgerInv'
<1> DEFINE D == DOMAIN observations
           n == <<u, r>>
           new == [attempt |-> k, receipts |-> R, cost |-> c]
<1>1. /\ \A o \in D : o = <<o[1], o[2]>> /\ o[2] \in Nat
      /\ \A o \in D : observations[o].cost \in Costs
      /\ r \in Nat
  BY BoundAssumption DEF TypeOK
<1>2. /\ DOMAIN observations' = D \cup {n}
      /\ observations'[n] = new
      /\ \A o \in D : o # n => observations'[o] = observations[o]
  BY DEF Reconcile
<1>3. CASE \A o \in D : o[1] # u
  <2>1. {o \in Latest : o[1] = u} = {}
    BY <1>3 DEF Latest
  <2>2. r = 1 /\ n \notin D /\ n[1] = u /\ n[2] = 1
    BY <1>3, <2>1 DEF Reconcile
  <2>3. Contiguous'
    BY <1>2, <1>3, <2>2 DEF LedgerInv, Contiguous
  <2>4. Cumulative'
    <3> SUFFICES ASSUME NEW o \in D \cup {n}, NEW p \in D \cup {n}, o[1] = p[1], o[2] <= p[2]
                 PROVE  Below(o, p)'
      BY <1>2 DEF Cumulative
    <3>1. CASE o = n /\ p = n
      BY <1>2, <3>1, CostKeptReflexive DEF Below
    <3>2. CASE o # n /\ p # n
      BY <1>2, <3>2 DEF Below, LedgerInv, Cumulative
    <3>3. QED
      BY <1>3, <2>2, <3>1, <3>2
  <2>5. NewestExists'
    <3>1. n \in Latest'
      BY <1>2, <1>3, <2>2 DEF Latest
    <3>2. \A p \in Latest : p[1] # u /\ p \in Latest'
      BY <1>2, <1>3, <2>2 DEF Latest
    <3>3. QED
      BY <1>2, <2>2, <3>1, <3>2 DEF LedgerInv, NewestExists
  <2>6. QED
    BY <2>3, <2>4, <2>5 DEF LedgerInv
<1>4. CASE \E o \in D : o[1] = u
  <2>1. PICK w \in Latest : w[1] = u
    BY <1>4 DEF LedgerInv, NewestExists
  <2>2. /\ w \in D /\ w = <<u, w[2]>> /\ w[2] \in Nat
        /\ \A o \in D : o[1] = u => o[2] <= w[2]
    BY <1>1, <2>1 DEF Latest
  <2>3. /\ observations[w].attempt = k
        /\ r = w[2] + 1
        /\ observations[w].receipts \subseteq R
        /\ CostKept(observations[w].cost, c)
    BY <2>1 DEF Reconcile
  <2>4. n \notin D /\ n[1] = u /\ n[2] = r
    BY <2>2, <2>3
  <2>5. Contiguous'
    BY <1>1, <1>2, <2>2, <2>3, <2>4 DEF LedgerInv, Contiguous
  <2>6. Cumulative'
    <3> SUFFICES ASSUME NEW o \in D \cup {n}, NEW p \in D \cup {n}, o[1] = p[1], o[2] <= p[2]
                 PROVE  Below(o, p)'
      BY <1>2 DEF Cumulative
    <3>1. CASE o = n /\ p = n
      BY <1>2, <3>1, CostKeptReflexive DEF Below
    <3>2. CASE o # n /\ p # n
      BY <1>2, <3>2 DEF Below, LedgerInv, Cumulative
    <3>3. CASE o # n /\ p = n
      <4>1. o \in D /\ Below(o, w)
        BY <2>2, <2>4, <3>3 DEF LedgerInv, Cumulative
      <4>2. CostKept(observations[o].cost, c)
        BY <1>1, <2>2, <2>3, <4>1, CostKeptTransitive DEF Below
      <4>3. QED
        BY <1>2, <2>3, <3>3, <4>1, <4>2 DEF Below
    <3>4. CASE o = n /\ p # n
      BY <1>1, <2>2, <2>3, <2>4, <3>4
    <3>5. QED
      BY <3>1, <3>2, <3>3, <3>4
  <2>7. NewestExists'
    <3>1. n \in Latest'
      BY <1>1, <1>2, <2>2, <2>3, <2>4 DEF Latest
    <3>2. \A p \in Latest : p[1] # u => p \in Latest'
      BY <1>2, <2>4 DEF Latest
    <3>3. QED
      BY <1>2, <2>4, <3>1, <3>2 DEF LedgerInv, NewestExists
  <2>8. QED
    BY <2>5, <2>6, <2>7 DEF LedgerInv
<1>5. QED
  BY <1>3, <1>4

LEMMA LedgerInvariant == Spec => []LedgerInv
<1>1. TypeOK /\ LedgerInv /\ [Next]_vars => LedgerInv'
  <2> SUFFICES ASSUME TypeOK, LedgerInv, [Next]_vars PROVE LedgerInv'
    OBVIOUS
  <2>1. CASE \E k \in ClaimKey, u \in Upstream, r \in 1..MaxRevision, R \in Receipts, c \in Costs :
                Reconcile(k, u, r, R, c)
    BY <2>1, LedgerReconcile
  <2>2. CASE UNCHANGED vars
    BY <2>2, LedgerFrame DEF vars
  <2>3. CASE \/ \E decl \in Explicit : Register(decl[1], decl[2])
             \/ \E j \in Job : Enqueue(j)
             \/ \E j \in Job, k \in ClaimKey : Claim(j, k)
             \/ \E k \in ClaimKey, e \in Evidence : Abandon(k, e)
             \/ \E j \in Job, e \in Evidence : Retry(j, e)
             \/ \E k \in ClaimKey, res \in Outcome, O \in SUBSET DOMAIN observations : Complete(k, res, O)
             \/ \E n \in Notice, root \in Artifact, e \in Evidence : Quarantine(n, root, e)
             \/ \E n \in Notice, e \in Evidence : LiftQuarantine(n, e)
             \/ \E l \in LimitChoices : ExpandLimits(l)
             \/ \E a \in Artifact : Damage(a)
    <3>1. UNCHANGED observations
      BY <2>3 DEF Register, Enqueue, Claim, Abandon, Retry, Complete, Quarantine,
                  LiftQuarantine, ExpandLimits, Damage
    <3>2. QED
      BY <3>1, LedgerFrame
  <2>4. QED
    BY <2>1, <2>2, <2>3 DEF Next
<1>2. QED
  BY <1>1, LedgerInitial, TypeCorrect, PTL DEF Spec

\* The snapshots of an upstream call are one cumulative account, whichever attempts
\* and late receipts race (State.apply reconcile).
THEOREM LedgerMonotone == Spec => []LedgerCumulative
<1>1. TypeOK /\ LedgerInv => LedgerCumulative
  <2> SUFFICES ASSUME TypeOK, LedgerInv, NEW o \in DOMAIN observations
               PROVE  /\ o[2] > 1 => <<o[1], o[2] - 1>> \in DOMAIN observations
                      /\ \A p \in DOMAIN observations : o[1] = p[1] /\ o[2] <= p[2] =>
                            /\ observations[o].attempt = observations[p].attempt
                            /\ observations[o].receipts \subseteq observations[p].receipts
                            /\ \A c \in DOMAIN observations[o].cost :
                                  LET cost == observations[o].cost[c] IN
                                  /\ c \in DOMAIN observations[p].cost
                                  /\ cost # Unknown => /\ observations[p].cost[c] # Unknown
                                                       /\ observations[p].cost[c] >= cost
    BY DEF LedgerCumulative
  <2>1. \A p \in DOMAIN observations : observations[p].cost \in Costs
    BY DEF TypeOK
  <2>2. QED
    BY <2>1, CostAssumption DEF LedgerInv, Contiguous, Cumulative, Below, CostKept
<1>2. QED
  BY <1>1, LedgerInvariant, TypeCorrect, PTL

\* Only Complete completes a job, and it binds the newest snapshots of the owner.
LEMMA CompletionStep ==
    ASSUME TypeOK, Owners, [Next]_vars, NEW j \in DOMAIN jobs,
           jobs[j].state = "running", jobs'[j].state = "completed"
    PROVE  jobs'[j].bound = LatestOf(LastAttempt(j)) /\ UNCHANGED observations
<1>0. JobsOK
  BY DEF TypeOK, JobsOK
<1>1. ASSUME NEW k \in ClaimKey, NEW res \in Outcome, NEW O \in SUBSET DOMAIN observations,
             Complete(k, res, O)
      PROVE  jobs'[j].bound = LatestOf(LastAttempt(j)) /\ UNCHANGED observations
  <2>1. attempts[k].job \in DOMAIN jobs /\ LastAttempt(attempts[k].job) = k
    BY <1>1 DEF Complete, OwnsRunningJob, Owners, OwnsItsJob
  <2>2. \A i \in DOMAIN jobs : i # attempts[k].job => jobs'[i] = jobs[i]
    BY <1>1 DEF Complete
  <2>3. j = attempts[k].job
    BY <2>2
  <2>4. jobs'[j].bound = O
    BY <1>1, <2>1, <2>3, <1>0 DEF Complete, JobsOK
  <2>5. QED
    BY <1>1, <2>1, <2>3, <2>4 DEF Complete
<1>2. ASSUME NEW i \in Job, NEW k \in ClaimKey, Claim(i, k) PROVE FALSE
  BY <1>2, <1>0 DEF Claim, JobsOK
<1>3. ASSUME NEW k \in ClaimKey, NEW e \in Evidence, Abandon(k, e) PROVE FALSE
  <2>1. attempts[k].job \in DOMAIN jobs
    BY <1>3 DEF Abandon, OwnsRunningJob, Owners, OwnsItsJob
  <2>2. StateAfterAbandon(attempts[k].job) # "completed"
    BY DEF StateAfterAbandon
  <2>3. QED
    BY <1>3, <2>1, <2>2, <1>0 DEF Abandon, JobsOK
<1>4. ASSUME NEW i \in Job, NEW e \in Evidence, Retry(i, e) PROVE FALSE
  BY <1>4, <1>0 DEF Retry, JobsOK
<1>5. ASSUME NEW i \in Job, Enqueue(i) PROVE FALSE
  BY <1>5 DEF Enqueue
<1>6. ASSUME UNCHANGED jobs PROVE FALSE
  BY <1>6
<1>7. QED
  <2>1. CASE UNCHANGED vars
    BY <2>1, <1>6 DEF vars
  <2>2. CASE \E decl \in Explicit : Register(decl[1], decl[2])
    BY <2>2, <1>6 DEF Register
  <2>3. CASE \E k \in ClaimKey, u \in Upstream, r \in 1..MaxRevision, R \in Receipts, c \in Costs :
                Reconcile(k, u, r, R, c)
    BY <2>3, <1>6 DEF Reconcile
  <2>4. CASE \/ \E n \in Notice, root \in Artifact, e \in Evidence : Quarantine(n, root, e)
             \/ \E n \in Notice, e \in Evidence : LiftQuarantine(n, e)
             \/ \E l \in LimitChoices : ExpandLimits(l)
             \/ \E a \in Artifact : Damage(a)
    BY <2>4, <1>6 DEF Quarantine, LiftQuarantine, ExpandLimits, Damage
  <2>5. QED
    BY <2>1, <2>2, <2>3, <2>4, <1>1, <1>2, <1>3, <1>4, <1>5 DEF Next

\* A completion binds each upstream call of the winning attempt exactly once, at its
\* newest revision (State.apply complete).
THEOREM CompletionExact == Spec => CompletionBindsNewest
<1> DEFINE Exact(j) ==
        /\ \A p \in jobs'[j].bound :
              /\ p \in DOMAIN observations
              /\ observations[p].attempt = LastAttempt(j)
              /\ \A q \in jobs'[j].bound : p[1] = q[1] => p = q
        /\ \A o \in DOMAIN observations : observations[o].attempt = LastAttempt(j) =>
              \E p \in jobs'[j].bound : p[1] = o[1] /\ p[2] >= o[2]
<1>1. TypeOK /\ Owners /\ LedgerInv /\ [Next]_vars =>
        [\A j \in DOMAIN jobs : jobs[j].state = "running" /\ jobs'[j].state = "completed" => Exact(j)]_vars
  <2> SUFFICES ASSUME TypeOK, Owners, LedgerInv, [Next]_vars, NEW j \in DOMAIN jobs,
                      jobs[j].state = "running", jobs'[j].state = "completed"
               PROVE  Exact(j)
    OBVIOUS
  <2> DEFINE k == LastAttempt(j)
  <2>1. jobs'[j].bound = LatestOf(k)
    BY CompletionStep
  <2>2. \A o \in DOMAIN observations : o = <<o[1], o[2]>> /\ o[2] \in Nat
    BY BoundAssumption DEF TypeOK
  <2>3. ASSUME NEW p \in LatestOf(k)
        PROVE  /\ p \in DOMAIN observations
               /\ observations[p].attempt = k
               /\ \A q \in LatestOf(k) : p[1] = q[1] => p = q
    BY <2>2 DEF LatestOf, Latest
  <2>4. ASSUME NEW o \in DOMAIN observations, observations[o].attempt = k
        PROVE  \E p \in LatestOf(k) : p[1] = o[1] /\ p[2] >= o[2]
    <3>1. PICK p \in Latest : p[1] = o[1]
      BY DEF LedgerInv, NewestExists
    <3>2. p \in DOMAIN observations /\ o[2] <= p[2]
      BY <3>1 DEF Latest
    <3>3. observations[p].attempt = k
      BY <2>4, <3>1, <3>2 DEF LedgerInv, Cumulative, Below
    <3>4. QED
      BY <2>2, <3>1, <3>2, <3>3 DEF LatestOf
  <2>5. QED
    BY <2>1, <2>3, <2>4
<1>2. QED
  BY <1>1, LedgerInvariant, TypeCorrect, OwnersInvariant, PTL DEF Spec, CompletionBindsNewest

-----------------------------------------------------------------------------
(* Least closed sets, the graph of artifacts.                              *)

\* Closure(S, d) contains S and is closed under d.
LEMMA ClosureHolds ==
    ASSUME NEW S \in SUBSET Artifact, NEW d, \A a \in Artifact : d[a] \subseteq Artifact
    PROVE  S \subseteq Closure(S, d) /\ \A a \in Closure(S, d) : d[a] \subseteq Closure(S, d)
<1>1. S \subseteq Closure(S, d)
  BY DEF Closure
<1>2. ASSUME NEW a \in Closure(S, d), NEW b \in d[a] PROVE b \in Closure(S, d)
  <2>1. a \in Artifact /\ b \in Artifact
    BY <1>2 DEF Closure
  <2>2. ASSUME NEW T \in SUBSET (Artifact \ S), \A c \in S \cup T : d[c] \subseteq S \cup T
        PROVE  b \in S \/ b \in T
    <3>1. a \in S \cup T
      BY <1>2, <2>2 DEF Closure
    <3>2. QED
      BY <1>2, <2>2, <3>1
  <2>3. QED
    BY <2>1, <2>2 DEF Closure
<1>3. QED
  BY <1>1, <1>2

\* It is the least such set.
LEMMA ClosureLeast ==
    ASSUME NEW S \in SUBSET Artifact, NEW d, NEW T \in SUBSET Artifact, S \subseteq T,
           \A a \in T : d[a] \subseteq T
    PROVE  Closure(S, d) \subseteq T
<1>1. S \cup (T \ S) = T
  OBVIOUS
<1>2. T \ S \in {U \in SUBSET (Artifact \ S) : \A a \in S \cup U : d[a] \subseteq S \cup U}
  BY <1>1
<1>3. QED
  BY <1>2 DEF Closure

\* The dependencies of a graph, of every artifact.
Known(g) == [a \in Artifact |-> IF a \in DOMAIN g THEN g[a] ELSE {}]

\* A graph without a set in which everything has a parent has no cycle.
LEMMA AcyclicHasNoCycle ==
    ASSUME NEW g, DOMAIN g \subseteq Artifact, \A a \in DOMAIN g : g[a] \subseteq DOMAIN g,
           Acyclic(g), NEW a \in DOMAIN g
    PROVE  a \notin Closure(g[a], Known(g))
<1> SUFFICES ASSUME a \in Closure(g[a], Known(g)) PROVE FALSE
  OBVIOUS
<1> DEFINE d == Known(g)
<1>1. \A b \in Artifact : d[b] \subseteq Artifact
  BY DEF Known
<1>2. \A b \in DOMAIN g : d[b] = g[b]
  BY DEF Known
<1>3. \A b \in DOMAIN g : g[b] \in SUBSET Artifact
  OBVIOUS
<1> HIDE DEF d
<1> DEFINE S == {b \in DOMAIN g : a \in Closure(g[b], d)}
<1>0. a \in S
  BY DEF d
<1>4. ASSUME NEW b \in S PROVE g[b] \cap S # {}
  <2>0. g[b] \in SUBSET Artifact /\ b \in DOMAIN g /\ a \in Closure(g[b], d)
    BY <1>3
  <2>1. ASSUME g[b] \cap S = {} PROVE a \notin Closure(g[b], d)
    <3> DEFINE T == g[b] \cup UNION {Closure(g[c], d) : c \in g[b]}
    <3>1. a \notin UNION {Closure(g[c], d) : c \in g[b]}
      BY <2>1, <2>0
    <3>2. T \in SUBSET Artifact
      BY <2>0, ClosureType
    <3>3. \A x \in T : d[x] \subseteq T
      <4>1. ASSUME NEW x \in g[b] PROVE d[x] \subseteq T
        <5>1. x \in DOMAIN g
          BY <2>0
        <5>2. g[x] \subseteq Closure(g[x], d)
          BY <1>1, <1>3, <5>1, ClosureHolds
        <5>3. QED
          BY <1>2, <5>1, <5>2
      <4>2. ASSUME NEW c \in g[b], NEW x \in Closure(g[c], d) PROVE d[x] \subseteq T
        <5>1. g[c] \in SUBSET Artifact
          BY <1>3, <2>0
        <5>2. d[x] \subseteq Closure(g[c], d)
          BY <1>1, <5>1, ClosureHolds
        <5>3. QED
          BY <5>2
      <4>3. QED
        BY <4>1, <4>2
    <3>4. Closure(g[b], d) \subseteq T
      <4>1. g[b] \subseteq T
        OBVIOUS
      <4> HIDE DEF T
      <4>2. QED
        BY <2>0, <3>2, <3>3, <4>1, ClosureLeast
    <3>5. a \notin g[b]
      BY <2>1, <1>0
    <3>6. QED
      BY <3>1, <3>4, <3>5
  <2>2. QED
    BY <2>0, <2>1
<1>5. S \in SUBSET DOMAIN g
  OBVIOUS
<1>6. S = {}
  <2> HIDE DEF S
  <2>1. QED
    BY <1>4, <1>5 DEF Acyclic
<1>7. QED
  BY <1>0, <1>6

-----------------------------------------------------------------------------
(* The graph of artifacts stays sound.                                     *)

\* Every registered artifact depends on registered ones and on what its bytes embed.
GraphClosed ==
    \A a \in DOMAIN artifacts : artifacts[a] \subseteq DOMAIN artifacts /\ Intrinsic[a] \subseteq artifacts[a]

\* What one event may do to the index: it adds artifacts.
IndexGrows ==
    /\ DOMAIN artifacts \subseteq DOMAIN artifacts'
    /\ \A a \in DOMAIN artifacts : artifacts'[a] = artifacts[a]

\* Installing keeps the records there are, registers the roots, and leaves the index
\* closed, complete and acyclic.
LEMMA InstallGraph ==
    ASSUME ArtifactsOK, GraphClosed, NEW roots \in SUBSET Artifact, NEW declared,
           \A b \in DOMAIN declared : declared[b] \subseteq Artifact,
           Install(roots, declared)
    PROVE  IndexGrows /\ roots \subseteq DOMAIN artifacts' /\ GraphClosed' /\ Acyclic(artifacts')
<1> DEFINE d == Declared(declared)
           verified == Closure(roots, d)
           index == [a \in verified \cup DOMAIN artifacts |->
                        IF a \in verified THEN d[a] ELSE artifacts[a]]
<1>1. /\ artifacts' = index /\ Acyclic(index)
      /\ \A a \in verified \cap DOMAIN artifacts : d[a] = artifacts[a]
  BY DEF Install
<1>2. \A a \in Artifact : d[a] \subseteq Artifact
  BY DeclaredType
<1>3. \A a \in Artifact : Intrinsic[a] \subseteq d[a]
  BY DEF Declared
<1> HIDE DEF d
<1>4. roots \subseteq verified /\ \A a \in verified : d[a] \subseteq verified
  BY <1>2, ClosureHolds
<1>5. verified \subseteq Artifact
  BY ClosureType
<1> HIDE DEF verified
<1>6. DOMAIN artifacts' = verified \cup DOMAIN artifacts
  BY <1>1
<1>7. \A a \in DOMAIN artifacts' : artifacts'[a] = IF a \in verified THEN d[a] ELSE artifacts[a]
  BY <1>1
<1>8. IndexGrows /\ roots \subseteq DOMAIN artifacts'
  BY <1>1, <1>4, <1>6, <1>7 DEF IndexGrows
<1>9. GraphClosed'
  BY <1>3, <1>4, <1>5, <1>6, <1>7 DEF GraphClosed
<1>10. QED
  BY <1>1, <1>8, <1>9

\* What the jobs and the notices name is registered; only a completed job has a result.
NamesRegistered ==
    /\ \A j \in DOMAIN jobs :
          /\ JobDependencies(j) \cup jobs[j].result.artifacts \subseteq DOMAIN artifacts
          /\ jobs[j].state # "completed" => jobs[j].result = NoResult
    /\ \A n \in DOMAIN notices : notices[n].root \in DOMAIN artifacts

GraphInv == GraphClosed /\ Acyclic(artifacts) /\ NamesRegistered

\* The artifacts of job j when it is admitted: inputs, configuration, result, evidence.
AdmittedRefs(j) ==
    JobInputs(j) \cup jobs'[j].result.artifacts \cup jobs'[j].result.evidence

\* A step that admits job j: it was asked whether the job is usable on the index that
\* the step leaves, but with the results from before.
Admits(j) ==
    /\ j \in Job
    /\ JobUsable(j, AdmittedRefs(j), artifacts')
    /\ DOMAIN jobs' = DOMAIN jobs \cup {j}
    /\ \A i \in DOMAIN jobs : i # j => jobs'[i] = jobs[i]
    /\ jobs'[j].state # "completed" => jobs'[j].result = NoResult
    /\ Admitted(j)' /\ (j \in DOMAIN jobs => jobs'[j] # jobs[j])
    /\ UNCHANGED notices

\* A step that admits nothing: results stay, and no job becomes queued or starts.
AdmitsNone ==
    /\ DOMAIN jobs' = DOMAIN jobs
    /\ \A j \in DOMAIN jobs : /\ jobs'[j].result = jobs[j].result
                              /\ \/ jobs'[j] = jobs[j]
                                 \/ /\ jobs[j].state # "completed"
                                    /\ jobs'[j].state \in {"paused", "exhausted"}
    /\ \A n \in DOMAIN notices : /\ n \in DOMAIN notices' /\ notices'[n].root = notices[n].root
                                 /\ notices'[n].active => notices[n].active
    /\ \A n \in DOMAIN notices' : n \in DOMAIN notices \/ notices'[n].root \in DOMAIN artifacts

GraphStep ==
    /\ IndexGrows /\ GraphClosed' /\ Acyclic(artifacts')
    /\ AdmitsNone \/ \E j \in Job : Admits(j)

\* The record of a job has its four fields.
LEMMA JobFields ==
    ASSUME JobsOK, NEW j \in DOMAIN jobs
    PROVE  DOMAIN jobs[j] = {"state", "attempts", "result", "bound"}
  BY DEF JobsOK

LEMMA InstallAllGraph ==
    ASSUME ArtifactsOK, GraphClosed, NEW roots \in SUBSET Artifact, InstallAll(roots)
    PROVE  IndexGrows /\ roots \subseteq DOMAIN artifacts' /\ GraphClosed' /\ Acyclic(artifacts')
  BY InstallGraph DEF InstallAll, NoDeclaration

\* Every step extends the graph soundly, and admits at most one job, which it checked.
LEMMA GraphSteps ==
    ASSUME TypeOK, Owners, GraphInv, [Next]_vars
    PROVE  GraphStep
<1>0. ArtifactsOK /\ JobsOK /\ AttemptsOK /\ NoticesOK
  BY DEF TypeOK, ArtifactsOK, JobsOK, AttemptsOK, NoticesOK
<1>a. GraphClosed /\ Acyclic(artifacts) /\ NamesRegistered
  BY DEF GraphInv
<1>b. ASSUME UNCHANGED artifacts PROVE IndexGrows /\ GraphClosed' /\ Acyclic(artifacts')
  BY <1>a, <1>b DEF IndexGrows, GraphClosed
<1>c. Evidence \subseteq Artifact /\ \A j \in Job : JobInputs(j) \in SUBSET Artifact
  BY ReferenceAssumption, JobAssumption DEF JobInputs
<1>d. ASSUME UNCHANGED <<jobs, notices>> PROVE AdmitsNone
  BY <1>d DEF AdmitsNone
<1>1. ASSUME NEW decl \in Explicit, Register(decl[1], decl[2]) PROVE GraphStep
  <2>1. decl[1] \in Artifact /\ decl[2] \subseteq Artifact
    BY ReferenceAssumption
  <2>2. IndexGrows /\ GraphClosed' /\ Acyclic(artifacts')
    BY <1>0, <1>1, <1>a, <2>1, InstallGraph DEF Register
  <2>3. QED
    BY <1>1, <1>d, <2>2 DEF Register, GraphStep
<1>2. ASSUME NEW j \in Job, Enqueue(j) PROVE GraphStep
  <2>1. IndexGrows /\ GraphClosed' /\ Acyclic(artifacts')
    BY <1>0, <1>2, <1>a, <1>c, InstallAllGraph DEF Enqueue
  <2>2. /\ jobs'[j].state = "queued" /\ jobs'[j].result = NoResult
        /\ j \notin DOMAIN jobs /\ DOMAIN jobs' = DOMAIN jobs \cup {j}
        /\ \A i \in DOMAIN jobs : i # j => jobs'[i] = jobs[i]
    BY <1>2 DEF Enqueue
  <2>3. AdmittedRefs(j) = JobInputs(j)
    BY <2>2 DEF AdmittedRefs, NoResult
  <2>4. JobUsable(j, AdmittedRefs(j), artifacts') /\ UNCHANGED notices
    BY <1>2, <2>3 DEF Enqueue
  <2>5. Admits(j)
    BY <2>2, <2>4 DEF Admits, Admitted
  <2>6. QED
    BY <2>1, <2>5 DEF GraphStep
<1>3. ASSUME NEW j \in Job, NEW k \in ClaimKey, Claim(j, k) PROVE GraphStep
  <2>1. j \in DOMAIN jobs /\ DOMAIN jobs[j] = {"state", "attempts", "result", "bound"} /\ jobs[j].state = "queued"
    BY <1>0, <1>3, JobFields DEF Claim
  <2>2. /\ jobs'[j].state = "running" /\ jobs'[j].result = jobs[j].result
        /\ DOMAIN jobs' = DOMAIN jobs
        /\ \A i \in DOMAIN jobs : i # j => jobs'[i] = jobs[i]
    BY <1>3, <2>1 DEF Claim
  <2>3. jobs'[j].result = NoResult
    BY <1>a, <2>1, <2>2 DEF NamesRegistered
  <2>4. AdmittedRefs(j) = JobInputs(j)
    BY <2>3 DEF AdmittedRefs, NoResult
  <2>5. JobUsable(j, AdmittedRefs(j), artifacts') /\ UNCHANGED <<notices, artifacts>>
    BY <1>3, <2>4 DEF Claim
  <2>6. Admits(j)
    BY <2>1, <2>2, <2>3, <2>5 DEF Admits, Admitted
  <2>7. QED
    BY <1>b, <2>5, <2>6 DEF GraphStep
<1>4. ASSUME NEW k \in ClaimKey, NEW e \in Evidence, Abandon(k, e) PROVE GraphStep
  <2> DEFINE j == attempts[k].job
  <2>1. IndexGrows /\ GraphClosed' /\ Acyclic(artifacts')
    BY <1>0, <1>4, <1>a, <1>c, InstallAllGraph DEF Abandon
  <2>a. j \in DOMAIN jobs /\ jobs[j].state = "running"
    BY <1>4 DEF Abandon, OwnsRunningJob, Owners, OwnsItsJob
  <2>2. DOMAIN jobs[j] = {"state", "attempts", "result", "bound"}
    BY <1>0, <2>a, JobFields
  <2>3. StateAfterAbandon(j) \in {"paused", "exhausted"}
    BY DEF StateAfterAbandon
  <2>4. /\ DOMAIN jobs' = DOMAIN jobs /\ UNCHANGED notices
        /\ jobs'[j].state = StateAfterAbandon(j) /\ jobs'[j].result = jobs[j].result
        /\ \A i \in DOMAIN jobs : i # j => jobs'[i] = jobs[i]
    BY <1>4, <2>a, <2>2 DEF Abandon
  <2>5. AdmitsNone
    BY <2>a, <2>3, <2>4 DEF AdmitsNone
  <2>6. QED
    BY <2>1, <2>5 DEF GraphStep
<1>5. ASSUME NEW j \in Job, NEW e \in Evidence, Retry(j, e) PROVE GraphStep
  <2>1. IndexGrows /\ GraphClosed' /\ Acyclic(artifacts')
    <3>1. {e} \cup JobInputs(j) \in SUBSET Artifact
      BY <1>c
    <3>2. QED
      BY <1>0, <1>5, <1>a, <3>1, InstallAllGraph DEF Retry
  <2>2. j \in DOMAIN jobs /\ DOMAIN jobs[j] = {"state", "attempts", "result", "bound"} /\ jobs[j].state = "paused"
    BY <1>0, <1>5, JobFields DEF Retry
  <2>3. /\ jobs'[j].state = "queued" /\ jobs'[j].result = jobs[j].result
        /\ DOMAIN jobs' = DOMAIN jobs
        /\ \A i \in DOMAIN jobs : i # j => jobs'[i] = jobs[i]
    BY <1>5, <2>2 DEF Retry
  <2>4. jobs'[j].result = NoResult
    BY <1>a, <2>2, <2>3 DEF NamesRegistered
  <2>5. AdmittedRefs(j) = JobInputs(j)
    BY <2>4 DEF AdmittedRefs, NoResult
  <2>6. JobUsable(j, AdmittedRefs(j), artifacts') /\ UNCHANGED notices
    BY <1>5, <2>5 DEF Retry
  <2>7. Admits(j)
    BY <2>2, <2>3, <2>4, <2>6 DEF Admits, Admitted
  <2>8. QED
    BY <2>1, <2>7 DEF GraphStep
<1>6. ASSUME NEW k \in ClaimKey, NEW u \in Upstream, NEW r \in 1..MaxRevision,
             NEW R \in Receipts, NEW c \in Costs, Reconcile(k, u, r, R, c)
      PROVE  GraphStep
  <2>1. R \in SUBSET Artifact
    BY ReferenceAssumption
  <2>2. IndexGrows /\ GraphClosed' /\ Acyclic(artifacts')
    BY <1>0, <1>6, <1>a, <2>1, InstallAllGraph DEF Reconcile
  <2>3. QED
    BY <1>6, <1>d, <2>2 DEF Reconcile, GraphStep
<1>7. ASSUME NEW k \in ClaimKey, NEW res \in Outcome, NEW O \in SUBSET DOMAIN observations,
             Complete(k, res, O)
      PROVE  GraphStep
  <2>b. attempts[k].job \in Job
    BY <1>0, <1>7 DEF Complete, OwnsRunningJob, AttemptsOK
  <2>0. PICK j \in Job : j = attempts[k].job
    BY <2>b
  <2> DEFINE refs == JobInputs(j) \cup res.artifacts \cup res.evidence
  <2>1. refs \in SUBSET Artifact
    BY <1>c, ReferenceAssumption
  <2>2. InstallAll(refs) /\ JobUsable(j, refs, artifacts') /\ UNCHANGED notices
    BY <1>7, <2>0 DEF Complete
  <2> HIDE DEF refs
  <2>3. IndexGrows /\ GraphClosed' /\ Acyclic(artifacts')
    BY <1>0, <1>a, <2>1, <2>2, InstallAllGraph
  <2>4. j \in DOMAIN jobs /\ jobs[j].state = "running"
    BY <1>7, <2>0 DEF Complete, OwnsRunningJob, Owners, OwnsItsJob
  <2>5. DOMAIN jobs[j] = {"state", "attempts", "result", "bound"}
    BY <1>0, <2>4, JobFields
  <2>6. /\ DOMAIN jobs' = DOMAIN jobs
        /\ jobs'[j].state = "completed" /\ jobs'[j].result = res
        /\ \A i \in DOMAIN jobs : i # j => jobs'[i] = jobs[i]
    BY <1>7, <2>0, <2>4, <2>5 DEF Complete
  <2>7. AdmittedRefs(j) = refs
    BY <2>6 DEF AdmittedRefs, refs
  <2>8. Admits(j)
    BY <2>2, <2>4, <2>6, <2>7 DEF Admits, Admitted
  <2>9. QED
    BY <2>3, <2>8 DEF GraphStep
<1>8. ASSUME NEW n \in Notice, NEW root \in Artifact, NEW e \in Evidence, Quarantine(n, root, e)
      PROVE  GraphStep
  <2>1. IndexGrows /\ GraphClosed' /\ Acyclic(artifacts')
    BY <1>0, <1>8, <1>a, <1>c, InstallAllGraph DEF Quarantine
  <2>2. AdmitsNone
    BY <1>8 DEF Quarantine, AdmitsNone
  <2>3. QED
    BY <2>1, <2>2 DEF GraphStep
<1>9. ASSUME NEW n \in Notice, NEW e \in Evidence, LiftQuarantine(n, e) PROVE GraphStep
  <2>1. IndexGrows /\ GraphClosed' /\ Acyclic(artifacts')
    BY <1>0, <1>9, <1>a, <1>c, InstallAllGraph DEF LiftQuarantine
  <2>2. n \in DOMAIN notices /\ \A m \in DOMAIN notices : notices[m] \in [root : Artifact, active : BOOLEAN]
    BY <1>0, <1>9 DEF LiftQuarantine, ActiveNotices, NoticesOK
  <2>3. /\ DOMAIN notices' = DOMAIN notices
        /\ notices'[n].root = notices[n].root /\ notices'[n].active = FALSE
        /\ \A m \in DOMAIN notices : m # n => notices'[m] = notices[m]
    BY <1>9, <2>2 DEF LiftQuarantine
  <2>4. AdmitsNone
    BY <1>9, <2>3 DEF LiftQuarantine, AdmitsNone
  <2>5. QED
    BY <2>1, <2>4 DEF GraphStep
<1>10. ASSUME NEW l \in LimitChoices, ExpandLimits(l) PROVE GraphStep
  BY <1>10, <1>b, <1>d DEF ExpandLimits, GraphStep
<1>11. ASSUME NEW a \in Artifact, Damage(a) PROVE GraphStep
  BY <1>11, <1>b, <1>d DEF Damage, GraphStep
<1>12. CASE UNCHANGED vars
  BY <1>12, <1>b, <1>d DEF vars, GraphStep
<1>13. QED
  BY <1>1, <1>2, <1>3, <1>4, <1>5, <1>6, <1>7, <1>8, <1>9, <1>10, <1>11, <1>12 DEF Next

\* The graph is sound, and the registry names registered artifacts only.
LEMMA GraphInvariant == Spec => []GraphInv
<1>1. Init => GraphInv
  BY DEF Init, GraphInv, GraphClosed, NamesRegistered, Acyclic
<1>2. TypeOK /\ TypeOK' /\ Owners /\ GraphInv /\ [Next]_vars => GraphInv'
  <2> SUFFICES ASSUME TypeOK, TypeOK', Owners, GraphInv, [Next]_vars PROVE GraphInv'
    OBVIOUS
  <2>1. IndexGrows /\ GraphClosed' /\ Acyclic(artifacts') /\ (AdmitsNone \/ \E j \in Job : Admits(j))
    BY GraphSteps DEF GraphStep
  <2>2. DOMAIN artifacts \subseteq DOMAIN artifacts' /\ NamesRegistered
    BY <2>1 DEF IndexGrows, GraphInv
  <2>3. CASE AdmitsNone
    <3>1. ASSUME NEW j \in DOMAIN jobs'
          PROVE  /\ (JobDependencies(j) \cup jobs[j].result.artifacts \subseteq DOMAIN artifacts)'
                 /\ jobs'[j].state # "completed" => jobs'[j].result = NoResult
      BY <2>2, <2>3 DEF AdmitsNone, NamesRegistered, JobDependencies, JobInputs
    <3>2. \A n \in DOMAIN notices' : notices'[n].root \in DOMAIN artifacts'
      BY <2>2, <2>3 DEF AdmitsNone, NamesRegistered
    <3>3. QED
      BY <2>1, <3>1, <3>2 DEF GraphInv, NamesRegistered
  <2>4. ASSUME NEW j \in Job, Admits(j) PROVE GraphInv'
    <3>1. AdmittedRefs(j) \subseteq DOMAIN artifacts'
      BY <2>4 DEF Admits, JobUsable
    <3>2. ASSUME NEW i \in DOMAIN jobs'
          PROVE  /\ (JobDependencies(i) \cup jobs[i].result.artifacts \subseteq DOMAIN artifacts)'
                 /\ jobs'[i].state # "completed" => jobs'[i].result = NoResult
      BY <2>2, <2>4, <3>1 DEF Admits, AdmittedRefs, NamesRegistered, JobDependencies, JobInputs
    <3>3. \A n \in DOMAIN notices' : notices'[n].root \in DOMAIN artifacts'
      BY <2>2, <2>4 DEF Admits, NamesRegistered
    <3>4. QED
      BY <2>1, <3>2, <3>3 DEF GraphInv, NamesRegistered
  <2>5. QED
    BY <2>1, <2>3, <2>4
<1>3. QED
  BY <1>1, <1>2, TypeCorrect, OwnersInvariant, PTL DEF Spec

\* The index is closed under dependencies, holds every embedded reference and has no
\* cycle, whatever was declared explicitly (State.install).
THEOREM GraphStaysSound == Spec => []GraphSound
<1>1. TypeOK /\ GraphInv => GraphSound
  <2> SUFFICES ASSUME TypeOK, GraphInv PROVE GraphSound
    OBVIOUS
  <2>1. DOMAIN artifacts \subseteq Artifact /\ GraphClosed /\ Acyclic(artifacts)
    BY DEF TypeOK, GraphInv
  <2>2. \A a \in DOMAIN artifacts : a \notin Closure(artifacts[a], Known(artifacts))
    BY <2>1, AcyclicHasNoCycle DEF GraphClosed
  <2>3. QED
    BY <2>1, <2>2 DEF GraphSound, GraphClosed, Known
<1>2. QED
  BY <1>1, GraphInvariant, TypeCorrect, PTL

-----------------------------------------------------------------------------
(* Quarantine: what a notice affects.                                      *)

\* T holds every dependent of its members, and the result of every job of the table
\* that consumed one or rests on one as evidence.
Consumed(j, table) == JobInputs(j) \cup table[j].result.evidence

Spreads(T, index, table) ==
    /\ \A a \in DOMAIN index : index[a] \cap T # {} => a \in T
    /\ \A j \in DOMAIN table : Consumed(j, table) \cap T # {} => table[j].result.artifacts \subseteq T

\* Affected, of a table of jobs that is named.
AffectedIn(root, index, table) ==
    {a \in DOMAIN index : \A T \in SUBSET (DOMAIN index \cup {root}) :
                             root \in T /\ Spreads(T, index, table) => a \in T}

LEMMA AffectedSets ==
    ASSUME NEW root, NEW index, NEW table
    PROVE  {T \in {U \cup {root} : U \in SUBSET (DOMAIN index \ {root})} : Spreads(T, index, table)}
             = {T \in SUBSET (DOMAIN index \cup {root}) : root \in T /\ Spreads(T, index, table)}
<1>1. ASSUME NEW T \in SUBSET (DOMAIN index \cup {root}), root \in T
      PROVE  T \in {U \cup {root} : U \in SUBSET (DOMAIN index \ {root})}
  <2>1. T = (T \ {root}) \cup {root} /\ T \ {root} \in SUBSET (DOMAIN index \ {root})
    BY <1>1
  <2>2. QED
    BY <2>1
<1>2. ASSUME NEW T \in {U \cup {root} : U \in SUBSET (DOMAIN index \ {root})}
      PROVE  T \in SUBSET (DOMAIN index \cup {root}) /\ root \in T
  OBVIOUS
<1>3. QED
  BY <1>1, <1>2

LEMMA AffectedIs ==
    ASSUME NEW root, NEW index
    PROVE  Affected(root, index) = AffectedIn(root, index, jobs)
<1>1. Affected(root, index) =
        LET closed == {T \in {U \cup {root} : U \in SUBSET (DOMAIN index \ {root})} :
                          Spreads(T, index, jobs)}
        IN  {a \in DOMAIN index : \A T \in closed : a \in T}
  BY DEF Affected, Spreads, Consumed, JobDependencies
<1>2. QED
  BY <1>1, AffectedSets DEF AffectedIn

LEMMA AffectedNextIs ==
    ASSUME NEW root
    PROVE  Affected(root, artifacts)' = AffectedIn(root, artifacts', jobs')
<1>1. Affected(root, artifacts)' =
        LET closed == {T \in {U \cup {root} : U \in SUBSET (DOMAIN artifacts' \ {root})} :
                          Spreads(T, artifacts', jobs')}
        IN  {a \in DOMAIN artifacts' : \A T \in closed : a \in T}
  BY DEF Affected, Spreads, Consumed, JobDependencies, JobInputs
<1>2. QED
  BY <1>1, AffectedSets DEF AffectedIn

\* The affected artifacts are a spreading set that holds the root, and the least one.
LEMMA AffectedSpreads ==
    ASSUME NEW index, NEW table, NEW root \in DOMAIN index,
           \A j \in DOMAIN table : table[j].result.artifacts \subseteq DOMAIN index
    PROVE  root \in AffectedIn(root, index, table) /\ Spreads(AffectedIn(root, index, table), index, table)
<1> DEFINE A == AffectedIn(root, index, table)
<1>1. root \in A
  BY DEF AffectedIn
<1>2. ASSUME NEW a \in DOMAIN index, index[a] \cap A # {} PROVE a \in A
  <2>1. PICK b \in index[a] : b \in A
    BY <1>2
  <2>2. ASSUME NEW T \in SUBSET (DOMAIN index \cup {root}), root \in T, Spreads(T, index, table)
        PROVE  a \in T
    <3>1. b \in T
      BY <2>1, <2>2 DEF AffectedIn
    <3>2. QED
      BY <2>1, <2>2, <3>1 DEF Spreads
  <2>3. QED
    BY <2>2 DEF AffectedIn
<1>3. ASSUME NEW j \in DOMAIN table, Consumed(j, table) \cap A # {}
      PROVE  table[j].result.artifacts \subseteq A
  <2>1. PICK b \in Consumed(j, table) : b \in A
    BY <1>3
  <2>2. ASSUME NEW T \in SUBSET (DOMAIN index \cup {root}), root \in T, Spreads(T, index, table)
        PROVE  table[j].result.artifacts \subseteq T
    <3>1. b \in T
      BY <2>1, <2>2 DEF AffectedIn
    <3>2. QED
      BY <2>1, <2>2, <3>1 DEF Spreads
  <2>3. QED
    BY <2>2 DEF AffectedIn
<1>4. QED
  BY <1>1, <1>2, <1>3 DEF Spreads

LEMMA AffectedLeast ==
    ASSUME NEW index, NEW table, NEW root \in DOMAIN index, NEW T \in SUBSET DOMAIN index,
           root \in T, Spreads(T, index, table)
    PROVE  AffectedIn(root, index, table) \subseteq T
  BY DEF AffectedIn

\* New artifacts, and jobs without a result, leave the known artifacts as clean as they
\* were: what is known depends on known artifacts only.
LEMMA GrowthSpares ==
    ASSUME NEW index, NEW more, NEW table, NEW others, NEW root \in DOMAIN index,
           DOMAIN index \subseteq DOMAIN more,
           \A a \in DOMAIN index : more[a] = index[a] /\ index[a] \subseteq DOMAIN index,
           \A j \in DOMAIN table : Consumed(j, table) \cup table[j].result.artifacts \subseteq DOMAIN index,
           \A j \in DOMAIN others :
              \/ j \in DOMAIN table /\ others[j].result = table[j].result
              \/ others[j].result.artifacts = {}
    PROVE  AffectedIn(root, more, others) \cap DOMAIN index \subseteq AffectedIn(root, index, table)
<1> DEFINE A == AffectedIn(root, index, table)
           T == A \cup (DOMAIN more \ DOMAIN index)
<1>1. root \in A /\ Spreads(A, index, table)
  BY AffectedSpreads
<1>2. A \subseteq DOMAIN index
  BY DEF AffectedIn
<1> HIDE DEF A
<1>3. T \in SUBSET DOMAIN more /\ root \in T
  BY <1>1, <1>2
<1>4. \A a \in DOMAIN more : more[a] \cap T # {} => a \in T
  BY <1>1 DEF Spreads
<1>5. ASSUME NEW j \in DOMAIN others, Consumed(j, others) \cap T # {}
      PROVE  others[j].result.artifacts \subseteq T
  <2>1. CASE j \in DOMAIN table /\ others[j].result = table[j].result
    <3>1. Consumed(j, others) = Consumed(j, table) /\ Consumed(j, table) \subseteq DOMAIN index
      BY <2>1 DEF Consumed
    <3>2. Consumed(j, table) \cap A # {}
      BY <1>5, <3>1
    <3>3. QED
      BY <1>1, <2>1, <3>2 DEF Spreads
  <2>2. QED
    BY <2>1
<1>6. Spreads(T, more, others)
  BY <1>4, <1>5 DEF Spreads
<1> HIDE DEF T
<1>7. AffectedIn(root, more, others) \subseteq T
  BY <1>3, <1>6, AffectedLeast
<1>8. QED
  BY <1>7 DEF T, A

\* A job whose inputs and evidence are clean affects nothing by its result.
LEMMA ResultSpares ==
    ASSUME NEW index, NEW table, NEW others, NEW root \in DOMAIN index, NEW j,
           \A i \in DOMAIN table : table[i].result.artifacts \subseteq DOMAIN index,
           \A i \in DOMAIN others : i # j => i \in DOMAIN table /\ others[i] = table[i],
           Consumed(j, others) \cap AffectedIn(root, index, table) = {}
    PROVE  AffectedIn(root, index, others) \subseteq AffectedIn(root, index, table)
<1> DEFINE A == AffectedIn(root, index, table)
<1>1. root \in A /\ Spreads(A, index, table)
  BY AffectedSpreads
<1>2. A \in SUBSET DOMAIN index
  BY DEF AffectedIn
<1>3. Consumed(j, others) \cap A = {}
  OBVIOUS
<1> HIDE DEF A
<1>4. \A i \in DOMAIN others : i # j => Consumed(i, others) = Consumed(i, table)
  BY DEF Consumed
<1>5. Spreads(A, index, others)
  BY <1>1, <1>3, <1>4 DEF Spreads
<1>6. AffectedIn(root, index, others) \subseteq A
  BY <1>1, <1>2, <1>5, AffectedLeast
<1>7. QED
  BY <1>6 DEF A

-----------------------------------------------------------------------------
(* Quarantine: what a step admits, and what it affects.                    *)

\* The roots a job may ignore, and those it may not, in the state a step leaves.
LEMMA RootsNext ==
    ASSUME NEW j
    PROVE  /\ IgnoredRoots(j, artifacts)' = IgnoredRoots(j, artifacts')
           /\ Guarded(j, artifacts)' = Guarded(j, artifacts')
           /\ Scoped(j)' = Scoped(j)
  BY DEF IgnoredRoots, Guarded, Scoped, SubjectClosure, Closure

\* A notice that an admitted job may not ignore affects none of its artifacts, and
\* affects no more for the results the job brings.
LEMMA AdmissionSpares ==
    ASSUME GraphInv, GraphStep, NEW j, Admits(j), NEW n \in ActiveNotices,
           notices[n].root \notin IgnoredRoots(j, artifacts')
    PROVE  /\ AdmittedRefs(j) \cap AffectedIn(notices[n].root, artifacts', jobs) = {}
           /\ AffectedIn(notices[n].root, artifacts', jobs')
                \subseteq AffectedIn(notices[n].root, artifacts', jobs)
<1> DEFINE root == notices[n].root
<1>1. DOMAIN artifacts \subseteq DOMAIN artifacts'
  BY DEF GraphStep, IndexGrows
<1>2. root \in DOMAIN artifacts'
  BY <1>1 DEF GraphInv, NamesRegistered, ActiveNotices
<1>3. \A i \in DOMAIN jobs : jobs[i].result.artifacts \subseteq DOMAIN artifacts'
  BY <1>1 DEF GraphInv, NamesRegistered
<1>4. AdmittedRefs(j) \cap AffectedIn(root, artifacts', jobs) = {}
  <2>1. AdmittedRefs(j) \cap Affected(root, artifacts') = {}
    BY DEF Admits, JobUsable
  <2>2. QED
    BY <2>1, AffectedIs
<1>5. Consumed(j, jobs') \cap AffectedIn(root, artifacts', jobs) = {}
  BY <1>4 DEF Consumed, AdmittedRefs
<1>6. \A i \in DOMAIN jobs' : i # j => i \in DOMAIN jobs /\ jobs'[i] = jobs[i]
  BY DEF Admits
<1> HIDE DEF root
<1>7. AffectedIn(root, artifacts', jobs') \subseteq AffectedIn(root, artifacts', jobs)
  BY <1>2, <1>3, <1>5, <1>6, ResultSpares
<1>8. QED
  BY <1>4, <1>7 DEF root

\* A step admits the job it checked, and no other.
LEMMA AdmittedOne ==
    ASSUME GraphStep, NEW j \in AdmittedByStep
    PROVE  Admits(j)
<1>1. j \in DOMAIN jobs' /\ Admitted(j)' /\ ~(Admitted(j) /\ jobs'[j] = jobs[j])
  BY DEF AdmittedByStep
<1>2. CASE AdmitsNone
  BY <1>1, <1>2 DEF AdmitsNone, Admitted
<1>3. ASSUME NEW i, Admits(i) PROVE Admits(j)
  BY <1>1, <1>3 DEF Admits, Admitted
<1>4. QED
  BY <1>2, <1>3 DEF GraphStep

\* The step predicate and the invariants hold of every step of a behaviour.
LEMMA GraphAlways == Spec => [][TypeOK /\ GraphInv /\ GraphInv' /\ GraphStep]_vars
<1>1. TypeOK /\ Owners /\ GraphInv /\ GraphInv' /\ [Next]_vars
        => [TypeOK /\ GraphInv /\ GraphInv' /\ GraphStep]_vars
  BY GraphSteps
<1>2. QED
  BY <1>1, TypeCorrect, OwnersInvariant, GraphInvariant, PTL DEF Spec

\* No ordinary job is queued, started or completed by a step after which an active
\* notice affects what it takes in or brings (State.usable, job_usable).
THEOREM AdmissionStaysClean == Spec => AdmissionClean
<1>1. ASSUME GraphInv, GraphStep, NEW j \in AdmittedByStep, ~Scoped(j), NEW n \in ActiveNotices'
      PROVE  (JobDependencies(j)' \cup jobs'[j].result.artifacts)
                \cap Affected(notices[n].root, artifacts)' = {}
  <2>1. Admits(j)
    BY <1>1, AdmittedOne
  <2>2. n \in ActiveNotices /\ notices' = notices
    BY <1>1, <2>1 DEF Admits, ActiveNotices
  <2>3. PICK root : root = notices[n].root
    OBVIOUS
  <2>4. root \notin IgnoredRoots(j, artifacts')
    BY <1>1 DEF IgnoredRoots
  <2>5. AdmittedRefs(j) \cap AffectedIn(root, artifacts', jobs') = {}
    BY <1>1, <2>1, <2>2, <2>3, <2>4, AdmissionSpares
  <2>6. JobDependencies(j)' \cup jobs'[j].result.artifacts = AdmittedRefs(j)
    BY DEF JobDependencies, JobInputs, AdmittedRefs
  <2>7. Affected(notices[n].root, artifacts)' = Affected(root, artifacts)'
    BY <2>2, <2>3 DEF Affected, JobDependencies, JobInputs
  <2>8. QED
    BY <2>5, <2>6, <2>7, AffectedNextIs
<1>2. TypeOK /\ GraphInv /\ GraphInv' /\ GraphStep
        => \A j \in AdmittedByStep : ~Scoped(j) =>
              \A n \in ActiveNotices' :
                 (JobDependencies(j)' \cup jobs'[j].result.artifacts)
                    \cap Affected(notices[n].root, artifacts)' = {}
  BY <1>1
<1>3. QED
  BY <1>2, GraphAlways, PTL DEF AdmissionClean

\* A notice at the configuration, the scope or a protected reference of a historical
\* audit stops the audit (historical.ignored_roots).
THEOREM ScopeStaysProtected == Spec => ProtectedScopeBlocks
<1>1. ASSUME GraphInv, GraphInv', GraphStep, NEW j \in AdmittedByStep, Scoped(j),
             NEW n \in ActiveNotices', notices'[n].root \in Guarded(j, artifacts')
      PROVE  FALSE
  <2>1. Admits(j)
    BY <1>1, AdmittedOne
  <2>2. n \in ActiveNotices /\ notices' = notices
    BY <1>1, <2>1 DEF Admits, ActiveNotices
  <2>3. PICK root : root = notices[n].root
    OBVIOUS
  <2>4. root \in Guarded(j, artifacts') /\ root \notin IgnoredRoots(j, artifacts')
    BY <1>1, <2>2, <2>3 DEF IgnoredRoots
  <2>5. AdmittedRefs(j) \cap AffectedIn(root, artifacts', jobs) = {}
    BY <1>1, <2>1, <2>2, <2>3, <2>4, AdmissionSpares
  <2>6. Configuration[j] \in AdmittedRefs(j)
    BY DEF AdmittedRefs, JobInputs
  <2>7. Configuration[j] \in DOMAIN artifacts'
    BY <2>1, <2>6 DEF Admits, JobUsable
  <2>8. root \in DOMAIN artifacts' /\ \A i \in DOMAIN jobs : jobs[i].result.artifacts \subseteq DOMAIN artifacts'
    BY <1>1, <2>2, <2>3 DEF GraphInv, NamesRegistered, GraphStep, IndexGrows, ActiveNotices
  <2>9. /\ root \in AffectedIn(root, artifacts', jobs)
        /\ \A a \in DOMAIN artifacts' :
              artifacts'[a] \cap AffectedIn(root, artifacts', jobs) # {}
                 => a \in AffectedIn(root, artifacts', jobs)
    BY <2>8, AffectedSpreads DEF Spreads
  <2>10. \A a \in DOMAIN artifacts' : artifacts'[a] \subseteq DOMAIN artifacts'
    BY <1>1 DEF GraphInv, GraphClosed
  <2>11. Configuration[j] \in AffectedIn(root, artifacts', jobs)
    <3>1. CASE root = Configuration[j]
      BY <2>9, <3>1
    <3>2. CASE root \in artifacts'[Configuration[j]]
      BY <2>7, <2>9, <3>2
    <3>3. CASE \E g \in artifacts'[Configuration[j]] : root \in artifacts'[g]
      BY <2>7, <2>9, <2>10, <3>3
    <3>4. QED
      BY <2>4, <3>1, <3>2, <3>3 DEF Guarded
  <2>12. QED
    BY <2>5, <2>6, <2>11
<1>2. TypeOK /\ GraphInv /\ GraphInv' /\ GraphStep
        => \A j \in AdmittedByStep : Scoped(j) =>
              \A n \in ActiveNotices' : notices'[n].root \notin Guarded(j, artifacts)'
  BY <1>1, RootsNext
<1>3. QED
  BY <1>2, GraphAlways, PTL DEF ProtectedScopeBlocks

\* An artifact that was registered and clean becomes affected by an active notice only
\* when a historical audit that may ignore the notice completes (State.affected).
THEOREM QuarantineStaysContained == Spec => QuarantineContained
<1>1. ASSUME GraphInv, GraphStep, NEW n \in ActiveNotices, notices'[n].active,
             \A j \in AdmittedByStep : notices[n].root \notin IgnoredRoots(j, artifacts')
      PROVE  Affected(notices[n].root, artifacts)' \cap DOMAIN artifacts
                \subseteq Affected(notices[n].root, artifacts)
  <2>1. PICK root : root = notices[n].root
    OBVIOUS
  <2>2. root \in DOMAIN artifacts /\ notices'[n].root = root
    BY <1>1, <2>1 DEF GraphInv, NamesRegistered, ActiveNotices, GraphStep, AdmitsNone, Admits
  <2>3. Affected(notices[n].root, artifacts)' = AffectedIn(root, artifacts', jobs')
    <3>1. Affected(notices[n].root, artifacts)' = Affected(root, artifacts)'
      BY <2>2 DEF Affected, JobDependencies, JobInputs
    <3>2. QED
      BY <3>1, AffectedNextIs
  <2>4. Affected(notices[n].root, artifacts) = AffectedIn(root, artifacts, jobs)
    BY <2>1, AffectedIs
  <2>5. /\ DOMAIN artifacts \subseteq DOMAIN artifacts'
        /\ \A a \in DOMAIN artifacts :
              artifacts'[a] = artifacts[a] /\ artifacts[a] \subseteq DOMAIN artifacts
        /\ \A j \in DOMAIN jobs :
              Consumed(j, jobs) \cup jobs[j].result.artifacts \subseteq DOMAIN artifacts
    BY <1>1 DEF GraphStep, IndexGrows, GraphInv, GraphClosed, NamesRegistered, Consumed, JobDependencies
  <2>6. CASE AdmitsNone
    <3>1. \A j \in DOMAIN jobs' : j \in DOMAIN jobs /\ jobs'[j].result = jobs[j].result
      BY <2>6 DEF AdmitsNone
    <3>2. AffectedIn(root, artifacts', jobs') \cap DOMAIN artifacts \subseteq AffectedIn(root, artifacts, jobs)
      BY <2>2, <2>5, <3>1, GrowthSpares
    <3>3. QED
      BY <2>3, <2>4, <3>2
  <2>7. ASSUME NEW j \in Job, Admits(j)
        PROVE  AffectedIn(root, artifacts', jobs') \cap DOMAIN artifacts
                  \subseteq AffectedIn(root, artifacts, jobs)
    <3>1. j \in AdmittedByStep
      BY <2>7 DEF Admits, AdmittedByStep, Admitted
    <3>2. AffectedIn(root, artifacts', jobs') \subseteq AffectedIn(root, artifacts', jobs)
      BY <1>1, <2>1, <2>7, <3>1, AdmissionSpares
    <3>3. AffectedIn(root, artifacts', jobs) \cap DOMAIN artifacts \subseteq AffectedIn(root, artifacts, jobs)
      BY <2>2, <2>5, GrowthSpares
    <3>4. QED
      BY <3>2, <3>3
  <2>8. QED
    BY <1>1, <2>3, <2>4, <2>6, <2>7 DEF GraphStep
<1>2. TypeOK /\ GraphInv /\ GraphInv' /\ GraphStep
        => \A n \in ActiveNotices :
              \/ ~notices'[n].active
              \/ \E j \in AdmittedByStep : notices[n].root \in IgnoredRoots(j, artifacts)'
              \/ Affected(notices[n].root, artifacts)' \cap DOMAIN artifacts
                    \subseteq Affected(notices[n].root, artifacts)
  BY <1>1, RootsNext
<1>3. QED
  BY <1>2, GraphAlways, PTL DEF QuarantineContained
=============================================================================

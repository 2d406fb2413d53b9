---------------------------- MODULE FactoryProofs ----------------------------
(***************************************************************************)
(* Theorems about MCFactory, the controllers of the Factory side by side,  *)
(* for every number of processes, calls, revisions and roots, whatever     *)
(* the caps, and every bound on calls and faults.                          *)
(***************************************************************************)
EXTENDS MCFactory, FiniteSetTheorems, SequenceTheorems, TLAPS

IsRow(s) == \E S : s \in Seq(S)

Processes ==
    DOMAIN pc = Process /\ DOMAIN me = Process /\ DOMAIN retained = Process

\* A job has had an attempt.
Attempted(j) == job[j].state \notin {"absent", "queued"}

\* What the attempt of j is for was done n times; the processes S are about to do it.
Once(n, j, S) ==
    /\ n \in 0..1
    /\ ~Attempted(j) => n = 0
    /\ S # {} => Attempted(j) /\ n = 0
    /\ \A p, q \in S : p = q

\* A step of p leaves the others where they are.
Apart(p) ==
    /\ Processes'
    /\ \A q \in Process \ {p} : pc'[q] = pc[q] /\ me'[q] = me[q] /\ retained'[q] = retained[q]

-----------------------------------------------------------------------------
(* Authoring.                                                              *)

Calls == Authoring!Calls
Request == Authoring!Request
Cost == Authoring!Cost
Statuses == {Authoring!Fresh, Authoring!Replayed}

AuthorTables ==
    /\ Processes
    /\ DOMAIN rows = Calls /\ DOMAIN job = Calls /\ DOMAIN runs = Calls /\ DOMAIN outcome = Calls
    /\ \A c \in Calls : IsRow(rows[c]) /\ DOMAIN job[c] = DOMAIN Absent
    /\ \A p \in Process : pc[p] # "idle" =>
          me[p].call \in Calls
          /\ DOMAIN me[p] = {"call", "holds", "status", "replay", "receipt", "seen"}

\* One process is between the claim and the run, and nobody ran before.
Running(c) == {p \in Process : pc[p] \in {"intent", "attempt", "run"} /\ me[p].call = c}
AuthorRuns == \A c \in Calls : Once(runs[c], c, Running(c))

\* The receipt r was made of what is on record of c.
Drawn(c, r) == r[1] = "receipt" /\ {Request, Cost, r[2][1]} \subseteq Newest(c)

AuthorRecord(c) ==
    /\ Newest(c) \cap Statuses # {} => {Request, Cost} \subseteq Newest(c)
    /\ \A r \in Newest(c) : r[1] = "receipt" => Drawn(c, r)
    /\ job[c].state = "completed" =>
          job[c].result \in job[c].bound /\ {Request, Cost, job[c].result[2][1]} \subseteq job[c].bound

\* What a call at a place has behind it, by its memory m.
AuthorPlace(place, m) ==
    /\ place \in {"attempt", "run", "cost", "status", "attempt again"} => Request \in Newest(m.call)
    /\ place = "status" => Cost \in Newest(m.call)
    /\ place = "journal" => m.status \in Statuses \cap Newest(m.call)
    /\ place \in {"select", "freeze", "gather", "complete"} => Drawn(m.call, m.receipt)
    /\ place \in {"gather", "complete"} => m.receipt \in Newest(m.call)

\* So does the exception a process retains.
AuthorRetained(x) ==
    x # Nothing =>
        /\ x.call \in Calls
        /\ x.kind = "provider" => Request \in Newest(x.call)
        /\ x.kind = "artifact" => x.receipt \in Statuses \cap Newest(x.call)
        /\ x.kind = "journal" => Newest(x.call) \cap Statuses # {}
        /\ x.kind = "receipt" => Drawn(x.call, x.receipt)

\* Who may enqueue holds the batch and has seen that the candidate has no other call open.
AuthorLocked ==
    /\ \A p, q \in Process :
          /\ pc[p] # "idle" /\ Authoring!BatchLock \in me[p].holds
          /\ pc[q] # "idle" /\ Authoring!BatchLock \in me[q].holds
          => p = q
    /\ \A p \in Process : pc[p] \in {"look up", "enqueue"} => Authoring!BatchLock \in me[p].holds
    /\ \A p \in Process : pc[p] = "enqueue" =>
          \A d \in Calls : d # me[p].call /\ Authoring!Candidate(d) = Authoring!Candidate(me[p].call) => ~Open(d)

AuthorInv ==
    /\ AuthorTables
    /\ AuthorRuns
    /\ \A c \in Calls : AuthorRecord(c)
    /\ \A p \in Process : AuthorPlace(pc[p], me[p]) /\ AuthorRetained(retained[p])
    /\ AuthorLocked
    /\ Authoring!OneCallOpen

-----------------------------------------------------------------------------
(* Construction.                                                           *)

Jobs == Construction!Jobs
SourceJob(r) == Construction!SourceJob(r)
ConstructJob(r) == Construction!ConstructJob(r)
BuildJob(r) == Construction!BuildJob(r)

ConstructTables ==
    /\ Processes
    /\ DOMAIN rows = Jobs /\ DOMAIN job = Jobs /\ DOMAIN made = Jobs /\ DOMAIN key = Jobs
    /\ DOMAIN assembled = Revision
    /\ \A j \in Jobs : IsRow(rows[j]) /\ Len(rows[j]) <= 2 /\ DOMAIN job[j] = DOMAIN Absent /\ made[j] \in Nat
    /\ \A p \in Process : pc[p] # "idle" =>
          me[p].rev \in Revision /\ DOMAIN me[p] = {"rev", "goal", "holds", "receipt", "builder", "nonce"}
    /\ \A p \in Process : retained[p] # Nothing => retained[p].job \in Jobs

\* One revision imports the candidate's costs; who may enqueue the import holds the candidate.
Importing ==
    /\ \A p, q \in Process :
          /\ pc[p] # "idle" /\ Construction!Lock \in me[p].holds
          /\ pc[q] # "idle" /\ Construction!Lock \in me[q].holds
          => p = q
    /\ \A p \in Process : pc[p] \in {"source look up", "source enqueue"} => Construction!Lock \in me[p].holds
    /\ \A p \in Process : pc[p] = "source enqueue" =>
          \A s \in Revision \ {me[p].rev} : job[SourceJob(s)].state = "absent"
    /\ \A p \in Process : pc[p] = "source intent" => job[SourceJob(me[p].rev)].state # "absent"
    /\ \A r \in Revision : rows[SourceJob(r)] # <<>> => job[SourceJob(r)].state # "absent"
    /\ \A r, s \in Revision : job[SourceJob(r)].state # "absent" /\ job[SourceJob(s)].state # "absent" => r = s

\* One drawn intent of a build gets its first revision, and who drew it assembles.
Announced(r, n) == rows[BuildJob(r)] # <<>> /\ rows[BuildJob(r)][1] = {Construction!Intent(n)}

Assembling ==
    /\ \A r \in Revision :
          /\ assembled[r] \in 0..1
          /\ rows[BuildJob(r)] = <<>> => assembled[r] = 0
          /\ rows[BuildJob(r)] # <<>> => \E n \in 0..made[BuildJob(r)] : Announced(r, n)
    /\ \A p \in Process : pc[p] \in {"build observe", "assemble"} => me[p].nonce \in 1..made[BuildJob(me[p].rev)]
    /\ \A p \in Process : pc[p] = "build observe" => ~Announced(me[p].rev, me[p].nonce)
    /\ \A p \in Process : pc[p] = "assemble" => Announced(me[p].rev, me[p].nonce) /\ assembled[me[p].rev] = 0
    /\ \A p, q \in Process :
          /\ pc[p] \in {"build observe", "assemble"} /\ pc[q] \in {"build observe", "assemble"}
          /\ me[p].rev = me[q].rev /\ me[p].nonce = me[q].nonce
          => p = q

\* The build of r completed with this outcome.
BuiltAs(r, o) == job[BuildJob(r)].state = "completed" /\ job[BuildJob(r)].result = o

Building ==
    /\ \A p \in Process : pc[p] = "construct enqueue" => eligible
    /\ \A p \in Process : pc[p] = "build finish" =>
          Len(rows[BuildJob(me[p].rev)]) = 2 /\ me[p].receipt \in Newest(BuildJob(me[p].rev))
    /\ \A p \in Process : pc[p] = "construct finish" /\ inputs = "match" =>
          BuiltAs(me[p].rev, Construction!Value(me[p].receipt))
    /\ \A r \in Revision :
          /\ job[BuildJob(r)].state = "completed" => job[BuildJob(r)].result \in job[BuildJob(r)].bound
          /\ job[ConstructJob(r)].state # "absent" => eligible
          /\ job[ConstructJob(r)].state = "completed" =>
                /\ job[ConstructJob(r)].result \in job[ConstructJob(r)].bound
                /\ inputs = "match" => BuiltAs(r, Construction!Value(job[ConstructJob(r)].result))

ConstructInv == ConstructTables /\ Importing /\ Assembling /\ Building

-----------------------------------------------------------------------------
(* Grading.                                                                *)

TheGrade == Grade!Grade

GradeTables ==
    /\ Processes
    /\ DOMAIN rows = {TheGrade} /\ DOMAIN job = {TheGrade}
    /\ IsRow(rows[TheGrade]) /\ DOMAIN job[TheGrade] = DOMAIN Absent

\* One process is between the claim and the worker, and no worker ran before.
GradeRuns == Once(runs, TheGrade, {p \in Process : pc[p] \in {"intent", "worker"}})

Decided == verdict # "none"

GradeRecord ==
    /\ Decided => runs = 1
    /\ Newest(TheGrade) \ {Grade!Request} # {} => Decided
    /\ Grade!Original \in Newest(TheGrade) => Grade!Request \in Newest(TheGrade)
    /\ Grade!GradeBindsOriginal

\* What is retained or recorded is of the worker's one verdict.
GradePlace(place) ==
    /\ place \in {"retain", "retain link", "republish", "record", "record original"} => Decided
    /\ place = "record original" => Grade!Request \in Newest(TheGrade)
    /\ place = "complete" => {Grade!Request, Grade!Original, Grade!FrozenGrade} \subseteq Newest(TheGrade)

GradeInv ==
    /\ GradeTables
    /\ GradeRuns
    /\ GradeRecord
    /\ \A p \in Process : GradePlace(pc[p]) /\ (retained[p] # Nothing => Decided)

-----------------------------------------------------------------------------
(* Auditing.                                                               *)

AuditJob == Audit!AuditJob
IsOutcome(o) == o \in {Audit!Report(D) : D \in SUBSET Root} \cup {Audit!Failure}
FrozenAs(o) == IsOutcome(o) /\ rows[AuditJob] = <<{Audit!Configuration, o}>>

AuditTables ==
    /\ Processes
    /\ DOMAIN rows = {AuditJob} /\ DOMAIN job = {AuditJob} /\ DOMAIN notice = Root
    /\ DOMAIN job[AuditJob] = DOMAIN Absent
    /\ rows[AuditJob] = <<>> \/ \E o : FrozenAs(o)

\* One process is between the claim and the summing up, and nobody summed up before.
AuditRuns == Once(executions, AuditJob, {p \in Process : pc[p] = "execute"})

\* The roots of R have their notice.
Noticed(R) == \A r \in R : notice[r] # "absent"

\* What an audit at a place has behind it, by its memory m.
AuditPlace(place, m) ==
    /\ place \in {"publish", "effects"} =>
          DOMAIN m = {"holds", "outcome", "todo"} /\ IsOutcome(m.outcome) /\ Noticed(m.outcome[2] \ m.todo)
    /\ place = "effects" => FrozenAs(m.outcome)

AuditDone ==
    job[AuditJob].state = "completed" => FrozenAs(job[AuditJob].result) /\ Noticed(job[AuditJob].result[2])

AuditInv ==
    /\ AuditTables
    /\ AuditRuns
    /\ \A p \in Process : AuditPlace(pc[p], me[p]) /\ (retained[p] # Nothing => IsOutcome(retained[p]))
    /\ AuditDone

-----------------------------------------------------------------------------
(* Release.                                                                *)

\* An artifact has yet to be found usable.
In(a, todo) == \E i \in DOMAIN todo : todo[i] = a

\* The artifacts of the store: a report that says success has read evidence that is
\* complete; a task past "built" has such a report of its own.
ReportShape(r) ==
    /\ r = [kind |-> "report", of |-> r.of, policy |-> r.policy, by |-> r.by, read |-> r.read,
            success |-> r.success, call |-> r.call]
    /\ r.success => r.read /\ r.of \in Sound
Backed(t) == ReportShape(t.report) /\ t.report.success /\ t.report.of = t.of
TaskShape(t) ==
    /\ t = Released!Manifest(t.of, t.state, t.report) /\ t.state \in {"built", "qualified", "released"}
    /\ t.state # "built" => Backed(t)

\* A released task was qualified by the same report.
Sequenced(t) ==
    t.state = "released" => Released!Manifest(t.of, "qualified", t.report) \in DOMAIN registered

StoreInv ==
    /\ \A a \in artifacts : TaskShape(a) \/ ReportShape(a)
    /\ \A t \in artifacts : t.kind = "task" => Sequenced(t)
    /\ registered = [a \in DOMAIN registered |-> registered[a]]
    /\ \A r \in DOMAIN registered : r.kind = "report" =>
          Released!Intrinsic(r) \cup Released!Declared(r) \subseteq registered[r]

\* What is clean under the notices in force since an operation began, and stays so: an
\* artifact, a report with all it names.
Clean(a, seen) ==
    /\ a \notin seen
    /\ a.kind = "report" => (Released!Intrinsic(a) \cup Released!Declared(a)) \cap seen = {}

OperationShape(o) ==
    o = [at |-> o.at, task |-> o.task, report |-> o.report, policy |-> o.policy, by |-> o.by,
         todo |-> o.todo, seen |-> o.seen]

\* What an operation knows at each of its steps.
Operation(o) ==
    /\ OperationShape(o) /\ IsRow(o.todo) /\ o.seen \subseteq revoked
    /\ o.at \in {"validate", "declare", "transition", "publish", "resolve"}
    /\ o.at = "declare" => ReportShape(o.report)
    /\ o.at \in {"transition", "publish", "resolve"} => TaskShape(o.task) /\ ReportShape(o.report)
    /\ o.at = "transition" =>
          /\ o.task.state \in {"built", "qualified"}
          /\ o.task.state = "qualified" => o.task.report = o.report
          /\ In(o.task, o.todo) \/ o.task \in DOMAIN registered
    /\ o.at = "publish" => o.task.report = o.report /\ o.task.state \in {"qualified", "released"}
    /\ o.at = "resolve" =>
          /\ o.task.state = "released" /\ o.task.report = o.report
          /\ \A a \in {o.task, o.report, Released!Verifier(o.report.of)} :
                In(a, o.todo) \/ Clean(a, o.seen)

Operations ==
    /\ doing = [p \in Controller |-> doing[p]]
    /\ \A p \in Controller : doing[p] # Nothing => Operation(doing[p])

ReleaseInv == StoreInv /\ Operations /\ Released!ResolvedStands

-----------------------------------------------------------------------------
(* The controllers side by side.                                           *)

FactoryInv ==
    /\ route \in {"author", "construct", "grade", "audit", "release"}
    /\ route = "author" => AuthorInv
    /\ route = "construct" => ConstructInv
    /\ route = "grade" => GradeInv
    /\ route = "audit" => AuditInv
    /\ route = "release" => ReleaseInv
-----------------------------------------------------------------------------
(* Rows and moves.                                                         *)

LEMMA AppendRow ==
    ASSUME NEW s, IsRow(s), NEW x
    PROVE  LET t == Append(s, x) IN
           /\ IsRow(t) /\ t # <<>> /\ Len(s) \in Nat /\ Len(t) = Len(s) + 1 /\ t[Len(t)] = x
           /\ \A k \in 1..Len(s) : t[k] = s[k]
<1>1. PICK S : s \in Seq(S)
  BY DEF IsRow
<1> DEFINE T == S \cup {x}
<1>2. S \subseteq T /\ x \in T
  OBVIOUS
<1>3. s \in Seq(T)
  <2> HIDE DEF T
  <2> QED BY <1>1, <1>2, SeqMonotonic
<1>4. Append(s, x) \in Seq(T)
  BY <1>2, <1>3, AppendProperties
<1> HIDE DEF T
<1>5. /\ Append(s, x) # <<>> /\ Len(Append(s, x)) = Len(s) + 1
      /\ Append(s, x)[Len(s) + 1] = x
      /\ \A k \in 1..Len(s) : Append(s, x)[k] = s[k]
  BY <1>2, <1>3, AppendProperties
<1> QED BY <1>3, <1>4, <1>5 DEF IsRow

LEMMA RowLength ==
    ASSUME NEW s, IsRow(s)
    PROVE  Len(s) \in Nat /\ (s = <<>> <=> Len(s) = 0)
<1>1. PICK S : s \in Seq(S)
  BY DEF IsRow
<1> QED BY <1>1, EmptySeq, LenProperties

LEMMA Moves ==
    ASSUME Processes, NEW p \in Process, NEW label, Goto(p, label),
           UNCHANGED me \/ \E m : me' = [me EXCEPT ![p] = m],
           UNCHANGED retained \/ \E x : retained' = [retained EXCEPT ![p] = x]
    PROVE  Apart(p) /\ pc'[p] = label
  BY DEF Processes, Apart, Goto

LEMMA OnceStep ==
    ASSUME NEW n, NEW j, NEW S, Once(n, j, S), Attempted(j) => Attempted(j)',
           NEW m, NEW T, NEW p,
           \/ m = n /\ T \subseteq S
           \/ m = n /\ ~Attempted(j) /\ Attempted(j)' /\ T \subseteq S \cup {p}
           \/ m = n + 1 /\ p \in S /\ T \subseteq S \ {p}
    PROVE  Once(m, j, T)'
<1>1. n \in 0..1
  BY DEF Once
<1>2. CASE m = n /\ T \subseteq S
  BY <1>2 DEF Once
<1>3. CASE m = n /\ ~Attempted(j) /\ Attempted(j)' /\ T \subseteq S \cup {p}
  BY <1>3 DEF Once
<1>4. CASE m = n + 1 /\ p \in S /\ T \subseteq S \ {p}
  <2>1. n = 0 /\ Attempted(j)' /\ T = {}
    BY <1>4 DEF Once
  <2> QED BY <1>4, <2>1 DEF Once
<1> QED BY <1>2, <1>3, <1>4
-----------------------------------------------------------------------------
(* What a call on the registry does.                                       *)

\* The registry changes j only.
Rejob(j) ==
    /\ DOMAIN job' = DOMAIN job /\ DOMAIN job'[j] = DOMAIN Absent
    /\ \A k \in DOMAIN job \ {j} : job'[k] = job[k]

Rerow(name) ==
    /\ DOMAIN rows' = DOMAIN rows /\ IsRow(rows'[name])
    /\ \A d \in DOMAIN rows \ {name} : rows'[d] = rows[d]

LEMMA Enqueues ==
    ASSUME NEW j \in DOMAIN job, DOMAIN job[j] = DOMAIN Absent, NEW p, NEW ok, Enqueued(p, j, ok)
    PROVE  /\ Rejob(j)
           /\ job'[j] = job[j] \/ (job[j].state \in {"absent", "queued"} /\ job'[j].state = "queued")
           /\ Goto(p, "idle") \/ (Goto(p, ok) /\ job[j].state \in {"absent", "queued"} /\ job'[j].state = "queued")
  BY DEF Enqueued, Call, Rejob, Absent

LEMMA Claims ==
    ASSUME NEW j \in DOMAIN job, DOMAIN job[j] = DOMAIN Absent, NEW p, NEW ok, Claimed(p, j, ok)
    PROVE  /\ Rejob(j)
           /\ job'[j] = job[j] \/ (job[j].state = "queued" /\ job'[j].state = "running")
           /\ Goto(p, "idle") \/ (Goto(p, ok) /\ job[j].state = "queued" /\ job'[j].state = "running")
  BY DEF Claimed, Call, Rejob, Absent

LEMMA Completions ==
    ASSUME NEW j \in DOMAIN job, DOMAIN job[j] = DOMAIN Absent, NEW p, NEW name, NEW seen, NEW result, NEW ok,
           Completed(p, j, name, seen, result, ok)
    PROVE  /\ Rejob(j)
           /\ \/ job'[j] = job[j]
              \/ /\ job[j].state = "running"
                 /\ job'[j].state = "completed" /\ job'[j].result = result /\ job'[j].bound = Newest(name)
           /\ Goto(p, "idle") \/ (Goto(p, ok) /\ job'[j].state = "completed")
  BY DEF Completed, Call, Rejob, Absent

LEMMA Extensions ==
    ASSUME NEW name \in DOMAIN rows, IsRow(rows[name]), NEW p, NEW receipts, NEW ok, NEW bad,
           Extended(p, name, receipts, ok, bad)
    PROVE  /\ Rerow(name)
           /\ Newest(name) \subseteq Newest(name)' /\ Newest(name)' \subseteq Newest(name) \cup receipts
           /\ Goto(p, bad) \/ (Goto(p, ok) /\ receipts \subseteq Newest(name)')
<1>1. CASE UNCHANGED rows /\ Goto(p, bad)
  BY <1>1 DEF Rerow, Newest
<1>2. CASE rows' = [rows EXCEPT ![name] = Append(@, Newest(name) \cup receipts)] /\ \E l \in {ok, bad} : Goto(p, l)
  <2>1. rows'[name] = Append(rows[name], Newest(name) \cup receipts) /\ Rerow(name)
    BY <1>2, AppendRow DEF Rerow
  <2>2. Newest(name)' = Newest(name) \cup receipts
    BY <2>1, AppendRow DEF Newest
  <2> QED BY <1>2, <2>1, <2>2
<1> QED BY <1>1, <1>2 DEF Extended, Call

LEMMA Observations ==
    ASSUME NEW name \in DOMAIN rows, IsRow(rows[name]), NEW p, NEW n \in {1, 2}, NEW receipts, NEW ok, NEW bad,
           Observe(p, name, n, receipts, ok, bad)
    PROVE  /\ Rerow(name)
           /\ \/ rows'[name] = rows[name]
              \/ /\ n = Len(rows[name]) + 1 /\ rows'[name] = Append(rows[name], receipts)
                 /\ n = 2 => rows[name][1] \subseteq receipts
           /\ Goto(p, bad) \/ (Goto(p, ok) /\ n <= Len(rows'[name]) /\ rows'[name][n] = receipts)
<1>1. Len(rows[name]) \in Nat
  BY RowLength
<1>2. CASE Recorded(rows[name], n, receipts)
  BY <1>2 DEF Observe, Call, Recorded, Rerow
<1>3. CASE ~Recorded(rows[name], n, receipts) /\ Extends(rows[name], n, receipts)
  <2>1. n = Len(rows[name]) + 1 /\ (n = 2 => rows[name][1] \subseteq receipts)
    BY <1>3 DEF Extends
  <2>2. CASE UNCHANGED rows /\ Goto(p, bad)
    BY <2>2 DEF Rerow
  <2>3. CASE rows' = [rows EXCEPT ![name] = Append(@, receipts)] /\ \E l \in {ok, bad} : Goto(p, l)
    <3>1. rows'[name] = Append(rows[name], receipts) /\ Rerow(name)
      BY <2>3, AppendRow DEF Rerow
    <3>2. Len(rows'[name]) = n /\ rows'[name][n] = receipts
      BY <1>1, <2>1, <3>1, AppendRow
    <3> QED BY <2>1, <2>3, <3>1, <3>2
  <2>4. Call(p, rows' = [rows EXCEPT ![name] = Append(@, receipts)], UNCHANGED rows, ok, bad)
    BY <1>3 DEF Observe
  <2> QED BY <2>2, <2>3, <2>4 DEF Call
<1>4. CASE ~Recorded(rows[name], n, receipts) /\ ~Extends(rows[name], n, receipts)
  BY <1>4 DEF Observe, Rerow
<1> QED BY <1>2, <1>3, <1>4
-----------------------------------------------------------------------------
(* Auditing.                                                               *)

LEMMA AuditControl ==
    ASSUME NEW p, NEW j, NEW ok, NEW bad, NEW name, NEW n, NEW receipts, NEW result
    PROVE  /\ Audit!Goto(p, ok) => Goto(p, ok)
           /\ Audit!Enqueued(p, j, ok) => Enqueued(p, j, ok)
           /\ Audit!Claimed(p, j, ok) => Claimed(p, j, ok)
           /\ Audit!Completed(p, j, name, n, result, ok) => Completed(p, j, name, n, result, ok)
           /\ Audit!Observe(p, name, n, receipts, ok, bad) => Observe(p, name, n, receipts, ok, bad)
<1>1. /\ Audit!Goto(p, ok) => Goto(p, ok)
      /\ Audit!Enqueued(p, j, ok) => Enqueued(p, j, ok)
      /\ Audit!Claimed(p, j, ok) => Claimed(p, j, ok)
  BY DEF Audit!Enqueued, Audit!Claimed, Audit!Call, Audit!Goto, Enqueued, Claimed, Call, Goto
<1>2. Audit!Completed(p, j, name, n, result, ok) => Completed(p, j, name, n, result, ok)
  BY DEF Audit!Completed, Audit!Call, Audit!Goto, Audit!Newest, Completed, Call, Goto, Newest
<1>3. Audit!Observe(p, name, n, receipts, ok, bad) => Observe(p, name, n, receipts, ok, bad)
  BY DEF Audit!Observe, Audit!Call, Audit!Goto, Audit!Recorded, Audit!Extends, Observe, Call, Goto, Recorded, Extends
<1> QED BY <1>1, <1>2, <1>3

LEMMA Outcomes ==
    ASSUME NEW o, IsOutcome(o)
    PROVE  /\ o[1] \in {"report", "failure"} /\ o[2] \subseteq Root
           /\ o = Nothing => o[2] = {}
<1>1. CASE o = Audit!Failure
  BY <1>1 DEF Audit!Failure, Audit!Receipt
<1>2. CASE o # Audit!Failure
  <2>1. PICK D \in SUBSET Root : o = Audit!Report(D)
    BY <1>2 DEF IsOutcome
  <2> QED BY <2>1, NothingAssumption DEF Audit!Report, Audit!Receipt
<1> QED BY <1>1, <1>2

LEMMA OutcomePrimed == \A o : IsOutcome(o)' = IsOutcome(o)
  BY DEF IsOutcome, Audit!Report, Audit!Failure, Audit!Receipt

\* What is frozen stays, and so do the notices.
AuditKept == /\ \A o : FrozenAs(o) => FrozenAs(o)'
             /\ \A r \in Root : notice[r] # "absent" => notice'[r] # "absent"

LEMMA PlaceKept ==
    ASSUME AuditKept, NEW place, NEW m, AuditPlace(place, m)
    PROVE  AuditPlace(place, m)'
<1>1. IsOutcome(m.outcome) => IsOutcome(m.outcome)' /\ m.outcome[2] \subseteq Root
  BY Outcomes, OutcomePrimed
<1>2. FrozenAs(m.outcome) => IsOutcome(m.outcome) /\ FrozenAs(m.outcome)'
  BY DEF AuditKept, FrozenAs
<1> QED BY <1>1, <1>2 DEF AuditKept, AuditPlace, Noticed

\* A step of p that sums up nothing.
LEMMA AuditStep ==
    ASSUME AuditInv, NEW p \in Process, Apart(p), AuditKept, AuditTables',
           UNCHANGED executions, Attempted(AuditJob) => Attempted(AuditJob)',
           pc'[p] = "execute" => pc[p] = "execute" \/ (~Attempted(AuditJob) /\ Attempted(AuditJob)'),
           AuditPlace(pc[p], me[p])', retained'[p] # Nothing => IsOutcome(retained'[p]),
           job'[AuditJob] = job[AuditJob] \/ AuditDone'
    PROVE  AuditInv'
<1>1. AuditRuns'
  <2>1. PICK S, T, n : /\ S = {q \in Process : pc[q] = "execute"} /\ T = {q \in Process : pc'[q] = "execute"}
                       /\ n = executions
    OBVIOUS
  <2>2. T \subseteq S \/ (~Attempted(AuditJob) /\ Attempted(AuditJob)' /\ T \subseteq S \cup {p})
    BY <2>1 DEF Apart
  <2>3. PICK j : j = AuditJob
    OBVIOUS
  <2>4. j = AuditJob' /\ n = executions'
    BY <2>1, <2>3 DEF AuditJob, Audit!AuditJob
  <2>5. Once(n, j, S) /\ (Attempted(j) => Attempted(j)')
    BY <2>1, <2>3, <2>4 DEF AuditInv, AuditRuns, Attempted
  <2>6. T \subseteq S \/ (~Attempted(j) /\ Attempted(j)' /\ T \subseteq S \cup {p})
    BY <2>2, <2>3, <2>4 DEF Attempted
  <2>7. Once(n, j, T)'
    BY <2>5, <2>6, OnceStep
  <2> QED BY <2>1, <2>4, <2>7 DEF AuditRuns
<1>2. ASSUME NEW q \in Process
      PROVE  AuditPlace(pc[q], me[q])' /\ (retained'[q] # Nothing => IsOutcome(retained'[q]))
  <2>1. CASE q = p
    BY <2>1
  <2>2. CASE q # p
    <3>1. PICK place, m : place = pc[q] /\ m = me[q]
      OBVIOUS
    <3>2. AuditPlace(place, m)'
      BY <3>1, PlaceKept DEF AuditInv
    <3>3. place = pc'[q] /\ m = me'[q] /\ retained'[q] = retained[q]
      BY <2>2, <3>1 DEF Apart
    <3> QED BY <3>2, <3>3 DEF AuditInv
  <2> QED BY <2>1, <2>2
<1>3. AuditDone'
  <2>1. CASE AuditDone'
    BY <2>1
  <2>2. CASE job'[AuditJob] = job[AuditJob]
    <3>1. AuditDone
      BY DEF AuditInv
    <3>2. PICK j : j = AuditJob /\ j = AuditJob'
      BY DEF AuditJob, Audit!AuditJob
    <3>3. PICK o : o = job[j].result
      OBVIOUS
    <3>4. job[j].state = "completed" => FrozenAs(o)' /\ Noticed(o[2])'
      <4>1. FrozenAs(o) => IsOutcome(o) /\ o[2] \subseteq Root /\ FrozenAs(o)'
        BY Outcomes DEF FrozenAs, AuditKept
      <4> QED BY <3>1, <3>2, <3>3, <4>1 DEF AuditDone, AuditKept, Noticed
    <3> QED BY <2>2, <3>2, <3>3, <3>4 DEF AuditDone
  <2> QED BY <2>1, <2>2
<1> QED BY <1>1, <1>2, <1>3 DEF AuditInv, IsOutcome
-----------------------------------------------------------------------------
(* The steps of an audit.                                                  *)

LEMMA SameNotices == UNCHANGED <<rows, notice>> => AuditKept
  BY DEF AuditKept, FrozenAs, IsOutcome, AuditJob, Audit!AuditJob, Audit!Configuration

LEMMA SameTables ==
    ASSUME AuditTables, Processes', UNCHANGED rows, UNCHANGED job \/ Rejob(AuditJob), DOMAIN notice' = DOMAIN notice
    PROVE  AuditTables'
<1>1. rows'[AuditJob] = <<>> \/ \E o : FrozenAs(o)'
  BY DEF AuditTables, FrozenAs, IsOutcome, AuditJob, Audit!AuditJob, Audit!Configuration
<1>2. DOMAIN job' = {AuditJob} /\ DOMAIN job'[AuditJob] = DOMAIN Absent
  BY DEF AuditTables, Rejob
<1>3. AuditJob' = AuditJob /\ Absent' = Absent
  BY DEF AuditJob, Audit!AuditJob, Absent
<1> QED BY <1>1, <1>2, <1>3 DEF AuditTables

\* A job that had an attempt keeps it.
LEMMA KeepsAttempt ==
    ASSUME NEW j,
           \/ job'[j] = job[j]
           \/ job[j].state \in {"absent", "queued"}
           \/ job'[j].state \in {"running", "completed"}
    PROVE  Attempted(j) => Attempted(j)'
  BY DEF Attempted

LEMMA AuditBegins ==
    ASSUME AuditInv, NEW p \in Process, NEW label \in {"enqueue", "publish", "effects"}, NEW m,
           Audit!Begin(p, label, m), UNCHANGED <<rows, job, retained, executions, notice>>,
           AuditPlace(label, m)
    PROVE  AuditInv'
<1>1. Processes
  BY DEF AuditInv, AuditTables
<1>2. Goto(p, label) /\ me' = [me EXCEPT ![p] = m]
  BY DEF Audit!Begin, Audit!Goto, Goto
<1>3. Apart(p) /\ pc'[p] = label /\ me'[p] = m /\ retained'[p] = retained[p]
  BY <1>1, <1>2, Moves DEF Processes
<1>4. AuditKept /\ AuditTables'
  BY <1>3, SameNotices, SameTables DEF AuditInv, Apart
<1>6. AuditPlace(label, m)'
  BY <1>4, PlaceKept
<1>7. AuditPlace(pc[p], me[p])'
  BY <1>3, <1>6
<1>8. retained'[p] # Nothing => IsOutcome(retained'[p])
  BY <1>3 DEF AuditInv
<1>9. job'[AuditJob] = job[AuditJob] /\ Attempted(AuditJob)' = Attempted(AuditJob)
  BY DEF AuditJob, Audit!AuditJob, Attempted
<1>10. pc'[p] # "execute"
  BY <1>3
<1> QED BY <1>3, <1>4, <1>7, <1>8, <1>9, <1>10, AuditStep

\* The memory that a frozen or retained outcome is worked from.
LEMMA WorkingOn ==
    ASSUME NEW o, IsOutcome(o), NEW m, m = Audit!Working(o)
    PROVE  DOMAIN m = {"holds", "outcome", "todo"} /\ m.outcome = o /\ m.outcome[2] \ m.todo = {}
<1>1. CASE o = Nothing
  BY <1>1, Outcomes DEF Audit!Working
<1>2. CASE o # Nothing
  BY <1>2 DEF Audit!Working
<1> QED BY <1>1, <1>2

LEMMA AuditStarts ==
    ASSUME AuditInv, NEW p \in Process, Audit!StartAudit(p) \/ Audit!RetryPublication(p)
    PROVE  AuditInv'
<1>1. CASE Audit!StartAudit(p)
  <2>1. AuditPlace("enqueue", Audit!Working(Nothing))
    BY DEF AuditPlace
  <2> QED BY <1>1, <2>1, AuditBegins DEF Audit!StartAudit, Audit!auditVars
<1>2. CASE Audit!RetryPublication(p)
  <2>1. PICK m : m = Audit!Working(retained[p])
    OBVIOUS
  <2>2. IsOutcome(retained[p])
    BY <1>2 DEF AuditInv, Audit!RetryPublication
  <2>3. AuditPlace("publish", m)
    BY <2>1, <2>2, WorkingOn DEF AuditPlace, Noticed
  <2> QED BY <1>2, <2>1, <2>3, AuditBegins DEF Audit!RetryPublication, Audit!auditVars
<1> QED BY <1>1, <1>2

LEMMA AuditRecovers ==
    ASSUME AuditInv, NEW p \in Process, Audit!Recover(p)
    PROVE  AuditInv'
<1>1. Audit!Outcomes # {}
  BY DEF Audit!Recover, Audit!RecoverAt
<1>2. PICK o \in Audit!Outcomes : Audit!Begin(p, "effects", Audit!Working(o))
  BY <1>1 DEF Audit!Recover, Audit!RecoverAt
<1>3. PICK m : m = Audit!Working(o)
  OBVIOUS
<1>4. FrozenAs(o)
  <2>1. o \in Audit!Newest(AuditJob) /\ o[1] \in {"report", "failure"}
    BY <1>2 DEF Audit!Outcomes, AuditJob
  <2>2. PICK x : FrozenAs(x)
    BY <2>1 DEF AuditInv, AuditTables, Audit!Newest
  <2>3. o \in {Audit!Configuration, x}
    BY <2>1, <2>2 DEF FrozenAs, Audit!Newest
  <2>4. o # Audit!Configuration
    BY <2>1 DEF Audit!Configuration, Audit!Receipt
  <2> QED BY <2>2, <2>3, <2>4
<1>5. DOMAIN m = {"holds", "outcome", "todo"} /\ m.outcome = o /\ m.outcome[2] \ m.todo = {}
  BY <1>3, <1>4, WorkingOn DEF FrozenAs
<1>7. AuditPlace("effects", m)
  BY <1>4, <1>5 DEF AuditPlace, FrozenAs, Noticed
<1> QED BY <1>2, <1>3, <1>7, AuditBegins DEF Audit!Recover, Audit!auditVars

LEMMA AuditQueues ==
    ASSUME AuditInv, NEW p \in Process, Audit!Enqueue(p) \/ Audit!Claim(p)
    PROVE  AuditInv'
<1>1. PICK j : j = AuditJob /\ j = AuditJob'
  BY DEF AuditJob, Audit!AuditJob
<1>2. /\ j \in DOMAIN job /\ DOMAIN job[j] = DOMAIN Absent /\ Processes
      /\ UNCHANGED <<rows, me, retained, executions, notice>>
  BY <1>1 DEF AuditInv, AuditTables, Audit!Enqueue, Audit!Claim, Audit!auditVars
<1>3. /\ Rejob(j)
      /\ job'[j] = job[j] \/ (job[j].state \in {"absent", "queued"} /\ job'[j].state \in {"queued", "running"})
      /\ \/ Goto(p, "idle") \/ Goto(p, "claim")
         \/ Goto(p, "execute") /\ job[j].state = "queued" /\ job'[j].state = "running"
  <2>1. CASE Audit!Enqueue(p)
    BY <2>1, <1>1, <1>2, AuditControl, Enqueues DEF Audit!Enqueue, AuditJob
  <2>2. CASE Audit!Claim(p)
    BY <2>2, <1>1, <1>2, AuditControl, Claims DEF Audit!Claim, AuditJob
  <2> QED BY <2>1, <2>2
<1>4. Apart(p) /\ me'[p] = me[p] /\ retained'[p] = retained[p]
  BY <1>2, <1>3, Moves
<1>5. \/ pc'[p] = "idle" \/ pc'[p] = "claim"
      \/ pc'[p] = "execute" /\ ~Attempted(j) /\ Attempted(j)'
  BY <1>2, <1>3, Moves DEF Attempted
<1>6. AuditKept /\ AuditTables'
  BY <1>1, <1>2, <1>3, <1>4, SameNotices, SameTables DEF AuditInv, Apart
<1>7. Attempted(j) => Attempted(j)'
  BY <1>3, KeepsAttempt
<1>8. AuditPlace(pc[p], me[p])'
  BY <1>5 DEF AuditPlace
<1>9. retained'[p] # Nothing => IsOutcome(retained'[p])
  BY <1>4 DEF AuditInv
<1>10. job'[j] = job[j] \/ AuditDone'
  BY <1>1, <1>3 DEF AuditDone
<1> QED BY <1>1, <1>2, <1>4, <1>5, <1>6, <1>7, <1>8, <1>9, <1>10, AuditStep

LEMMA AuditExecutes ==
    ASSUME AuditInv, NEW p \in Process, Audit!Execute(p)
    PROVE  AuditInv'
<1>1. /\ Processes /\ pc[p] = "execute" /\ executions' = executions + 1
      /\ UNCHANGED <<rows, job, retained, notice>>
  BY DEF AuditInv, AuditTables, Audit!Execute, Audit!At
<1>2. PICK label, m :
         /\ label \in {"publish", "idle"}
         /\ Goto(p, label) /\ (me' = [me EXCEPT ![p] = m] \/ UNCHANGED me)
         /\ label = "publish" => me' = [me EXCEPT ![p] = m] /\ AuditPlace("publish", m)
  <2>1. CASE Goto(p, "idle") /\ UNCHANGED me
    BY <2>1
  <2>2. ASSUME NEW o \in {Audit!Report(D) : D \in SUBSET Root} \cup {Audit!Failure},
               Audit!Goto(p, "publish"), me' = [me EXCEPT ![p] = Audit!Working(o)]
        PROVE  Goto(p, "publish") /\ \E m : /\ me' = [me EXCEPT ![p] = m]
                                            /\ AuditPlace("publish", m)
    <3>1. PICK m : m = Audit!Working(o)
      OBVIOUS
    <3>2. IsOutcome(o)
      BY DEF IsOutcome
    <3>3. AuditPlace("publish", m)
      BY <3>1, <3>2, WorkingOn DEF AuditPlace, Noticed
    <3> QED BY <2>2, <3>1, <3>3, AuditControl
  <2> QED BY <2>1, <2>2, AuditControl DEF Audit!Execute
<1>3. Apart(p) /\ pc'[p] = label /\ retained'[p] = retained[p]
  BY <1>1, <1>2, Moves
<1>4. label = "publish" => me'[p] = m
  BY <1>1, <1>2 DEF Processes
<1>5. AuditKept /\ AuditTables'
  BY <1>1, <1>3, SameNotices, SameTables DEF AuditInv, Apart
<1>6. AuditRuns'
  <2>1. PICK S, T, n, j : /\ S = {q \in Process : pc[q] = "execute"} /\ T = {q \in Process : pc'[q] = "execute"}
                          /\ n = executions /\ j = AuditJob /\ j = AuditJob'
    BY DEF AuditJob, Audit!AuditJob
  <2>2. p \in S /\ T \subseteq S \ {p}
    BY <2>1, <1>1, <1>2, <1>3 DEF Apart
  <2>3. Once(n, j, S) /\ (Attempted(j) => Attempted(j)')
    BY <2>1, <1>1 DEF AuditInv, AuditRuns, Attempted
  <2>4. PICK k : k = n + 1
    OBVIOUS
  <2>5. Once(k, j, T)'
    BY <2>2, <2>3, <2>4, OnceStep
  <2> QED BY <1>1, <2>1, <2>4, <2>5 DEF AuditRuns
<1>7. ASSUME NEW q \in Process
      PROVE  AuditPlace(pc[q], me[q])' /\ (retained'[q] # Nothing => IsOutcome(retained'[q]))
  <2>1. CASE q = p
    <3>1. CASE label = "publish"
      <4>1. AuditPlace(label, m)'
        BY <1>2, <1>5, <3>1, PlaceKept
      <4> QED BY <2>1, <3>1, <4>1, <1>3, <1>4 DEF AuditInv
    <3>2. CASE label = "idle"
      <4>1. AuditPlace(pc[q], me[q])'
        BY <2>1, <3>2, <1>3 DEF AuditPlace
      <4>2. retained[p] # Nothing => IsOutcome(retained[p])
        BY DEF AuditInv
      <4>3. retained'[q] = retained[p]
        BY <2>1, <1>3
      <4>4. retained'[q] # Nothing => IsOutcome(retained'[q])
        BY <4>2, <4>3
      <4> QED BY <4>1, <4>4
    <3> QED BY <1>2, <3>1, <3>2
  <2>2. CASE q # p
    <3>1. PICK place, x : place = pc[q] /\ x = me[q]
      OBVIOUS
    <3>2. AuditPlace(place, x)'
      BY <1>5, <3>1, PlaceKept DEF AuditInv
    <3>3. place = pc'[q] /\ x = me'[q] /\ retained'[q] = retained[q]
      BY <1>3, <2>2, <3>1 DEF Apart
    <3> QED BY <3>2, <3>3 DEF AuditInv
  <2> QED BY <2>1, <2>2
<1>8. AuditDone'
  <2>1. PICK j : j = AuditJob /\ j = AuditJob'
    BY DEF AuditJob, Audit!AuditJob
  <2>2. PICK o : o = job[j].result
    OBVIOUS
  <2>3. job[j].state = "completed" => FrozenAs(o)' /\ Noticed(o[2])'
    BY <1>1, <1>5, <2>1, <2>2 DEF AuditDone, AuditKept, Noticed, AuditInv
  <2> QED BY <1>1, <2>1, <2>2, <2>3 DEF AuditDone
<1>9. \A q \in Process : AuditPlace(pc[q], me[q])' /\ (retained'[q] # Nothing => IsOutcome(retained[q])')
  BY <1>7, OutcomePrimed
<1> QED BY <1>5, <1>6, <1>8, <1>9 DEF AuditInv

LEMMA AuditPublishes ==
    ASSUME AuditInv, NEW p \in Process, Audit!Publish(p)
    PROVE  AuditInv'
<1>1. PICK j, m : j = AuditJob /\ j = AuditJob' /\ m = me[p]
  BY DEF AuditJob, Audit!AuditJob
<1>2. PICK o, c : o = m.outcome /\ c = Audit!Configuration
  OBVIOUS
<1>3. /\ Processes /\ IsOutcome(o) /\ j \in DOMAIN rows /\ UNCHANGED <<job, me, executions, notice>>
      /\ DOMAIN rows = {j} /\ DOMAIN m = {"holds", "outcome", "todo"}
  BY <1>1, <1>2 DEF AuditInv, AuditTables, AuditPlace, Audit!Publish, Audit!auditVars, Audit!At
<1>4. Observe(p, j, 1, {c, o}, "effects", "idle")
  BY <1>1, <1>2, AuditControl DEF Audit!Publish, AuditJob
<1>5. rows[j] = <<>> \/ \E x : IsOutcome(x) /\ rows[j] = <<{c, x}>>
  BY <1>1, <1>2 DEF AuditInv, AuditTables, FrozenAs
<1>6. IsRow(rows[j])
  <2>1. CASE rows[j] = <<>>
    <3>1. rows[j] \in Seq({})
      BY <2>1
    <3> QED BY <3>1 DEF IsRow
  <2>2. ASSUME NEW x, rows[j] = <<{c, x}>>
        PROVE  IsRow(rows[j])
    <3>1. rows[j] \in Seq({{c, x}})
      BY <2>2
    <3> QED BY <3>1 DEF IsRow
  <2> QED BY <1>5, <2>1, <2>2
<1>7. /\ Rerow(j)
      /\ \/ rows'[j] = rows[j]
         \/ 1 = Len(rows[j]) + 1 /\ rows'[j] = Append(rows[j], {c, o})
      /\ Goto(p, "idle") \/ (Goto(p, "effects") /\ 1 <= Len(rows'[j]) /\ rows'[j][1] = {c, o})
  BY <1>3, <1>4, <1>6, Observations
<1>8. rows'[j] = rows[j] \/ (rows[j] = <<>> /\ rows'[j] = <<{c, o}>>)
  <2>1. CASE 1 = Len(rows[j]) + 1 /\ rows'[j] = Append(rows[j], {c, o})
    <3>1. rows[j] = <<>>
      BY <2>1, <1>6, RowLength
    <3> QED BY <2>1, <3>1
  <2> QED BY <1>7, <2>1
<1>9. PICK label : Goto(p, label) /\ label \in {"idle", "effects"}
  BY <1>7
<1>10. \E x : retained' = [retained EXCEPT ![p] = x] \/ UNCHANGED retained
  BY DEF Audit!Publish, Audit!Retains
<1>11. Apart(p) /\ pc'[p] = label
  BY <1>3, <1>9, <1>10, Moves
<1>12. retained'[p] # Nothing => IsOutcome(retained'[p])
  <2>1. retained' = [retained EXCEPT ![p] = o] \/ UNCHANGED retained
    BY <1>1, <1>2 DEF Audit!Publish, Audit!Retains
  <2>2. retained'[p] = o \/ retained'[p] = retained[p]
    BY <1>3, <2>1 DEF Processes
  <2> QED BY <1>3, <2>2 DEF AuditInv
<1>13. FrozenAs(o)' \/ rows'[j] = rows[j]
  BY <1>1, <1>2, <1>3, <1>8, OutcomePrimed DEF FrozenAs, Audit!Configuration, Audit!Receipt
<1>14. AuditKept
  <2>1. ASSUME NEW x, FrozenAs(x)
        PROVE  FrozenAs(x)'
    BY <1>1, <1>8, <2>1, OutcomePrimed DEF FrozenAs, Audit!Configuration, Audit!Receipt
  <2> QED BY <1>3, <2>1 DEF AuditKept
<1>15. AuditTables'
  <2>1. rows'[j] = <<>> \/ \E x : FrozenAs(x)'
    <3>1. CASE rows[j] = <<>>
      BY <3>1, <1>13
    <3>2. ASSUME NEW x, FrozenAs(x)
          PROVE  \E y : FrozenAs(y)'
      BY <3>2, <1>14 DEF AuditKept
    <3>3. rows[j] = <<>> \/ \E x : FrozenAs(x)
      BY <1>1 DEF AuditInv, AuditTables
    <3> QED BY <3>1, <3>2, <3>3
  <2>2. DOMAIN rows' = {j}
    BY <1>3, <1>7 DEF Rerow
  <2> QED BY <1>1, <1>3, <1>11, <2>1, <2>2 DEF AuditInv, AuditTables, Apart, Absent
<1>16. AuditPlace(pc[p], me[p])'
  <2>1. CASE label = "idle"
    BY <2>1, <1>11 DEF AuditPlace
  <2>2. CASE label = "effects"
    <3>1. pc'[p] = "effects"
      BY <2>2, <1>11
    <3>2. Goto(p, "effects") /\ ~Goto(p, "idle")
      BY <1>3, <1>9, <2>2, <3>1 DEF Goto, Processes
    <3>3. FrozenAs(o)'
      <4>1. rows'[j][1] = {c, o} /\ rows'[j] # <<>>
        BY <1>7, <3>2
      <4>2. rows'[j] = <<{c, o}>>
        BY <1>5, <1>8, <4>1
      <4> QED BY <1>1, <1>2, <1>3, <4>2, OutcomePrimed DEF FrozenAs, Audit!Configuration, Audit!Receipt
    <3>4. AuditPlace("publish", m)
      BY <1>1 DEF AuditInv, Audit!Publish, Audit!At
    <3>5. PICK R : R = m.outcome[2] \ m.todo
      OBVIOUS
    <3>6. Noticed(R)'
      BY <1>3, <3>4, <3>5 DEF AuditPlace, Noticed
    <3> QED BY <1>1, <1>2, <1>3, <3>1, <3>3, <3>5, <3>6, OutcomePrimed DEF AuditPlace
  <2> QED BY <1>9, <2>1, <2>2
<1>17. pc'[p] # "execute"
  BY <1>9, <1>11
<1>18. job'[j] = job[j] /\ (Attempted(j) => Attempted(j)')
  BY <1>3 DEF Attempted
<1> QED BY <1>1, <1>3, <1>11, <1>12, <1>14, <1>15, <1>16, <1>17, <1>18, AuditStep

LEMMA AuditQuarantines ==
    ASSUME AuditInv, NEW p \in Process, Audit!Quarantine(p)
    PROVE  AuditInv'
<1>1. PICK m, j : m = me[p] /\ j = AuditJob /\ j = AuditJob'
  BY DEF AuditJob, Audit!AuditJob
<1>2. /\ Processes /\ pc[p] = "effects" /\ UNCHANGED <<rows, job, retained, executions>>
      /\ DOMAIN m = {"holds", "outcome", "todo"} /\ IsOutcome(m.outcome) /\ FrozenAs(m.outcome)
      /\ Noticed(m.outcome[2] \ m.todo) /\ DOMAIN notice = Root
  BY <1>1 DEF AuditInv, AuditTables, AuditPlace, Audit!Quarantine, Audit!At
<1>3. PICK r \in m.todo : /\ me' = [me EXCEPT ![p].todo = @ \ {r}]
                          /\ \/ /\ notice[r] = "absent"
                                /\ Audit!Call(p, notice' = [notice EXCEPT ![r] = "active"], UNCHANGED notice,
                                              "effects", "idle")
                             \/ /\ notice[r] # "absent"
                                /\ Audit!Goto(p, IF notice[r] = "active" THEN "effects" ELSE "idle")
                                /\ UNCHANGED notice
  BY <1>1 DEF Audit!Quarantine
<1>4. /\ UNCHANGED notice \/ notice' = [notice EXCEPT ![r] = "active"]
      /\ Goto(p, "idle") \/ (Goto(p, "effects") /\ (r \in Root => notice'[r] # "absent"))
  BY <1>2, <1>3, AuditControl DEF Audit!Call
<1>5. DOMAIN notice' = Root /\ \A x \in Root : notice[x] # "absent" => notice'[x] # "absent"
  BY <1>2, <1>4
<1>6. PICK label : Goto(p, label) /\ label \in {"idle", "effects"} /\ (label = "effects" => Goto(p, "effects"))
  BY <1>4
<1>7. PICK n : me' = [me EXCEPT ![p] = n] /\ n = [m EXCEPT !.todo = @ \ {r}]
  BY <1>1, <1>3
<1>8. Apart(p) /\ pc'[p] = label /\ retained'[p] = retained[p] /\ me'[p] = n
  BY <1>2, <1>6, <1>7, Moves DEF Processes
<1>9. AuditKept
  BY <1>2, <1>5, OutcomePrimed DEF AuditKept, FrozenAs, AuditJob, Audit!AuditJob, Audit!Configuration
<1>10. AuditTables'
  BY <1>2, <1>5, <1>8, SameTables DEF AuditInv, Apart
<1>11. AuditPlace(pc[p], me[p])'
  <2>1. CASE label = "idle"
    BY <2>1, <1>8 DEF AuditPlace
  <2>2. CASE label = "effects"
    <3>1. Goto(p, "effects") /\ ~Goto(p, "idle")
      BY <1>2, <1>6, <2>2 DEF Goto, Processes
    <3>2. DOMAIN n = {"holds", "outcome", "todo"} /\ n.outcome = m.outcome /\ n.todo = m.todo \ {r}
      BY <1>2, <1>7
    <3>3. m.outcome[2] \subseteq Root
      BY <1>2, Outcomes
    <3>4. PICK R : R = n.outcome[2] \ n.todo
      OBVIOUS
    <3>5. ASSUME NEW x \in R
          PROVE  notice'[x] # "absent"
      BY <1>2, <1>4, <1>5, <3>1, <3>2, <3>3, <3>4 DEF Noticed
    <3>6. Noticed(R)'
      BY <3>5 DEF Noticed
    <3>7. IsOutcome(n.outcome)' /\ FrozenAs(n.outcome)'
      BY <1>2, <1>9, <3>2, OutcomePrimed DEF AuditKept
    <3> QED BY <1>8, <2>2, <3>2, <3>4, <3>6, <3>7 DEF AuditPlace
  <2> QED BY <1>6, <2>1, <2>2
<1>12. pc'[p] # "execute"
  BY <1>6, <1>8
<1>13. job'[j] = job[j] /\ (Attempted(j) => Attempted(j)')
  BY <1>2 DEF Attempted
<1>14. retained'[p] # Nothing => IsOutcome(retained'[p])
  BY <1>8 DEF AuditInv
<1> QED BY <1>1, <1>2, <1>8, <1>9, <1>10, <1>11, <1>12, <1>13, <1>14, AuditStep

LEMMA AuditCompletes ==
    ASSUME AuditInv, NEW p \in Process, Audit!Complete(p)
    PROVE  AuditInv'
<1>1. PICK m, j : m = me[p] /\ j = AuditJob /\ j = AuditJob'
  BY DEF AuditJob, Audit!AuditJob
<1>2. /\ Processes /\ UNCHANGED <<rows, me, retained, executions, notice>>
      /\ FrozenAs(m.outcome) /\ Noticed(m.outcome[2])
      /\ j \in DOMAIN job /\ DOMAIN job[j] = DOMAIN Absent
  BY <1>1 DEF AuditInv, AuditTables, AuditPlace, Audit!Complete, Audit!At, Audit!Settled, Audit!auditVars, Noticed
<1>3. Completed(p, j, j, 1, m.outcome, "idle")
  BY <1>1, AuditControl DEF Audit!Complete, AuditJob
<1>4. /\ Rejob(j) /\ Goto(p, "idle")
      /\ \/ job'[j] = job[j]
         \/ job[j].state = "running" /\ job'[j].state = "completed" /\ job'[j].result = m.outcome
  BY <1>2, <1>3, Completions
<1>5. Apart(p) /\ pc'[p] = "idle" /\ retained'[p] = retained[p]
  BY <1>2, <1>4, Moves
<1>6. AuditKept /\ AuditTables'
  BY <1>1, <1>2, <1>4, <1>5, SameNotices, SameTables DEF AuditInv, Apart
<1>7. Attempted(j) => Attempted(j)'
  BY <1>4, KeepsAttempt
<1>8. job'[j] = job[j] \/ AuditDone'
  <2>1. PICK o : o = m.outcome
    OBVIOUS
  <2>2. FrozenAs(o)' /\ Noticed(o[2])'
    BY <1>2, <1>6, <2>1 DEF AuditKept, Noticed
  <2> QED BY <1>1, <1>4, <2>1, <2>2 DEF AuditDone
<1>9. AuditPlace(pc[p], me[p])'
  BY <1>5 DEF AuditPlace
<1>10. retained'[p] # Nothing => IsOutcome(retained'[p])
  BY <1>5 DEF AuditInv
<1>11. pc'[p] # "execute"
  BY <1>5
<1> QED BY <1>1, <1>2, <1>5, <1>6, <1>7, <1>8, <1>9, <1>10, <1>11, AuditStep

LEMMA AuditCrashes ==
    ASSUME AuditInv, NEW p \in Process, Audit!Crash(p), UNCHANGED <<executions, notice>>
    PROVE  AuditInv'
<1>1. Processes /\ UNCHANGED <<rows, me, job>> /\ Goto(p, "idle") /\ retained' = [retained EXCEPT ![p] = Nothing]
  BY AuditControl DEF AuditInv, AuditTables, Audit!Crash
<1>2. Apart(p) /\ pc'[p] = "idle" /\ retained'[p] = Nothing
  BY <1>1, Moves DEF Processes
<1>3. AuditKept /\ AuditTables'
  BY <1>1, <1>2, SameNotices, SameTables DEF AuditInv, Apart
<1>4. AuditPlace(pc[p], me[p])'
  BY <1>2 DEF AuditPlace
<1>5. retained'[p] # Nothing => IsOutcome(retained'[p])
  BY <1>2
<1>6. pc'[p] # "execute" /\ job'[AuditJob] = job[AuditJob] /\ Attempted(AuditJob)' = Attempted(AuditJob)
  BY <1>1, <1>2 DEF AuditJob, Audit!AuditJob, Attempted
<1> QED BY <1>2, <1>3, <1>4, <1>5, <1>6, AuditStep

\* Whatever moves no process: a lifted notice was there.
LEMMA AuditLifts ==
    ASSUME AuditInv, UNCHANGED <<rows, job, pc, me, retained, executions>>, DOMAIN notice' = Root,
           \A r \in Root : notice[r] # "absent" => notice'[r] # "absent"
    PROVE  AuditInv'
<1>1. PICK j : j = AuditJob /\ j = AuditJob'
  BY DEF AuditJob, Audit!AuditJob
<1>2. AuditKept
  BY OutcomePrimed DEF AuditKept, FrozenAs, AuditJob, Audit!AuditJob, Audit!Configuration
<1>3. AuditTables'
  BY SameTables DEF AuditInv, AuditTables, Processes
<1>4. AuditRuns'
  BY <1>1 DEF AuditInv, AuditRuns, Once, Attempted
<1>5. ASSUME NEW p \in Process
      PROVE  AuditPlace(pc[p], me[p])' /\ (retained'[p] # Nothing => IsOutcome(retained[p])')
  <2>1. PICK place, m : place = pc[p] /\ m = me[p]
    OBVIOUS
  <2>2. AuditPlace(place, m)'
    BY <1>2, <2>1, PlaceKept DEF AuditInv
  <2>3. retained[p] # Nothing => IsOutcome(retained[p])
    BY DEF AuditInv
  <2> QED BY <2>1, <2>2, <2>3, OutcomePrimed
<1>6. AuditDone'
  <2>1. PICK o : o = job[j].result
    OBVIOUS
  <2>2. job[j].state = "completed" => FrozenAs(o) /\ Noticed(o[2]) /\ o[2] \subseteq Root
    BY <1>1, <2>1, Outcomes DEF AuditInv, AuditDone, FrozenAs
  <2>3. job[j].state = "completed" => FrozenAs(o)' /\ Noticed(o[2])'
    BY <1>2, <2>2 DEF AuditKept, Noticed
  <2> QED BY <1>1, <2>1, <2>3 DEF AuditDone
<1> QED BY <1>3, <1>4, <1>5, <1>6 DEF AuditInv

LEMMA AuditNext ==
    ASSUME AuditInv, [Audit!Next]_Audit!vars
    PROVE  AuditInv'
<1>1. CASE UNCHANGED Audit!vars
  BY <1>1, AuditLifts DEF Audit!vars, Audit!controlVars, Audit!ledgerVars, Audit!auditVars, AuditInv, AuditTables
<1>2. ASSUME NEW r \in Root, Audit!Lift(r)
      PROVE  AuditInv'
  <2>1. /\ UNCHANGED <<rows, job, pc, me, retained, executions>>
        /\ DOMAIN notice' = Root
        /\ \A s \in Root : notice[s] # "absent" => notice'[s] # "absent"
    BY <1>2 DEF Audit!Lift, Audit!controlVars, Audit!ledgerVars, AuditInv, AuditTables
  <2> QED BY <2>1, AuditLifts
<1>3. ASSUME NEW p \in Process,
             \/ Audit!StartAudit(p) \/ Audit!Enqueue(p) \/ Audit!Claim(p) \/ Audit!Execute(p) \/ Audit!Publish(p)
             \/ Audit!Quarantine(p) \/ Audit!Complete(p) \/ Audit!Recover(p) \/ Audit!RetryPublication(p)
             \/ Audit!Crash(p) /\ UNCHANGED Audit!auditVars
      PROVE  AuditInv'
  BY <1>3, AuditStarts, AuditQueues, AuditExecutes, AuditPublishes, AuditQuarantines, AuditCompletes,
     AuditRecovers, AuditCrashes DEF Audit!auditVars
<1> QED BY <1>1, <1>2, <1>3 DEF Audit!Next

LEMMA AuditStarted == Audit!Init => AuditInv
<1> SUFFICES ASSUME Audit!Init PROVE AuditInv
  OBVIOUS
<1>1. AuditTables
  BY DEF Audit!Init, AuditTables, Processes, AuditJob, Absent, Audit!Absent
<1>2. AuditRuns
  BY DEF Audit!Init, AuditRuns, Once, Attempted, AuditJob, Audit!Absent
<1>3. \A p \in Process : AuditPlace(pc[p], me[p]) /\ retained[p] = Nothing
  BY DEF Audit!Init, AuditPlace
<1>4. AuditDone
  BY DEF Audit!Init, AuditDone, AuditJob, Audit!Absent
<1> QED BY <1>1, <1>2, <1>3, <1>4 DEF AuditInv

LEMMA AuditHolds == AuditInv => Audit!AuditedOnce /\ Audit!EffectsBeforeCompletion
<1> SUFFICES ASSUME AuditInv PROVE Audit!AuditedOnce /\ Audit!EffectsBeforeCompletion
  OBVIOUS
<1>1. Audit!AuditedOnce
  BY DEF AuditInv, AuditRuns, Once, Audit!AuditedOnce
<1>2. ASSUME job[AuditJob].state = "completed"
      PROVE  Audit!Outcomes = {job[AuditJob].result}
  <2>1. PICK o : o = job[AuditJob].result
    OBVIOUS
  <2>2. rows[AuditJob] = <<{Audit!Configuration, o}>> /\ o[1] \in {"report", "failure"}
    BY <1>2, <2>1, Outcomes DEF AuditInv, AuditDone, FrozenAs
  <2>3. Audit!Newest(AuditJob) = {Audit!Configuration, o}
    BY <2>2 DEF Audit!Newest
  <2>4. Audit!Configuration[1] = "configuration"
    BY DEF Audit!Configuration, Audit!Receipt
  <2> QED BY <2>1, <2>2, <2>3, <2>4 DEF Audit!Outcomes, AuditJob
<1>3. job[AuditJob].state = "completed" => \A r \in job[AuditJob].result[2] : notice[r] # "absent"
  BY DEF AuditInv, AuditDone, Noticed
<1> QED BY <1>1, <1>2, <1>3 DEF Audit!EffectsBeforeCompletion, AuditJob
-----------------------------------------------------------------------------
(* Grading.                                                                *)

LEMMA GradeControl ==
    ASSUME NEW p, NEW j, NEW ok, NEW bad, NEW n, NEW receipts, NEW result
    PROVE  /\ Grade!Goto(p, ok) => Goto(p, ok)
           /\ Grade!Enqueued(p, j, ok) => Enqueued(p, j, ok)
           /\ Grade!Claimed(p, j, ok) => Claimed(p, j, ok)
           /\ Grade!Completed(p, j, j, n, result, ok) => Completed(p, j, j, n, result, ok)
           /\ Grade!Extended(p, j, receipts, ok, bad) => Extended(p, j, receipts, ok, bad)
<1>1. /\ Grade!Goto(p, ok) => Goto(p, ok)
      /\ Grade!Enqueued(p, j, ok) => Enqueued(p, j, ok)
      /\ Grade!Claimed(p, j, ok) => Claimed(p, j, ok)
  BY DEF Grade!Enqueued, Grade!Claimed, Grade!Call, Grade!Goto, Enqueued, Claimed, Call, Goto
<1>2. Grade!Completed(p, j, j, n, result, ok) => Completed(p, j, j, n, result, ok)
  BY DEF Grade!Completed, Grade!Call, Grade!Goto, Grade!Newest, Completed, Call, Goto, Newest
<1>3. Grade!Extended(p, j, receipts, ok, bad) => Extended(p, j, receipts, ok, bad)
  BY DEF Grade!Extended, Grade!Call, Grade!Goto, Grade!Newest, Extended, Call, Goto, Newest
<1> QED BY <1>1, <1>2, <1>3

GradeRow == Newest(TheGrade)

LEMMA GradeConstants ==
    /\ TheGrade' = TheGrade /\ TheGrade = Grade!Grade
    /\ GradeRow = Grade!Newest(Grade!Grade)
    /\ Grade!Request' = Grade!Request /\ Grade!Original' = Grade!Original /\ Grade!FrozenGrade' = Grade!FrozenGrade
    /\ Grade!Request # Grade!Original /\ Grade!Request # Grade!FrozenGrade
    /\ \A n : Grade!PendingGrade(n) # Grade!Original
  BY DEF TheGrade, Grade!Grade, GradeRow, Newest, Grade!Newest, Grade!Request, Grade!Original, Grade!FrozenGrade,
         Grade!PendingGrade, Grade!Receipt

\* A step of p that runs no worker.
LEMMA GradeStep ==
    ASSUME GradeInv, NEW p \in Process, Apart(p), GradeTables', UNCHANGED <<runs, verdict>>,
           GradeRow \subseteq GradeRow', GradeRow' \subseteq GradeRow \cup {Grade!Request} \/ Decided,
           Grade!Original \in GradeRow' => Grade!Original \in GradeRow \/ Grade!Request \in GradeRow,
           Attempted(TheGrade) => Attempted(TheGrade)',
           pc'[p] \in {"intent", "worker"} =>
               pc[p] \in {"intent", "worker"} \/ (~Attempted(TheGrade) /\ Attempted(TheGrade)'),
           GradePlace(pc[p])', retained'[p] # Nothing => Decided,
           \/ job'[TheGrade] = job[TheGrade] \/ job'[TheGrade].state # "completed"
           \/ Decided /\ job'[TheGrade].result = verdict
              /\ {Grade!Request, Grade!Original, Grade!FrozenGrade} \subseteq job'[TheGrade].bound
    PROVE  GradeInv'
<1>1. GradeRuns'
  <2>1. PICK S, T, n, j : /\ S = {q \in Process : pc[q] \in {"intent", "worker"}}
                          /\ T = {q \in Process : pc'[q] \in {"intent", "worker"}}
                          /\ n = runs /\ j = TheGrade
    OBVIOUS
  <2>2. j = TheGrade' /\ n = runs'
    BY <2>1, GradeConstants
  <2>3. T \subseteq S \/ (~Attempted(TheGrade) /\ Attempted(TheGrade)' /\ T \subseteq S \cup {p})
    BY <2>1 DEF Apart
  <2>4. Once(n, j, S) /\ (Attempted(j) => Attempted(j)')
    BY <2>1, <2>2 DEF GradeInv, GradeRuns, Attempted
  <2>5. T \subseteq S \/ (~Attempted(j) /\ Attempted(j)' /\ T \subseteq S \cup {p})
    BY <2>1, <2>2, <2>3 DEF Attempted
  <2>6. Once(n, j, T)'
    BY <2>4, <2>5, OnceStep
  <2> QED BY <2>1, <2>2, <2>6 DEF GradeRuns
<1>2. Decided' = Decided
  BY DEF Decided
<1>3. GradeRecord'
  <2>1. Decided' => runs' = 1
    BY <1>2 DEF GradeInv, GradeRecord
  <2>2. GradeRow' \ {Grade!Request} # {} => Decided
    BY DEF GradeInv, GradeRecord, GradeRow
  <2>3. Grade!Original \in GradeRow' => Grade!Request \in GradeRow'
    BY DEF GradeInv, GradeRecord, GradeRow
  <2>4. PICK j : j = TheGrade /\ j = TheGrade' /\ j = Grade!Grade
    BY GradeConstants
  <2>5. job[j].state = "completed" =>
            /\ verdict # "none" /\ job[j].result = verdict
            /\ {Grade!Request, Grade!Original, Grade!FrozenGrade} \subseteq job[j].bound
    BY <2>4 DEF GradeInv, GradeRecord, Grade!GradeBindsOriginal
  <2>6. job'[j].state = "completed" =>
            /\ verdict' # "none" /\ job'[j].result = verdict'
            /\ {Grade!Request, Grade!Original, Grade!FrozenGrade} \subseteq job'[j].bound
    <3>1. CASE job'[j] = job[j]
      BY <2>5, <3>1
    <3>2. CASE Decided /\ job'[TheGrade].result = verdict
               /\ {Grade!Request, Grade!Original, Grade!FrozenGrade} \subseteq job'[TheGrade].bound
      BY <2>4, <3>2 DEF Decided
    <3> QED BY <2>4, <3>1, <3>2
  <2>7. Grade!GradeBindsOriginal'
    BY <2>4, <2>6, GradeConstants DEF Grade!GradeBindsOriginal
  <2> QED BY <1>2, <2>1, <2>2, <2>3, <2>7, GradeConstants DEF GradeRecord, GradeRow
<1>4. ASSUME NEW q \in Process
      PROVE  GradePlace(pc[q])' /\ (retained'[q] # Nothing => Decided)
  <2>1. CASE q = p
    BY <2>1
  <2>2. CASE q # p
    <3>1. PICK place : place = pc[q] /\ place = pc'[q]
      BY <2>2 DEF Apart
    <3>2. GradePlace(place)
      BY <3>1 DEF GradeInv
    <3>3. GradePlace(place)'
      BY <1>2, <3>2, GradeConstants DEF GradePlace, GradeRow
    <3> QED BY <2>2, <3>1, <3>3 DEF Apart, GradeInv
  <2> QED BY <2>1, <2>2
<1> QED BY <1>1, <1>2, <1>3, <1>4 DEF GradeInv

\* ... and moves p only.
LEMMA GradeMoves ==
    ASSUME GradeInv, NEW p \in Process, NEW label, Goto(p, label), label \notin {"intent", "worker"},
           UNCHANGED <<rows, job, runs, verdict>>,
           UNCHANGED me \/ \E m : me' = [me EXCEPT ![p] = m],
           UNCHANGED retained \/ \E x : retained' = [retained EXCEPT ![p] = x],
           retained'[p] = retained[p] \/ retained'[p] = Nothing \/ Decided,
           GradePlace(label)
    PROVE  GradeInv'
<1>1. Processes
  BY DEF GradeInv, GradeTables
<1>2. Apart(p) /\ pc'[p] = label
  BY <1>1, Moves
<1>3. GradeTables' /\ GradeRow' = GradeRow
  BY <1>2, GradeConstants DEF GradeInv, GradeTables, Apart, Absent, IsRow, GradeRow, Newest
<1>4. GradePlace(label)'
  BY <1>3, GradeConstants DEF GradePlace, GradeRow, Decided
<1>5. job'[TheGrade] = job[TheGrade] /\ Attempted(TheGrade)' = Attempted(TheGrade)
  BY GradeConstants DEF Attempted
<1>6. retained'[p] # Nothing => Decided
  BY DEF GradeInv
<1> QED BY <1>2, <1>3, <1>4, <1>5, <1>6, GradeStep

\* What may be written at a place, and where the writer goes on.
GradeWrite(place, receipts, ok) ==
    /\ receipts \subseteq {Grade!Request} \/ Decided
    /\ Grade!Original \in receipts => Grade!Request \in GradeRow
    /\ ok \in {"intent", "worker"} => place = "intent"
    /\ ok \in {"retain link", "record original"} => Decided
    /\ ok = "record original" => Grade!Request \in receipts
    /\ ok \notin {"retain", "republish", "record"}
    /\ ok = "complete" => {Grade!Request, Grade!Original, Grade!FrozenGrade} \subseteq GradeRow \cup receipts

\* ... and extends the row.
LEMMA GradeWrites ==
    ASSUME GradeInv, NEW p \in Process, NEW receipts, NEW ok, Grade!Extended(p, Grade!Grade, receipts, ok, "idle"),
           UNCHANGED <<job, runs, verdict>>,
           GradeWrite(pc[p], receipts, ok),
           UNCHANGED me \/ \E m : me' = [me EXCEPT ![p] = m],
           UNCHANGED retained \/ (Decided /\ \E x : retained' = [retained EXCEPT ![p] = x])
    PROVE  GradeInv'
<1>1. PICK j : j = TheGrade /\ j = TheGrade' /\ j = Grade!Grade
  BY GradeConstants
<1>2. Processes /\ j \in DOMAIN rows /\ IsRow(rows[j]) /\ DOMAIN rows = {j}
  BY <1>1 DEF GradeInv, GradeTables
<1>3. Extended(p, j, receipts, ok, "idle")
  BY <1>1, GradeControl
<1>4. /\ Rerow(j)
      /\ Newest(j) \subseteq Newest(j)' /\ Newest(j)' \subseteq Newest(j) \cup receipts
      /\ Goto(p, "idle") \/ (Goto(p, ok) /\ receipts \subseteq Newest(j)')
  BY <1>2, <1>3, Extensions
<1>5. Newest(j) = GradeRow /\ Newest(j)' = GradeRow'
  BY <1>1 DEF GradeRow, Newest
<1>6. PICK label : Goto(p, label) /\ (label = "idle" \/ (label = ok /\ receipts \subseteq GradeRow'))
  BY <1>4, <1>5
<1>7. Apart(p) /\ pc'[p] = label
  BY <1>2, <1>6, Moves
<1>8. GradeTables'
  BY <1>1, <1>2, <1>4, <1>7 DEF GradeInv, GradeTables, Rerow, Apart, Absent
<1>9. GradePlace(label)'
  BY <1>4, <1>5, <1>6, GradeConstants DEF GradeWrite, GradePlace, GradeRow, Decided
<1>10. job'[TheGrade] = job[TheGrade] /\ Attempted(TheGrade)' = Attempted(TheGrade)
  BY GradeConstants DEF Attempted
<1>11. retained'[p] # Nothing => Decided
  BY DEF GradeInv
<1>12. pc'[p] \in {"intent", "worker"} => pc[p] = "intent"
  BY <1>6, <1>7 DEF GradeWrite
<1>13. GradePlace(pc[p])'
  BY <1>7, <1>9
<1>14. GradeRow \subseteq GradeRow' /\ (GradeRow' \subseteq GradeRow \cup {Grade!Request} \/ Decided)
  BY <1>4, <1>5 DEF GradeWrite
<1>15. Grade!Original \in GradeRow' => Grade!Original \in GradeRow \/ Grade!Request \in GradeRow
  BY <1>4, <1>5 DEF GradeWrite
<1> QED BY <1>7, <1>8, <1>10, <1>11, <1>12, <1>13, <1>14, <1>15, GradeStep
-----------------------------------------------------------------------------
(* The steps of a grade.                                                   *)

LEMMA GradeRecoversAt ==
    ASSUME GradeInv
    PROVE  /\ Grade!RecoverAt \in {"publish", "republish", "idle"} /\ GradePlace(Grade!RecoverAt)
           /\ \A label \in {"enqueue", "idle", "publish"} : GradePlace(label)
           /\ Decided => \A label \in {"record", "republish", "retain"} : GradePlace(label)
<1>1. Grade!RecoverAt \in {"publish", "republish", "idle"}
  BY DEF Grade!RecoverAt
<1>2. Grade!RecoverAt = "republish" => Grade!Linked # {}
  BY DEF Grade!RecoverAt
<1>3. Grade!RecoverAt = "republish" => Decided
  BY <1>2, GradeConstants DEF Grade!Linked, GradeInv, GradeRecord, GradeRow
<1> QED BY <1>1, <1>3 DEF GradePlace

LEMMA GradeBegins ==
    ASSUME GradeInv, NEW p \in Process, Grade!StartGrade(p) \/ Grade!Recover(p) \/ Grade!RetryPublication(p)
    PROVE  GradeInv'
<1>1. UNCHANGED <<rows, job, runs, verdict, retained>>
  BY DEF Grade!StartGrade, Grade!Recover, Grade!RetryPublication, Grade!gradeVars
<1>2. PICK label, m : Grade!Begin(p, label, m) /\ label \notin {"intent", "worker"} /\ GradePlace(label)
  <2>1. CASE Grade!StartGrade(p)
    BY <2>1, GradeRecoversAt DEF Grade!StartGrade
  <2>2. CASE Grade!Recover(p)
    BY <2>2, GradeRecoversAt DEF Grade!Recover
  <2>3. CASE Grade!RetryPublication(p)
    <3>1. Decided
      BY <2>3 DEF Grade!RetryPublication, GradeInv
    <3>2. PICK label : /\ label = CASE retained[p].kind = "result" -> "record"
                                    [] retained[p].kind = "frozen" -> "publish"
                                    [] OTHER -> Grade!RecoverAt
                       /\ label \in {"record", "publish", Grade!RecoverAt}
      OBVIOUS
    <3>3. label \notin {"intent", "worker"} /\ GradePlace(label)
      BY <3>1, <3>2, GradeRecoversAt
    <3> QED BY <2>3, <3>2, <3>3 DEF Grade!RetryPublication
  <2> QED BY <2>1, <2>2, <2>3
<1>3. Goto(p, label) /\ me' = [me EXCEPT ![p] = m]
  BY <1>2, GradeControl DEF Grade!Begin
<1>4. retained'[p] = retained[p]
  BY <1>1
<1> QED BY <1>1, <1>2, <1>3, <1>4, GradeMoves

LEMMA GradeQueues ==
    ASSUME GradeInv, NEW p \in Process, Grade!Enqueue(p) \/ Grade!Claim(p) \/ Grade!Complete(p)
    PROVE  GradeInv'
<1>1. PICK j : j = TheGrade /\ j = TheGrade' /\ j = Grade!Grade
  BY GradeConstants
<1>2. /\ j \in DOMAIN job /\ DOMAIN job[j] = DOMAIN Absent /\ Processes
      /\ UNCHANGED <<rows, me, retained, runs, verdict>>
  BY <1>1 DEF GradeInv, GradeTables, Grade!Enqueue, Grade!Claim, Grade!Complete, Grade!gradeVars
<1>3. /\ Rejob(j)
      /\ \/ job'[j] = job[j]
         \/ job[j].state \in {"absent", "queued"} /\ job'[j].state \in {"queued", "running"}
         \/ /\ Grade!Complete(p) /\ job[j].state = "running" /\ job'[j].state = "completed"
            /\ job'[j].result = verdict /\ job'[j].bound = Newest(j)
      /\ \/ Goto(p, "idle") \/ Goto(p, "claim")
         \/ Goto(p, "intent") /\ job[j].state = "queued" /\ job'[j].state = "running"
  <2>1. CASE Grade!Enqueue(p)
    BY <2>1, <1>1, <1>2, GradeControl, Enqueues DEF Grade!Enqueue
  <2>2. CASE Grade!Claim(p)
    BY <2>2, <1>1, <1>2, GradeControl, Claims DEF Grade!Claim
  <2>3. CASE Grade!Complete(p)
    <3>1. Completed(p, j, j, me[p].seen, verdict, "idle")
      BY <2>3, <1>1, GradeControl DEF Grade!Complete
    <3> QED BY <2>3, <3>1, <1>2, Completions
  <2> QED BY <2>1, <2>2, <2>3
<1>4. PICK label : Goto(p, label) /\ label \in {"idle", "claim", "intent"}
                   /\ (label = "intent" => job[j].state = "queued" /\ job'[j].state = "running")
  BY <1>3
<1>5. Apart(p) /\ pc'[p] = label
  BY <1>2, <1>4, Moves
<1>6. GradeTables' /\ GradeRow' = GradeRow
  BY <1>1, <1>2, <1>3, <1>5, GradeConstants DEF GradeInv, GradeTables, Apart, Rejob, Absent, IsRow, GradeRow, Newest
<1>7. Attempted(j) => Attempted(j)'
  BY <1>3, KeepsAttempt
<1>8. label = "intent" => ~Attempted(j) /\ Attempted(j)'
  BY <1>4 DEF Attempted
<1>9. GradePlace(pc[p])'
  BY <1>4, <1>5 DEF GradePlace
<1>10. retained'[p] # Nothing => Decided
  BY <1>2 DEF GradeInv
<1>11. \/ job'[j] = job[j] \/ job'[j].state # "completed"
       \/ Decided /\ job'[j].result = verdict
          /\ {Grade!Request, Grade!Original, Grade!FrozenGrade} \subseteq job'[j].bound
  <2>1. CASE Grade!Complete(p)
    <3>1. {Grade!Request, Grade!Original, Grade!FrozenGrade} \subseteq GradeRow
      BY <2>1 DEF Grade!Complete, Grade!At, GradeInv, GradePlace, GradeRow
    <3>2. Decided
      BY <3>1, GradeConstants DEF GradeInv, GradeRecord, GradeRow
    <3>3. Newest(j) = GradeRow
      BY <1>1 DEF GradeRow
    <3> QED BY <1>3, <3>1, <3>2, <3>3
  <2> QED BY <1>3, <2>1
<1>12. (Attempted(TheGrade) => Attempted(TheGrade)')
       /\ (pc'[p] \in {"intent", "worker"} => ~Attempted(TheGrade) /\ Attempted(TheGrade)')
  BY <1>1, <1>4, <1>5, <1>7, <1>8
<1> QED BY <1>1, <1>2, <1>5, <1>6, <1>9, <1>10, <1>11, <1>12, GradeStep

LEMMA GradeWorks ==
    ASSUME GradeInv, NEW p \in Process, Grade!RunWorker(p)
    PROVE  GradeInv'
<1>1. /\ Processes /\ pc[p] = "worker" /\ runs' = runs + 1 /\ UNCHANGED <<rows, job, retained>>
  BY DEF GradeInv, GradeTables, Grade!RunWorker, Grade!At
<1>2. PICK label : /\ label \in {"record", "retain", "idle"} /\ Goto(p, label)
                   /\ label # "idle" => verdict' \in {"accepted", "rejected"}
                   /\ label = "idle" => UNCHANGED verdict
  <2>1. CASE Grade!Goto(p, "record") /\ verdict' \in {"accepted", "rejected"}
    BY <2>1, GradeControl
  <2>2. CASE Grade!Goto(p, "retain") /\ verdict' \in {"accepted", "rejected"}
    BY <2>2, GradeControl
  <2>3. CASE Grade!Goto(p, "idle") /\ UNCHANGED verdict
    BY <2>3, GradeControl
  <2> QED BY <2>1, <2>2, <2>3 DEF Grade!RunWorker
<1>3. UNCHANGED me \/ \E m : me' = [me EXCEPT ![p] = m]
  BY DEF Grade!RunWorker
<1>4. Apart(p) /\ pc'[p] = label
  BY <1>1, <1>2, <1>3, Moves
<1>5. GradeTables' /\ GradeRow' = GradeRow
  BY <1>1, <1>4, GradeConstants DEF GradeInv, GradeTables, Apart, Absent, IsRow, GradeRow, Newest
<1>6. PICK S, T, n, j : /\ S = {q \in Process : pc[q] \in {"intent", "worker"}}
                        /\ T = {q \in Process : pc'[q] \in {"intent", "worker"}}
                        /\ n = runs /\ j = TheGrade /\ j = TheGrade' /\ j = Grade!Grade
  BY GradeConstants
<1>7. Once(n, j, S) /\ p \in S
  BY <1>1, <1>6 DEF GradeInv, GradeRuns
<1>8. GradeRuns'
  <2>1. PICK k : k = n + 1
    OBVIOUS
  <2>2. T \subseteq S \ {p}
    BY <1>2, <1>4, <1>6 DEF Apart
  <2>3. Attempted(j) => Attempted(j)'
    BY <1>1 DEF Attempted
  <2>4. Once(k, j, T)'
    BY <1>7, <2>1, <2>2, <2>3, OnceStep
  <2> QED BY <1>1, <1>6, <2>1, <2>4 DEF GradeRuns
<1>9. runs = 0 /\ ~Decided
  BY <1>6, <1>7 DEF Once, GradeInv, GradeRecord
<1>10. job[j].state # "completed" /\ GradeRow \subseteq {Grade!Request}
  BY <1>6, <1>9, GradeConstants DEF GradeInv, GradeRecord, Grade!GradeBindsOriginal, Decided, GradeRow
<1>11. GradeRecord'
  <2>1. Decided' => runs' = 1
    BY <1>1, <1>9
  <2>2. Grade!GradeBindsOriginal'
    BY <1>1, <1>6, <1>10, GradeConstants DEF Grade!GradeBindsOriginal
  <2> QED BY <1>5, <1>10, <2>1, <2>2, GradeConstants DEF GradeRecord, GradeRow
<1>12. ASSUME NEW q \in Process
       PROVE  GradePlace(pc[q])' /\ (retained'[q] # Nothing => Decided')
  <2>1. retained'[q] = Nothing
    BY <1>1, <1>9 DEF GradeInv
  <2>2. CASE q = p
    <3>1. label # "idle" => Decided'
      BY <1>2 DEF Decided
    <3> QED BY <1>2, <1>4, <2>1, <2>2, <3>1 DEF GradePlace
  <2>3. CASE q # p
    <3>1. PICK place : place = pc[q] /\ place = pc'[q]
      BY <1>4, <2>3 DEF Apart
    <3>2. GradePlace(place)
      BY <3>1 DEF GradeInv
    <3>3. GradePlace(place)'
      BY <1>5, <1>9, <3>2, GradeConstants DEF GradePlace, GradeRow
    <3> QED BY <2>1, <3>1, <3>3
  <2> QED BY <2>2, <2>3
<1> QED BY <1>5, <1>8, <1>11, <1>12 DEF GradeInv

LEMMA GradeExtends ==
    ASSUME GradeInv, NEW p \in Process,
           \/ Grade!Intent(p) \/ Grade!RetainPending(p) \/ Grade!RetainLink(p) \/ Grade!RecordOriginal(p)
    PROVE  GradeInv'
<1>1. GradePlace(pc[p])
  BY DEF GradeInv
<1>2. UNCHANGED <<job, me, runs, verdict>>
  BY DEF Grade!Intent, Grade!RetainPending, Grade!RetainLink, Grade!RecordOriginal, Grade!gradeVars
<1>3. CASE Grade!Intent(p)
  <2>1. Grade!Extended(p, Grade!Grade, {Grade!Request}, "worker", "idle") /\ UNCHANGED retained /\ pc[p] = "intent"
    BY <1>3 DEF Grade!Intent, Grade!At
  <2>2. GradeWrite(pc[p], {Grade!Request}, "worker")
    BY <2>1, GradeConstants DEF GradeWrite
  <2> QED BY <1>2, <2>1, <2>2, GradeWrites
<1>4. CASE Grade!RetainPending(p)
  <2>1. /\ Grade!Extended(p, Grade!Grade, {Grade!Request}, "retain link", "idle") /\ Decided
        /\ UNCHANGED retained \/ \E x : retained' = [retained EXCEPT ![p] = x]
    BY <1>1, <1>4 DEF Grade!RetainPending, Grade!At, Grade!Retains, GradePlace
  <2>2. GradeWrite(pc[p], {Grade!Request}, "retain link")
    BY <2>1, GradeConstants DEF GradeWrite
  <2> QED BY <1>2, <2>1, <2>2, GradeWrites
<1>5. CASE Grade!RetainLink(p)
  <2>1. PICK n : n = me[p].left
    OBVIOUS
  <2>2. /\ Grade!Extended(p, Grade!Grade, {Grade!PendingGrade(n)}, "idle", "idle") /\ Decided
        /\ UNCHANGED retained \/ \E x : retained' = [retained EXCEPT ![p] = x]
    BY <1>1, <1>5, <2>1 DEF Grade!RetainLink, Grade!At, Grade!Retains, GradePlace
  <2>3. GradeWrite(pc[p], {Grade!PendingGrade(n)}, "idle")
    BY <2>2, GradeConstants DEF GradeWrite
  <2> QED BY <1>2, <2>2, <2>3, GradeWrites
<1>6. CASE Grade!RecordOriginal(p)
  <2>1. /\ Grade!Extended(p, Grade!Grade, {Grade!Original}, "publish", "idle") /\ Decided /\ Grade!Request \in GradeRow
        /\ UNCHANGED retained \/ \E x : retained' = [retained EXCEPT ![p] = x]
    BY <1>1, <1>6 DEF Grade!RecordOriginal, Grade!At, Grade!Retains, GradePlace, GradeRow
  <2>2. GradeWrite(pc[p], {Grade!Original}, "publish")
    BY <2>1, GradeConstants DEF GradeWrite
  <2> QED BY <1>2, <2>1, <2>2, GradeWrites
<1> QED BY <1>3, <1>4, <1>5, <1>6

LEMMA GradeRecords ==
    ASSUME GradeInv, NEW p \in Process, Grade!Record(p)
    PROVE  GradeInv'
<1>1. Decided /\ UNCHANGED <<me, runs, verdict>>
  BY DEF GradeInv, GradePlace, Grade!Record, Grade!At, Grade!gradeVars
<1>2. CASE job[Grade!Grade].state = "completed"
  <2>1. Grade!Ends(p) /\ UNCHANGED retained
    BY <1>2 DEF Grade!Record
  <2>2. Goto(p, "idle") /\ UNCHANGED <<rows, job>>
    BY <2>1, GradeControl DEF Grade!Ends
  <2> QED BY <1>1, <2>1, <2>2, GradeMoves, GradeRecoversAt
<1>3. CASE job[Grade!Grade].state # "completed"
  <2>1. /\ Grade!Extended(p, Grade!Grade, {Grade!Request}, "record original", "idle") /\ UNCHANGED job
        /\ UNCHANGED retained \/ \E x : retained' = [retained EXCEPT ![p] = x]
    BY <1>3 DEF Grade!Record, Grade!Retains
  <2>2. GradeWrite(pc[p], {Grade!Request}, "record original")
    BY <1>1, GradeConstants DEF GradeWrite
  <2> QED BY <1>1, <2>1, <2>2, GradeWrites
<1> QED BY <1>2, <1>3

LEMMA GradePublishes ==
    ASSUME GradeInv, NEW p \in Process, Grade!Publish(p)
    PROVE  GradeInv'
<1>1. UNCHANGED <<runs, verdict>>
  BY DEF Grade!Publish, Grade!gradeVars
<1>2. CASE job[Grade!Grade].state = "completed" \/ ~Grade!Publishable
  <2>1. Grade!Ends(p) /\ UNCHANGED <<me, retained>>
    BY <1>2 DEF Grade!Publish
  <2>2. Goto(p, "idle") /\ UNCHANGED <<rows, job>>
    BY <2>1, GradeControl DEF Grade!Ends
  <2> QED BY <1>1, <2>1, <2>2, GradeMoves, GradeRecoversAt
<1>3. CASE ~(job[Grade!Grade].state = "completed" \/ ~Grade!Publishable)
  <2>1. /\ Grade!Extended(p, Grade!Grade, {Grade!FrozenGrade}, "complete", "idle") /\ UNCHANGED job
        /\ UNCHANGED retained \/ \E x : retained' = [retained EXCEPT ![p] = x]
        /\ \E m : me' = [me EXCEPT ![p] = m]
    BY <1>3 DEF Grade!Publish, Grade!Retains
  <2>2. Grade!Original \in GradeRow
    BY <1>3, GradeConstants DEF Grade!Publishable
  <2>3. Decided /\ Grade!Request \in GradeRow
    BY <2>2, GradeConstants DEF GradeInv, GradeRecord, GradeRow
  <2>4. GradeWrite(pc[p], {Grade!FrozenGrade}, "complete")
    BY <2>2, <2>3, GradeConstants DEF GradeWrite
  <2> QED BY <1>1, <2>1, <2>3, <2>4, GradeWrites
<1> QED BY <1>2, <1>3

LEMMA GradeRepublishes ==
    ASSUME GradeInv, NEW p \in Process, Grade!Republish(p)
    PROVE  GradeInv'
<1>1. Decided /\ UNCHANGED <<rows, job, retained, runs, verdict>>
  BY DEF GradeInv, GradePlace, Grade!Republish, Grade!At, Grade!gradeVars
<1>2. PICK label \in {"record", "retain"} : Goto(p, label)
  BY GradeControl DEF Grade!Republish
<1>3. UNCHANGED me \/ \E m : me' = [me EXCEPT ![p] = m]
  BY DEF Grade!Republish
<1>4. GradePlace(label) /\ label \notin {"intent", "worker"}
  BY <1>1, <1>2, GradeRecoversAt
<1> QED BY <1>1, <1>2, <1>3, <1>4, GradeMoves

LEMMA GradeCrashes ==
    ASSUME GradeInv, NEW p \in Process, Grade!Crash(p), UNCHANGED Grade!gradeVars
    PROVE  GradeInv'
<1>1. UNCHANGED <<rows, job, me, runs, verdict>> /\ Goto(p, "idle") /\ retained' = [retained EXCEPT ![p] = Nothing]
  BY GradeControl DEF Grade!Crash, Grade!gradeVars
<1>2. retained'[p] = Nothing
  BY <1>1 DEF GradeInv, GradeTables, Processes
<1> QED BY <1>1, <1>2, GradeMoves, GradeRecoversAt

LEMMA GradeStutters ==
    ASSUME GradeInv, UNCHANGED Grade!vars
    PROVE  GradeInv'
<1>1. UNCHANGED <<rows, pc, job, me, retained, runs, verdict>>
  BY DEF Grade!vars, Grade!controlVars, Grade!ledgerVars, Grade!gradeVars
<1>2. GradeTables'
  BY <1>1, GradeConstants DEF GradeInv, GradeTables, Processes, Absent, IsRow
<1>3. GradeRuns'
  BY <1>1, GradeConstants DEF GradeInv, GradeRuns, Once, Attempted
<1>4. GradeRow' = GradeRow /\ Decided' = Decided /\ (Grade!GradeBindsOriginal => Grade!GradeBindsOriginal')
  BY <1>1, GradeConstants DEF GradeRow, Newest, Decided, Grade!GradeBindsOriginal
<1>5. GradeRecord'
  BY <1>1, <1>4, GradeConstants DEF GradeInv, GradeRecord, GradeRow
<1>6. \A p \in Process : GradePlace(pc[p])' /\ (retained'[p] # Nothing => Decided')
  BY <1>1, <1>4, GradeConstants DEF GradeInv, GradePlace, GradeRow
<1> QED BY <1>2, <1>3, <1>5, <1>6 DEF GradeInv

LEMMA GradeNext ==
    ASSUME GradeInv, [Grade!Next]_Grade!vars
    PROVE  GradeInv'
<1>1. ASSUME NEW p \in Process,
             \/ Grade!StartGrade(p) \/ Grade!Enqueue(p) \/ Grade!Claim(p) \/ Grade!Intent(p) \/ Grade!RunWorker(p)
             \/ Grade!RetainPending(p) \/ Grade!RetainLink(p) \/ Grade!Republish(p)
             \/ Grade!Record(p) \/ Grade!RecordOriginal(p) \/ Grade!Publish(p) \/ Grade!Complete(p)
             \/ Grade!Recover(p) \/ Grade!RetryPublication(p)
             \/ Grade!Crash(p) /\ UNCHANGED Grade!gradeVars
      PROVE  GradeInv'
  BY <1>1, GradeBegins, GradeQueues, GradeWorks, GradeExtends, GradeRecords, GradePublishes, GradeRepublishes,
     GradeCrashes
<1> QED BY <1>1, GradeStutters DEF Grade!Next

LEMMA GradeStarted == Grade!Init => GradeInv
<1> SUFFICES ASSUME Grade!Init PROVE GradeInv
  OBVIOUS
<1>1. GradeTables
  <2>1. IsRow(<<>>)
    <3>1. <<>> \in Seq({})
      OBVIOUS
    <3> QED BY <3>1 DEF IsRow
  <2> QED BY <2>1 DEF Grade!Init, GradeTables, Processes, TheGrade, Absent, Grade!Absent
<1>2. GradeRuns
  BY DEF Grade!Init, GradeRuns, Once, Attempted, TheGrade, Grade!Absent
<1>3. GradeRecord
  BY GradeConstants DEF Grade!Init, GradeRecord, Decided, Newest, Grade!GradeBindsOriginal, Grade!Absent
<1>4. \A p \in Process : GradePlace(pc[p]) /\ retained[p] = Nothing
  BY DEF Grade!Init, GradePlace
<1> QED BY <1>1, <1>2, <1>3, <1>4 DEF GradeInv

LEMMA GradeHolds == GradeInv => Grade!GradedOnce /\ Grade!GradeBindsOriginal
<1> SUFFICES ASSUME GradeInv PROVE Grade!GradedOnce /\ Grade!GradeBindsOriginal
  OBVIOUS
<1> QED BY DEF GradeInv, GradeRuns, Once, GradeRecord, Grade!GradedOnce
-----------------------------------------------------------------------------
(* Authoring.                                                              *)

LEMMA AuthorControl ==
    ASSUME NEW p, NEW j, NEW ok, NEW bad, NEW n, NEW receipts, NEW result
    PROVE  /\ Authoring!Goto(p, ok) => Goto(p, ok)
           /\ Authoring!Enqueued(p, j, ok) => Enqueued(p, j, ok)
           /\ Authoring!Claimed(p, j, ok) => Claimed(p, j, ok)
           /\ Authoring!Completed(p, j, j, n, result, ok) => Completed(p, j, j, n, result, ok)
           /\ Authoring!Extended(p, j, receipts, ok, bad) => Extended(p, j, receipts, ok, bad)
           /\ Authoring!Newest(j) = Newest(j) /\ (Authoring!Open(j) <=> Open(j))
<1>1. /\ Authoring!Goto(p, ok) => Goto(p, ok)
      /\ Authoring!Enqueued(p, j, ok) => Enqueued(p, j, ok)
      /\ Authoring!Claimed(p, j, ok) => Claimed(p, j, ok)
  BY DEF Authoring!Enqueued, Authoring!Claimed, Authoring!Call, Authoring!Goto, Enqueued, Claimed, Call, Goto
<1>2. Authoring!Completed(p, j, j, n, result, ok) => Completed(p, j, j, n, result, ok)
  BY DEF Authoring!Completed, Authoring!Call, Authoring!Goto, Authoring!Newest, Completed, Call, Goto, Newest
<1>3. Authoring!Extended(p, j, receipts, ok, bad) => Extended(p, j, receipts, ok, bad)
  BY DEF Authoring!Extended, Authoring!Call, Authoring!Goto, Authoring!Newest, Extended, Call, Goto, Newest
<1>4. Authoring!Newest(j) = Newest(j) /\ (Authoring!Open(j) <=> Open(j))
  BY DEF Authoring!Newest, Newest, Authoring!Open, Open
<1> QED BY <1>1, <1>2, <1>3, <1>4

LEMMA AuthorConstants ==
    /\ Calls' = Calls /\ Request' = Request /\ Cost' = Cost /\ Statuses' = Statuses
    /\ Authoring!BatchLock' = Authoring!BatchLock
    /\ \A c : Authoring!Candidate(c)' = Authoring!Candidate(c) /\ Authoring!CandidateLock(c) # Authoring!BatchLock
    /\ Request \notin Statuses /\ Cost \notin Statuses /\ Authoring!Attempt \notin Statuses
    /\ \A r \in {Request, Cost, Authoring!Attempt} \cup Statuses : r[1] # "receipt"
    /\ Statuses = {Authoring!Fresh, Authoring!Replayed}
    /\ \A s, n : Authoring!Frozen(s, n)[1] = "receipt" /\ Authoring!Frozen(s, n)[2][1] = s
  BY DEF Calls, Authoring!Calls, Request, Authoring!Request, Cost, Authoring!Cost, Statuses, Authoring!Fresh,
         Authoring!Replayed, Authoring!Attempt, Authoring!BatchLock, Authoring!Candidate, Authoring!CandidateLock,
         Authoring!Frozen, Authoring!Receipt

\* Rows only grow.
AuthorKept == \A c \in Calls : Newest(c) \subseteq Newest(c)'

LEMMA AuthorPlaceKept ==
    ASSUME AuthorKept, NEW place, NEW m, place # "idle" => m.call \in Calls, AuthorPlace(place, m)
    PROVE  AuthorPlace(place, m)'
<1>1. CASE place = "idle"
  BY <1>1 DEF AuthorPlace
<1>2. CASE place # "idle"
  <2>1. PICK c \in Calls : c = m.call
    BY <1>2
  <2>2. Newest(c) \subseteq Newest(c)'
    BY DEF AuthorKept
  <2> QED BY <2>1, <2>2, AuthorConstants DEF AuthorPlace, Drawn
<1> QED BY <1>1, <1>2

LEMMA AuthorRetainedKept ==
    ASSUME AuthorKept, NEW x, AuthorRetained(x)
    PROVE  AuthorRetained(x)'
<1>1. CASE x = Nothing
  BY <1>1 DEF AuthorRetained
<1>2. CASE x # Nothing
  <2>1. PICK c \in Calls : c = x.call
    BY <1>2 DEF AuthorRetained
  <2>2. Newest(c) \subseteq Newest(c)'
    BY DEF AuthorKept
  <2> QED BY <2>1, <2>2, AuthorConstants DEF AuthorRetained, Drawn
<1> QED BY <1>1, <1>2

\* What p may do to the locks and to the jobs.
Dispatching == {"intent", "attempt", "run"}

AuthorAllowed(p) ==
    /\ \A c \in Calls : Attempted(c) => Attempted(c)'
    /\ pc'[p] \in Dispatching =>
          \/ pc[p] \in Dispatching /\ me'[p].call = me[p].call
          \/ \E c \in Calls : c = me'[p].call /\ ~Attempted(c) /\ Attempted(c)'
    /\ \A c \in Calls : Open(c)' => Open(c) \/ (pc[p] = "enqueue" /\ c = me[p].call)
    /\ pc'[p] # "idle" /\ Authoring!BatchLock \in me'[p].holds =>
          \/ pc[p] # "idle" /\ Authoring!BatchLock \in me[p].holds
          \/ Authoring!Free(p, Authoring!BatchLock)
    /\ pc'[p] \in {"look up", "enqueue"} => Authoring!BatchLock \in me'[p].holds
    /\ pc'[p] = "enqueue" =>
          \A d \in Calls : d # me'[p].call /\ Authoring!Candidate(d) = Authoring!Candidate(me'[p].call) => ~Open(d)'

LEMMA AuthorLocksStep ==
    ASSUME AuthorInv, NEW p \in Process, Apart(p), AuthorAllowed(p)
    PROVE  AuthorLocked' /\ Authoring!OneCallOpen'
<1>1. PICK b : b = Authoring!BatchLock /\ b = Authoring!BatchLock'
  BY AuthorConstants
<1>2. ASSUME NEW q \in Process, q # p, pc'[q] # "idle", b \in me'[q].holds,
             pc'[p] # "idle", b \in me'[p].holds
      PROVE  FALSE
  <2>1. pc[q] # "idle" /\ b \in me[q].holds
    BY <1>2 DEF Apart
  <2>2. CASE pc[p] # "idle" /\ b \in me[p].holds
    BY <1>1, <1>2, <2>1, <2>2 DEF AuthorInv, AuthorLocked
  <2>3. CASE Authoring!Free(p, b)
    BY <1>2, <2>1, <2>3 DEF Authoring!Free, Authoring!At
  <2> QED BY <1>1, <1>2, <2>2, <2>3 DEF AuthorAllowed
<1>3. \A r, q \in Process :
        /\ pc'[r] # "idle" /\ b \in me'[r].holds /\ pc'[q] # "idle" /\ b \in me'[q].holds => r = q
  <2> SUFFICES ASSUME NEW r \in Process, NEW q \in Process, pc'[r] # "idle", b \in me'[r].holds,
                      pc'[q] # "idle", b \in me'[q].holds, r # q
               PROVE  FALSE
    OBVIOUS
  <2>1. CASE r = p \/ q = p
    BY <2>1, <1>2
  <2>2. CASE r # p /\ q # p
    BY <1>1, <2>2 DEF Apart, AuthorInv, AuthorLocked
  <2> QED BY <2>1, <2>2
<1>4. \A q \in Process : pc'[q] \in {"look up", "enqueue"} => b \in me'[q].holds
  BY <1>1 DEF Apart, AuthorAllowed, AuthorInv, AuthorLocked
<1>5. ASSUME NEW q \in Process, pc'[q] = "enqueue", NEW d \in Calls, d # me'[q].call,
             Authoring!Candidate(d) = Authoring!Candidate(me'[q].call)
      PROVE  ~Open(d)'
  <2>1. CASE q = p
    BY <1>5, <2>1 DEF AuthorAllowed
  <2>2. CASE q # p
    <3>1. pc[q] = "enqueue" /\ me'[q] = me[q]
      BY <1>5, <2>2 DEF Apart
    <3>2. ~Open(d)
      BY <1>5, <3>1 DEF AuthorInv, AuthorLocked
    <3>3. pc[p] # "enqueue"
      BY <1>1, <2>2, <3>1 DEF AuthorInv, AuthorLocked
    <3> QED BY <3>2, <3>3 DEF AuthorAllowed
  <2> QED BY <2>1, <2>2
<1>6. \A q \in Process : pc'[q] = "enqueue" =>
         \A d \in Calls : d # me'[q].call /\ Authoring!Candidate(d) = Authoring!Candidate(me'[q].call) => ~Open(d)'
  BY <1>5
<1>7. AuthorLocked'
  BY <1>1, <1>3, <1>4, <1>6, AuthorConstants DEF AuthorLocked, Authoring!Candidate
<1>8. ASSUME NEW c \in Calls, NEW d \in Calls, Open(c)', Open(d)',
             Authoring!Candidate(c) = Authoring!Candidate(d), c # d
      PROVE  FALSE
  <2>1. Open(c) \/ (pc[p] = "enqueue" /\ c = me[p].call)
    BY <1>8 DEF AuthorAllowed
  <2>2. Open(d) \/ (pc[p] = "enqueue" /\ d = me[p].call)
    BY <1>8 DEF AuthorAllowed
  <2>3. CASE Open(c) /\ Open(d)
    BY <1>8, <2>3, AuthorControl DEF AuthorInv, Authoring!OneCallOpen, Calls
  <2>4. CASE pc[p] = "enqueue" /\ c = me[p].call
    BY <1>8, <2>2, <2>4 DEF AuthorInv, AuthorLocked
  <2>5. CASE pc[p] = "enqueue" /\ d = me[p].call
    BY <1>8, <2>1, <2>5 DEF AuthorInv, AuthorLocked
  <2> QED BY <2>1, <2>2, <2>3, <2>4, <2>5
<1>9. Authoring!OneCallOpen'
  BY <1>8, AuthorConstants DEF Authoring!OneCallOpen, Authoring!Open, Open, Calls, Authoring!Candidate
<1> QED BY <1>7, <1>9

\* A step of p that does not reach the model.
LEMMA AuthorStep ==
    ASSUME AuthorInv, NEW p \in Process, Apart(p), AuthorTables', AuthorKept, UNCHANGED runs,
           AuthorAllowed(p), \A c \in Calls : AuthorRecord(c)',
           AuthorPlace(pc[p], me[p])', AuthorRetained(retained[p])'
    PROVE  AuthorInv'
<1>1. AuthorLocked' /\ Authoring!OneCallOpen'
  BY AuthorLocksStep
<1>2. ASSUME NEW c \in Calls
      PROVE  Once(runs[c], c, Running(c))'
  <2>1. PICK S, T, n : S = Running(c) /\ T = Running(c)' /\ n = runs[c]
    OBVIOUS
  <2>2. T \subseteq S \/ (~Attempted(c) /\ Attempted(c)' /\ T \subseteq S \cup {p})
    <3>1. \A q \in Process \ {p} : q \in T => q \in S
      BY <2>1 DEF Running, Apart
    <3>2. CASE pc'[p] \in Dispatching /\ me'[p].call = c
      <4>1. p \in S \/ (~Attempted(c) /\ Attempted(c)')
        BY <2>1, <3>2 DEF AuthorAllowed, Running, Dispatching
      <4>2. T \subseteq S \cup {p}
        BY <2>1, <3>1 DEF Running
      <4> QED BY <4>1, <4>2
    <3>3. CASE ~(pc'[p] \in Dispatching /\ me'[p].call = c)
      <4>1. p \notin T
        BY <2>1, <3>3 DEF Running, Dispatching
      <4> QED BY <2>1, <3>1, <4>1 DEF Running
    <3> QED BY <3>2, <3>3
  <2>3. Once(n, c, S) /\ (Attempted(c) => Attempted(c)')
    BY <2>1 DEF AuthorInv, AuthorRuns, AuthorAllowed
  <2>4. Once(n, c, T)'
    BY <2>2, <2>3, OnceStep
  <2> QED BY <2>1, <2>4
<1>3. AuthorRuns'
  BY <1>2, AuthorConstants DEF AuthorRuns
<1>4. ASSUME NEW q \in Process
      PROVE  AuthorPlace(pc[q], me[q])' /\ AuthorRetained(retained[q])'
  <2>1. CASE q = p
    BY <2>1
  <2>2. CASE q # p
    <3>1. PICK place, m, x : /\ place = pc[q] /\ m = me[q] /\ x = retained[q]
                             /\ place = pc'[q] /\ m = me'[q] /\ x = retained'[q]
      BY <2>2 DEF Apart
    <3>2. AuthorPlace(place, m) /\ AuthorRetained(x) /\ (place # "idle" => m.call \in Calls)
      BY <3>1 DEF AuthorInv, AuthorTables
    <3>3. AuthorPlace(place, m)' /\ AuthorRetained(x)'
      BY <3>2, AuthorPlaceKept, AuthorRetainedKept
    <3> QED BY <3>1, <3>3
  <2> QED BY <2>1, <2>2
<1> QED BY <1>1, <1>3, <1>4, AuthorConstants DEF AuthorInv

LEMMA AuthorRecordGrows ==
    ASSUME NEW c, AuthorRecord(c), NEW receipts, job'[c] = job[c],
           Newest(c) \subseteq Newest(c)', Newest(c)' \subseteq Newest(c) \cup receipts,
           receipts \cap Statuses # {} => {Request, Cost} \subseteq Newest(c),
           \A r \in receipts : r[1] = "receipt" => Drawn(c, r)
    PROVE  AuthorRecord(c)'
<1>1. Newest(c)' \cap Statuses # {} => {Request, Cost} \subseteq Newest(c)'
  BY DEF AuthorRecord
<1>2. ASSUME NEW r \in Newest(c)', r[1] = "receipt"
      PROVE  Drawn(c, r)'
  <2>1. Drawn(c, r)
    BY <1>2 DEF AuthorRecord
  <2> QED BY <2>1, AuthorConstants DEF Drawn
<1>3. job'[c].state = "completed" =>
         job'[c].result \in job'[c].bound /\ {Request, Cost, job'[c].result[2][1]} \subseteq job'[c].bound
  BY DEF AuthorRecord
<1> QED BY <1>1, <1>2, <1>3, AuthorConstants DEF AuthorRecord

\* A step that writes to no row.
LEMMA AuthorRecordSame ==
    ASSUME NEW c, AuthorRecord(c), UNCHANGED rows,
           \/ job'[c] = job[c] \/ job'[c].state # "completed"
           \/ job'[c].result \in job'[c].bound /\ {Request, Cost, job'[c].result[2][1]} \subseteq job'[c].bound
    PROVE  AuthorRecord(c)'
<1>1. Newest(c)' = Newest(c)
  BY DEF Newest
<1>2. \A r : Drawn(c, r) => Drawn(c, r)'
  BY <1>1, AuthorConstants DEF Drawn
<1>3. job'[c].state = "completed" =>
         job'[c].result \in job'[c].bound /\ {Request, Cost, job'[c].result[2][1]} \subseteq job'[c].bound
  BY DEF AuthorRecord
<1> QED BY <1>1, <1>2, <1>3, AuthorConstants DEF AuthorRecord

\* p goes to a label with the memory m and retains x.
Moved(p, label, m, x) ==
    /\ Goto(p, label)
    /\ \/ UNCHANGED me /\ m = me[p]
       \/ me' = [me EXCEPT ![p] = m]
    /\ \/ UNCHANGED retained /\ x = retained[p]
       \/ retained' = [retained EXCEPT ![p] = x]

LEMMA MovedThere ==
    ASSUME Processes, NEW p \in Process, NEW label, NEW m, NEW x, Moved(p, label, m, x)
    PROVE  Apart(p) /\ pc'[p] = label /\ me'[p] = m /\ retained'[p] = x
<1>1. Apart(p) /\ pc'[p] = label
  BY Moves DEF Moved
<1> QED BY <1>1 DEF Moved, Processes

IsCall(m) == m.call \in Calls /\ DOMAIN m = {"call", "holds", "status", "replay", "receipt", "seen"}

\* Where p may go with the memory m.
AuthorGo(p, label, m) ==
    /\ label # "idle" => IsCall(m)
    /\ label # "idle" /\ Authoring!BatchLock \in m.holds =>
          \/ pc[p] # "idle" /\ Authoring!BatchLock \in me[p].holds
          \/ Authoring!Free(p, Authoring!BatchLock)
    /\ label \in {"look up", "enqueue"} => Authoring!BatchLock \in m.holds
    /\ label = "enqueue" =>
          \A d \in Calls : d # m.call /\ Authoring!Candidate(d) = Authoring!Candidate(m.call) => ~Open(d)

LEMMA AuthorTablesStep ==
    ASSUME AuthorTables, NEW p \in Process, Apart(p), NEW label, NEW m, pc'[p] = label, me'[p] = m,
           label # "idle" => IsCall(m),
           DOMAIN rows' = Calls, DOMAIN job' = Calls, DOMAIN runs' = Calls, DOMAIN outcome' = Calls,
           \A c \in Calls : IsRow(rows'[c]) /\ DOMAIN job'[c] = DOMAIN Absent
    PROVE  AuthorTables'
<1>1. ASSUME NEW q \in Process, pc'[q] # "idle"
      PROVE  IsCall(me'[q])
  <2>1. CASE q = p
    BY <1>1, <2>1
  <2>2. CASE q # p
    BY <1>1, <2>2 DEF Apart, AuthorTables, IsCall
  <2> QED BY <2>1, <2>2
<1>2. \A q \in Process : pc'[q] # "idle" =>
         me'[q].call \in Calls /\ DOMAIN me'[q] = {"call", "holds", "status", "replay", "receipt", "seen"}
  BY <1>1 DEF IsCall
<1>3. \A c \in Calls : IsRow(rows[c])' /\ DOMAIN job'[c] = DOMAIN Absent
  BY DEF IsRow
<1>4. Processes' /\ Absent' = Absent
  BY DEF Apart, Absent
<1> QED BY <1>2, <1>3, <1>4, AuthorConstants DEF AuthorTables

\* Control moves, and memory.
LEMMA AuthorMoves ==
    ASSUME AuthorInv, NEW p \in Process, NEW label, NEW m, NEW x, Moved(p, label, m, x),
           UNCHANGED <<rows, job, runs>>, DOMAIN outcome' = DOMAIN outcome,
           label \notin Dispatching, AuthorGo(p, label, m), AuthorPlace(label, m), AuthorRetained(x)
    PROVE  AuthorInv'
<1>1. AuthorTables /\ Processes
  BY DEF AuthorInv, AuthorTables
<1>2. Apart(p) /\ pc'[p] = label /\ me'[p] = m /\ retained'[p] = x
  BY <1>1, MovedThere
<1>3. AuthorTables'
  BY <1>1, <1>2, AuthorTablesStep DEF AuthorTables, AuthorGo
<1>4. AuthorKept
  BY DEF AuthorKept, Newest
<1>5. \A c \in Calls : AuthorRecord(c)'
  BY AuthorRecordSame DEF AuthorInv
<1>6. AuthorPlace(label, m)' /\ AuthorRetained(x)'
  BY <1>4, AuthorPlaceKept, AuthorRetainedKept DEF AuthorGo, IsCall
<1>7. AuthorPlace(pc[p], me[p])' /\ AuthorRetained(retained[p])'
  BY <1>2, <1>6
<1>8. \A c : Open(c)' = Open(c) /\ Attempted(c)' = Attempted(c)
  BY DEF Open, Attempted
<1>9. AuthorAllowed(p)
  BY <1>2, <1>8 DEF AuthorAllowed, AuthorGo
<1> QED BY <1>2, <1>3, <1>4, <1>5, <1>7, <1>9, AuthorStep

\* A call's row is extended.
LEMMA AuthorWrites ==
    ASSUME AuthorInv, NEW p \in Process, NEW c \in Calls, NEW receipts, NEW ok, NEW label, NEW m, NEW x,
           pc[p] # "idle", c = me[p].call, Authoring!Extended(p, c, receipts, ok, "idle"),
           Moved(p, label, m, x), UNCHANGED <<job, runs, outcome>>,
           IsCall(m), m.call = c, m.holds = me[p].holds,
           receipts \cap Statuses # {} => {Request, Cost} \subseteq Newest(c),
           \A r \in receipts : r[1] = "receipt" => Drawn(c, r),
           ok \notin {"look up", "enqueue"}, ok \in Dispatching => pc[p] \in Dispatching,
           receipts \subseteq Newest(c)' => AuthorPlace(ok, m)', AuthorRetained(x)
    PROVE  AuthorInv'
<1>1. AuthorTables /\ Processes
  BY DEF AuthorInv, AuthorTables
<1>2. Apart(p) /\ pc'[p] = label /\ me'[p] = m /\ retained'[p] = x
  BY <1>1, MovedThere
<1>3. c \in DOMAIN rows /\ IsRow(rows[c]) /\ DOMAIN rows = Calls
  BY <1>1 DEF AuthorTables
<1>4. /\ Rerow(c)
      /\ Newest(c) \subseteq Newest(c)' /\ Newest(c)' \subseteq Newest(c) \cup receipts
      /\ Goto(p, "idle") \/ (Goto(p, ok) /\ receipts \subseteq Newest(c)')
  BY <1>3, AuthorControl, Extensions
<1>5. label = "idle" \/ (label = ok /\ receipts \subseteq Newest(c)')
  BY <1>1, <1>2, <1>4 DEF Goto, Processes
<1>6. AuthorTables'
  BY <1>1, <1>2, <1>3, <1>4, AuthorTablesStep DEF AuthorTables, Rerow
<1>7. \A d \in Calls \ {c} : rows'[d] = rows[d]
  BY <1>3, <1>4 DEF Rerow
<1>8. AuthorKept
  BY <1>4, <1>7 DEF AuthorKept, Newest
<1>9. ASSUME NEW d \in Calls
      PROVE  AuthorRecord(d)'
  <2>1. AuthorRecord(d)
    BY DEF AuthorInv
  <2>2. CASE d = c
    BY <1>4, <2>1, <2>2, AuthorRecordGrows
  <2>3. CASE d # c
    <3>1. Newest(d)' = Newest(d)
      BY <1>7, <2>3 DEF Newest
    <3>2. job'[d] = job[d] /\ {} \cap Statuses = {}
      OBVIOUS
    <3>3. Newest(d)' \subseteq Newest(d) \cup {} /\ Newest(d) \subseteq Newest(d)'
      BY <3>1
    <3>4. \A r \in {} : r[1] = "receipt" => Drawn(d, r)
      OBVIOUS
    <3> QED BY <2>1, <3>2, <3>3, <3>4, AuthorRecordGrows
  <2> QED BY <2>2, <2>3
<1>10. AuthorPlace(label, m)' /\ AuthorRetained(x)'
  <2>1. label = "idle" => AuthorPlace(label, m)'
    BY DEF AuthorPlace
  <2> QED BY <1>5, <1>8, <2>1, AuthorRetainedKept
<1>11. AuthorPlace(pc[p], me[p])' /\ AuthorRetained(retained[p])'
  BY <1>2, <1>10
<1>12. \A d : Open(d)' = Open(d) /\ Attempted(d)' = Attempted(d)
  BY DEF Open, Attempted
<1>13. AuthorAllowed(p)
  BY <1>2, <1>5, <1>12 DEF AuthorAllowed, Dispatching
<1> QED BY <1>2, <1>6, <1>8, <1>9, <1>11, <1>13, AuthorStep
-----------------------------------------------------------------------------
(* The beginnings of an authoring call.                                    *)

LEMMA AuthorBegins ==
    ASSUME AuthorInv, NEW p \in Process, NEW label, NEW m, Authoring!Begin(p, label, m),
           UNCHANGED <<rows, job, retained, runs, outcome>>,
           label \notin Dispatching, AuthorGo(p, label, m), AuthorPlace(label, m)
    PROVE  AuthorInv'
<1>1. PICK x : x = retained[p]
  OBVIOUS
<1>2. Moved(p, label, m, x)
  BY <1>1, AuthorControl DEF Moved, Authoring!Begin
<1>3. AuthorRetained(x)
  BY <1>1 DEF AuthorInv
<1> QED BY <1>2, <1>3, AuthorMoves

IsCallOf(m, c, holds) == IsCall(m) /\ m.call = c /\ m.holds = holds

LEMMA WorkingCall ==
    ASSUME NEW c \in Calls, NEW holds, NEW m, m = Authoring!Working(c, holds)
    PROVE  IsCallOf(m, c, holds)
<1>1. /\ DOMAIN m = DOMAIN Authoring!Working(c, holds)
      /\ m.call = c /\ m.holds = holds
  BY DEF Authoring!Working
<1> QED BY <1>1 DEF Authoring!Working, IsCallOf, IsCall

\* ... or the same with another status or receipt.
LEMMA WorkingOther ==
    ASSUME NEW c \in Calls, NEW holds, NEW m,
           DOMAIN m = DOMAIN Authoring!Working(c, holds),
           m.call = c, m.holds = holds
    PROVE  IsCallOf(m, c, holds)
  BY DEF Authoring!Working, IsCallOf, IsCall

LEMMA LastStatuses ==
    ASSUME NEW c
    PROVE  /\ Newest(c) \cap Statuses # {} => Authoring!LastStatus(c) \in Newest(c) \cap Statuses
           /\ Authoring!LastStatus(c) # Nothing => Newest(c) \cap Statuses # {}
           /\ \A r \in Authoring!Receipts(c) : r \in Newest(c) /\ r[1] = "receipt"
<1>1. Authoring!Newest(c) = Newest(c)
  BY DEF Authoring!Newest, Newest
<1> QED BY <1>1, AuthorConstants DEF Authoring!LastStatus, Authoring!Receipts

LEMMA AuthorAsks ==
    ASSUME AuthorInv, NEW p \in Process, NEW c \in Calls, Authoring!Author(p, c)
    PROVE  AuthorInv'
<1>1. PICK m : m = Authoring!Working(c, Authoring!AuthorLocks(c))
  OBVIOUS
<1>2. IsCall(m) /\ m.holds = Authoring!AuthorLocks(c)
  BY <1>1, WorkingCall DEF IsCallOf
<1>3. Authoring!BatchLock \in m.holds /\ Authoring!Free(p, Authoring!BatchLock)
  BY <1>2 DEF Authoring!Author, Authoring!AuthorLocks
<1>4. AuthorGo(p, "look up", m) /\ AuthorPlace("look up", m) /\ "look up" \notin Dispatching
  BY <1>2, <1>3 DEF AuthorGo, AuthorPlace, Dispatching
<1>5. /\ Authoring!Begin(p, "look up", m)
      /\ UNCHANGED <<rows, job, retained, runs, outcome>>
  BY <1>1 DEF Authoring!Author, Authoring!authoringVars
<1> QED BY <1>4, <1>5, AuthorBegins

LEMMA AuthorRecovers ==
    ASSUME AuthorInv, NEW p \in Process, NEW c \in Calls, Authoring!Recover(p, c)
    PROVE  AuthorInv'
<1>1. PICK holds, s, label : /\ holds = {Authoring!CandidateLock(c)} /\ s = Authoring!LastStatus(c)
                             /\ label = Authoring!RecoverAt(c)
  OBVIOUS
<1>2. PICK r : /\ r \in IF Authoring!Receipts(c) = {} THEN {Nothing} ELSE Authoring!Receipts(c)
               /\ Authoring!Begin(p, label, [Authoring!Working(c, holds) EXCEPT !.status = s, !.receipt = r])
  BY <1>1 DEF Authoring!Recover
<1>3. PICK m : m = [Authoring!Working(c, holds) EXCEPT !.status = s, !.receipt = r]
  OBVIOUS
<1>4. IsCall(m) /\ m.call = c /\ m.holds = holds /\ m.status = s /\ m.receipt = r
  <2>1. DOMAIN m = DOMAIN Authoring!Working(c, holds) /\ m.call = c /\ m.holds = holds /\ m.status = s /\ m.receipt = r
    BY <1>3 DEF Authoring!Working
  <2> QED BY <2>1, WorkingOther DEF IsCallOf
<1>5. label \in {"select", "journal", "idle"} /\ label \notin Dispatching
  BY <1>1 DEF Authoring!RecoverAt, Dispatching
<1>6. label = "journal" => s \in Statuses \cap Newest(c)
  BY <1>1, LastStatuses DEF Authoring!RecoverAt
<1>7. AuthorGo(p, label, m) /\ AuthorPlace(label, m)
  <2>1. label = "select" => Drawn(c, r)
    BY <1>1, <1>2, LastStatuses DEF Authoring!RecoverAt, AuthorInv, AuthorRecord
  <2> QED BY <1>1, <1>4, <1>5, <1>6, <2>1, AuthorConstants DEF AuthorGo, AuthorPlace
<1>8. UNCHANGED <<rows, job, retained, runs, outcome>>
  BY DEF Authoring!Recover, Authoring!authoringVars
<1> QED BY <1>2, <1>3, <1>5, <1>7, <1>8, AuthorBegins

LEMMA AuthorRetries ==
    ASSUME AuthorInv, NEW p \in Process, Authoring!Retry(p)
    PROVE  AuthorInv'
<1>1. PICK x, c : x = retained[p] /\ c = x.call
  OBVIOUS
<1>2. x # Nothing /\ AuthorRetained(x) /\ c \in Calls
  BY <1>1 DEF Authoring!Retry, AuthorInv, AuthorRetained
<1>3. PICK holds : holds = IF x.kind = "receipt" THEN {} ELSE {Authoring!CandidateLock(c)}
  OBVIOUS
<1>4. Authoring!BatchLock \notin holds
  BY <1>3, AuthorConstants
<1>5. UNCHANGED <<rows, job, retained, runs, outcome>>
  BY DEF Authoring!Retry, Authoring!authoringVars
<1>6. \/ /\ x.kind = "provider"
         /\ Authoring!Begin(p, Authoring!Resume(c), [Authoring!Working(c, holds) EXCEPT !.replay = TRUE])
      \/ /\ x.kind \in {"artifact", "journal"}
         /\ Authoring!Begin(p, "journal", [Authoring!Working(c, holds) EXCEPT !.status =
                                IF x.kind = "artifact" THEN x.receipt ELSE Authoring!LastStatus(c)])
      \/ /\ x.kind = "receipt"
         /\ Authoring!Begin(p, "select", [Authoring!Working(c, holds) EXCEPT !.receipt = x.receipt])
  BY <1>1, <1>3 DEF Authoring!Retry
<1>7. CASE /\ x.kind = "provider"
           /\ Authoring!Begin(p, Authoring!Resume(c), [Authoring!Working(c, holds) EXCEPT !.replay = TRUE])
  <2>1. PICK label, m : label = Authoring!Resume(c) /\ m = [Authoring!Working(c, holds) EXCEPT !.replay = TRUE]
    OBVIOUS
  <2>2. IsCall(m) /\ m.call = c /\ m.holds = holds
    <3>1. DOMAIN m = DOMAIN Authoring!Working(c, holds) /\ m.call = c /\ m.holds = holds
      BY <2>1 DEF Authoring!Working
    <3> QED BY <1>2, <3>1, WorkingOther DEF IsCallOf
  <2>3. label \in {"attempt again", "cost", "status"} /\ label \notin Dispatching
    BY <2>1 DEF Authoring!Resume, Dispatching
  <2>4. label = "status" => Cost \in Newest(c)
    BY <2>1 DEF Authoring!Resume, Authoring!Newest, Newest, Cost
  <2>5. AuthorGo(p, label, m) /\ AuthorPlace(label, m)
    BY <1>2, <1>1, <1>4, <1>7, <2>2, <2>3, <2>4 DEF AuthorGo, AuthorPlace, AuthorRetained
  <2> QED BY <1>5, <1>7, <2>1, <2>3, <2>5, AuthorBegins
<1>8. CASE /\ x.kind \in {"artifact", "journal"}
           /\ Authoring!Begin(p, "journal", [Authoring!Working(c, holds) EXCEPT !.status =
                                  IF x.kind = "artifact" THEN x.receipt ELSE Authoring!LastStatus(c)])
  <2>1. PICK s : s = IF x.kind = "artifact" THEN x.receipt ELSE Authoring!LastStatus(c)
    OBVIOUS
  <2>2. PICK m : m = [Authoring!Working(c, holds) EXCEPT !.status = s]
    OBVIOUS
  <2>3. IsCall(m) /\ m.call = c /\ m.holds = holds /\ m.status = s
    <3>1. DOMAIN m = DOMAIN Authoring!Working(c, holds) /\ m.call = c /\ m.holds = holds /\ m.status = s
      BY <2>2 DEF Authoring!Working
    <3> QED BY <1>2, <3>1, WorkingOther DEF IsCallOf
  <2>4. s \in Statuses \cap Newest(c)
    BY <1>1, <1>2, <1>8, <2>1, LastStatuses DEF AuthorRetained
  <2>5. AuthorGo(p, "journal", m) /\ AuthorPlace("journal", m) /\ "journal" \notin Dispatching
    BY <1>4, <2>3, <2>4 DEF AuthorGo, AuthorPlace, Dispatching
  <2> QED BY <1>5, <1>8, <2>1, <2>2, <2>5, AuthorBegins
<1>9. CASE /\ x.kind = "receipt"
           /\ Authoring!Begin(p, "select", [Authoring!Working(c, holds) EXCEPT !.receipt = x.receipt])
  <2>1. PICK r, m : r = x.receipt /\ m = [Authoring!Working(c, holds) EXCEPT !.receipt = r]
    OBVIOUS
  <2>2. IsCall(m) /\ m.call = c /\ m.holds = holds /\ m.receipt = r
    <3>1. DOMAIN m = DOMAIN Authoring!Working(c, holds) /\ m.call = c /\ m.holds = holds /\ m.receipt = r
      BY <2>1 DEF Authoring!Working
    <3> QED BY <1>2, <3>1, WorkingOther DEF IsCallOf
  <2>3. AuthorGo(p, "select", m) /\ AuthorPlace("select", m) /\ "select" \notin Dispatching
    BY <1>1, <1>2, <1>4, <1>9, <2>1, <2>2 DEF AuthorGo, AuthorPlace, AuthorRetained, Dispatching
  <2> QED BY <1>5, <1>9, <2>1, <2>3, AuthorBegins
<1> QED BY <1>6, <1>7, <1>8, <1>9
-----------------------------------------------------------------------------
(* The steps of an authoring call.                                         *)

\* A step within a call, under the locks it holds.
LEMMA AuthorGoesOn ==
    ASSUME AuthorInv, NEW p \in Process, NEW label, NEW m, NEW x, Moved(p, label, m, x), pc[p] # "idle",
           UNCHANGED <<rows, job, runs, outcome>>,
           IsCall(m), m.holds = me[p].holds,
           label \notin Dispatching \cup {"look up", "enqueue"}, AuthorPlace(label, m), AuthorRetained(x)
    PROVE  AuthorInv'
<1>1. AuthorGo(p, label, m)
  BY DEF AuthorGo
<1> QED BY <1>1, AuthorMoves

LEMMA AuthorAt ==
    ASSUME AuthorInv, NEW p \in Process, pc[p] # "idle"
    PROVE  IsCall(me[p]) /\ AuthorPlace(pc[p], me[p]) /\ AuthorRetained(retained[p]) /\ me[p].call \in Calls
  BY DEF AuthorInv, AuthorTables, IsCall

LEMMA AuthorLooksUp ==
    ASSUME AuthorInv, NEW p \in Process, Authoring!LookUp(p)
    PROVE  AuthorInv'
<1>1. PICK m, x, c : m = me[p] /\ x = retained[p] /\ c = m.call
  OBVIOUS
<1>2. pc[p] = "look up"
  BY DEF Authoring!LookUp, Authoring!At
<1>3. IsCall(m) /\ AuthorRetained(x) /\ c \in Calls
  BY <1>1, <1>2, AuthorAt
<1>4. Authoring!BatchLock \in m.holds
  BY <1>1, <1>2 DEF AuthorInv, AuthorLocked
<1>5. PICK label : /\ Authoring!Goto(p, label) /\ label \in {"claim", "enqueue", "idle"}
                   /\ label = "enqueue" => Authoring!MayEnqueue(c)
  <2>1. PICK label : /\ Authoring!Goto(p, label)
                     /\ label = IF job[c].state = "queued" THEN "claim"
                                ELSE IF c \notin Authoring!Known /\ Authoring!MayEnqueue(c) THEN "enqueue" ELSE "idle"
    BY <1>1 DEF Authoring!LookUp
  <2> QED BY <2>1
<1>6. Moved(p, label, m, x) /\ UNCHANGED <<rows, job, runs, outcome>>
  BY <1>1, <1>5, AuthorControl DEF Moved, Authoring!LookUp, Authoring!authoringVars
<1>7. ASSUME label = "enqueue", NEW d \in Calls, d # c, Authoring!Candidate(d) = Authoring!Candidate(c)
      PROVE  ~Open(d)
  <2>1. CASE d \in Authoring!Known
    BY <1>5, <1>7, <2>1 DEF Authoring!MayEnqueue, Authoring!Siblings, Open
  <2>2. CASE d \notin Authoring!Known
    BY <1>7, <2>2 DEF Authoring!Known, Calls, Open
  <2> QED BY <2>1, <2>2
<1>8. AuthorGo(p, label, m)
  BY <1>1, <1>2, <1>3, <1>4, <1>7 DEF AuthorGo
<1>9. AuthorPlace(label, m) /\ label \notin Dispatching
  BY <1>5 DEF AuthorPlace, Dispatching
<1> QED BY <1>3, <1>6, <1>8, <1>9, AuthorMoves

LEMMA AuthorQueues ==
    ASSUME AuthorInv, NEW p \in Process, Authoring!Enqueue(p) \/ Authoring!Claim(p) \/ Authoring!Complete(p)
    PROVE  AuthorInv'
<1>1. PICK m, x, c : m = me[p] /\ x = retained[p] /\ c = m.call
  OBVIOUS
<1>2. pc[p] \in {"enqueue", "claim", "complete"} /\ pc[p] # "idle"
  BY DEF Authoring!Enqueue, Authoring!Claim, Authoring!Complete, Authoring!At
<1>3. IsCall(m) /\ AuthorRetained(x) /\ c \in Calls
  BY <1>1, <1>2, AuthorAt
<1>4. /\ DOMAIN job = Calls /\ c \in DOMAIN job /\ DOMAIN job[c] = DOMAIN Absent /\ AuthorTables
      /\ UNCHANGED <<rows, me, retained, runs, outcome>>
  BY <1>3 DEF AuthorInv, AuthorTables, Authoring!Enqueue, Authoring!Claim, Authoring!Complete, Authoring!authoringVars
<1>5. /\ Rejob(c)
      /\ \/ job'[c] = job[c]
         \/ job[c].state = "absent" /\ job'[c].state = "queued" /\ pc[p] = "enqueue"
         \/ job[c].state = "queued" /\ job'[c].state \in {"queued", "running"}
         \/ /\ pc[p] = "complete" /\ job[c].state = "running" /\ job'[c].state = "completed"
            /\ job'[c].result = m.receipt /\ job'[c].bound = Newest(c)
      /\ \/ Goto(p, "idle") \/ Goto(p, "claim")
         \/ Goto(p, "intent") /\ job[c].state = "queued" /\ job'[c].state = "running"
  <2>1. CASE Authoring!Enqueue(p)
    <3>1. Enqueued(p, c, "claim") /\ pc[p] = "enqueue"
      BY <1>1, <2>1, AuthorControl DEF Authoring!Enqueue, Authoring!At
    <3> QED BY <3>1, <1>4, Enqueues
  <2>2. CASE Authoring!Claim(p)
    <3>1. Claimed(p, c, "intent")
      BY <1>1, <2>2, AuthorControl DEF Authoring!Claim
    <3> QED BY <3>1, <1>4, Claims
  <2>3. CASE Authoring!Complete(p)
    <3>1. Completed(p, c, c, m.seen, m.receipt, "idle") /\ pc[p] = "complete"
      BY <1>1, <2>3, AuthorControl DEF Authoring!Complete, Authoring!At
    <3> QED BY <3>1, <1>4, Completions
  <2> QED BY <2>1, <2>2, <2>3
<1>6. PICK label : /\ Goto(p, label) /\ label \in {"idle", "claim", "intent"}
                   /\ label = "intent" => job[c].state = "queued" /\ job'[c].state = "running"
  BY <1>5
<1>7. Apart(p) /\ pc'[p] = label /\ me'[p] = m /\ retained'[p] = x
  <2>1. Moved(p, label, m, x) /\ Processes
    BY <1>1, <1>4, <1>6 DEF Moved, AuthorTables
  <2> QED BY <2>1, MovedThere
<1>8. AuthorTables'
  BY <1>3, <1>4, <1>5, <1>7, AuthorTablesStep DEF AuthorTables, Rejob
<1>9. AuthorKept
  BY <1>4 DEF AuthorKept, Newest
<1>10. \A d \in Calls : d # c => job'[d] = job[d]
  BY <1>4, <1>5 DEF Rejob
<1>11. ASSUME NEW d \in Calls
       PROVE  AuthorRecord(d)'
  <2>1. AuthorRecord(d)
    BY DEF AuthorInv
  <2>2. CASE job'[d] = job[d] \/ job'[d].state # "completed"
    BY <1>4, <2>1, <2>2, AuthorRecordSame
  <2>3. CASE ~(job'[d] = job[d] \/ job'[d].state # "completed")
    <3>1. d = c /\ pc[p] = "complete" /\ job'[c].result = m.receipt /\ job'[c].bound = Newest(c)
      BY <1>5, <1>10, <2>3
    <3>2. Drawn(c, m.receipt) /\ m.receipt \in Newest(c)
      BY <1>1, <1>2, <3>1, AuthorAt DEF AuthorPlace
    <3>3. job'[d].result \in job'[d].bound /\ {Request, Cost, job'[d].result[2][1]} \subseteq job'[d].bound
      BY <3>1, <3>2 DEF Drawn
    <3> QED BY <1>4, <2>1, <3>3, AuthorRecordSame
  <2> QED BY <2>2, <2>3
<1>12. AuthorPlace(label, m)' /\ AuthorRetained(x)'
  BY <1>3, <1>6, <1>9, AuthorRetainedKept DEF AuthorPlace
<1>13. AuthorPlace(pc[p], me[p])' /\ AuthorRetained(retained[p])'
  BY <1>7, <1>12
<1>14. Attempted(c) => Attempted(c)'
  BY <1>5, KeepsAttempt
<1>15. \A d \in Calls : Attempted(d) => Attempted(d)'
  BY <1>10, <1>14 DEF Attempted
<1>16. \A d \in Calls : Open(d)' => Open(d) \/ (pc[p] = "enqueue" /\ d = c)
  BY <1>5, <1>10 DEF Open
<1>17. label = "intent" => ~Attempted(c) /\ Attempted(c)'
  BY <1>6 DEF Attempted
<1>18. AuthorAllowed(p)
  BY <1>1, <1>2, <1>3, <1>6, <1>7, <1>15, <1>16, <1>17 DEF AuthorAllowed, Dispatching
<1> QED BY <1>4, <1>7, <1>8, <1>9, <1>11, <1>13, <1>18, AuthorStep

LEMMA AuthorRunsModel ==
    ASSUME AuthorInv, NEW p \in Process, Authoring!RunModel(p)
    PROVE  AuthorInv'
<1>1. PICK m, x, c : m = me[p] /\ x = retained[p] /\ c = m.call
  OBVIOUS
<1>2. pc[p] = "run"
  BY DEF Authoring!RunModel, Authoring!At
<1>3. IsCall(m) /\ AuthorRetained(x) /\ c \in Calls /\ AuthorPlace("run", m)
  BY <1>1, <1>2, AuthorAt
<1>4. /\ UNCHANGED <<rows, job, me, retained>> /\ runs' = [runs EXCEPT ![c] = @ + 1] /\ Goto(p, "cost")
      /\ DOMAIN outcome' = DOMAIN outcome /\ AuthorTables /\ Processes
  BY <1>1, AuthorControl DEF Authoring!RunModel, AuthorInv, AuthorTables
<1>5. Apart(p) /\ pc'[p] = "cost" /\ me'[p] = m /\ retained'[p] = x
  <2>1. Moved(p, "cost", m, x)
    BY <1>1, <1>4 DEF Moved
  <2> QED BY <1>4, <2>1, MovedThere
<1>6. AuthorTables'
  BY <1>3, <1>4, <1>5, AuthorTablesStep DEF AuthorTables
<1>7. AuthorKept
  BY <1>4 DEF AuthorKept, Newest
<1>8. \A d \in Calls : AuthorRecord(d)'
  BY <1>4, AuthorRecordSame DEF AuthorInv
<1>9. \A d : Open(d)' = Open(d) /\ Attempted(d)' = Attempted(d)
  BY <1>4 DEF Open, Attempted
<1>10. AuthorAllowed(p)
  BY <1>1, <1>2, <1>5, <1>9 DEF AuthorAllowed, Dispatching
<1>11. AuthorLocked' /\ Authoring!OneCallOpen'
  BY <1>5, <1>10, AuthorLocksStep
<1>12. ASSUME NEW d \in Calls
       PROVE  Once(runs[d], d, Running(d))'
  <2>1. PICK S, T, n, k : S = Running(d) /\ T = Running(d)' /\ n = runs[d] /\ k = runs'[d]
    OBVIOUS
  <2>2. T \subseteq S \ {p}
    BY <1>5, <2>1 DEF Running, Apart
  <2>3. Once(n, d, S) /\ (Attempted(d) => Attempted(d)')
    BY <1>9, <2>1 DEF AuthorInv, AuthorRuns
  <2>4. CASE d = c
    <3>1. k = n + 1 /\ p \in S
      BY <1>1, <1>2, <1>3, <1>4, <2>1, <2>4 DEF AuthorTables, Running
    <3>2. Once(k, d, T)'
      BY <2>2, <2>3, <3>1, OnceStep
    <3> QED BY <2>1, <3>2
  <2>5. CASE d # c
    <3>1. k = n
      BY <1>3, <1>4, <2>1, <2>5 DEF AuthorTables
    <3>2. Once(k, d, T)'
      BY <2>2, <2>3, <3>1, OnceStep
    <3> QED BY <2>1, <3>2
  <2> QED BY <2>4, <2>5
<1>13. AuthorRuns'
  BY <1>12, AuthorConstants DEF AuthorRuns
<1>14. ASSUME NEW q \in Process
       PROVE  AuthorPlace(pc[q], me[q])' /\ AuthorRetained(retained[q])'
  <2>1. PICK place, n, y : place = pc'[q] /\ n = me'[q] /\ y = retained'[q]
    OBVIOUS
  <2>2. AuthorPlace(place, n) /\ AuthorRetained(y) /\ (place # "idle" => n.call \in Calls)
    <3>1. CASE q = p
      BY <1>1, <1>3, <1>5, <2>1, <3>1 DEF AuthorPlace
    <3>2. CASE q # p
      BY <1>5, <2>1, <3>2 DEF Apart, AuthorInv, AuthorTables
    <3> QED BY <3>1, <3>2
  <2>3. AuthorPlace(place, n)' /\ AuthorRetained(y)'
    BY <1>7, <2>2, AuthorPlaceKept, AuthorRetainedKept
  <2> QED BY <2>1, <2>3
<1> QED BY <1>6, <1>8, <1>11, <1>13, <1>14, AuthorConstants DEF AuthorInv

\* What is written for the call c, and where its process goes on with the memory m.
AuthorWrite(p, c, receipts, ok, m, y) ==
    /\ pc[p] # "idle" /\ c = me[p].call
    /\ IsCall(m) /\ m.call = c /\ m.holds = me[p].holds
    /\ receipts \cap Statuses # {} => {Request, Cost} \subseteq Newest(c)
    /\ \A r \in receipts : r[1] = "receipt" => Drawn(c, r)
    /\ ok \notin {"look up", "enqueue"} /\ (ok \in Dispatching => pc[p] \in Dispatching)
    /\ AuthorRetained(y)

AuthorWritten(p, c, receipts, ok, m, y) ==
    /\ Authoring!Extended(p, c, receipts, ok, "idle") /\ UNCHANGED <<job, runs, outcome>>
    /\ (UNCHANGED me /\ m = me[p]) \/ me' = [me EXCEPT ![p] = m]
    /\ Authoring!Retains(p, y) \/ UNCHANGED retained

\* A receipt is archived, and a failed publication of it retained.
LEMMA AuthorArchives ==
    ASSUME AuthorInv, NEW p \in Process, NEW c, NEW receipts, NEW ok, NEW m, NEW y,
           AuthorWrite(p, c, receipts, ok, m, y), AuthorWritten(p, c, receipts, ok, m, y),
           receipts \subseteq Newest(c)' => AuthorPlace(ok, m)'
    PROVE  AuthorInv'
<1>1. c \in Calls /\ AuthorRetained(retained[p])
  BY AuthorAt DEF AuthorWrite
<1>2. PICK label \in {ok, "idle"} : Goto(p, label)
  BY AuthorControl DEF AuthorWritten, Authoring!Extended, Authoring!Call
<1>3. PICK x : /\ x = y \/ x = retained[p]
               /\ \/ UNCHANGED retained /\ x = retained[p]
                  \/ retained' = [retained EXCEPT ![p] = x]
  BY DEF AuthorWritten, Authoring!Retains
<1>4. Moved(p, label, m, x)
  BY <1>2, <1>3 DEF Moved, AuthorWritten
<1>5. AuthorRetained(x)
  BY <1>1, <1>3 DEF AuthorWrite
<1>6. Authoring!Extended(p, c, receipts, ok, "idle") /\ UNCHANGED <<job, runs, outcome>>
  BY DEF AuthorWritten
<1> QED BY <1>1, <1>4, <1>5, <1>6, AuthorWrites DEF AuthorWrite

LEMMA AuthorRowGrows ==
    ASSUME AuthorInv, NEW p, NEW c \in Calls, NEW receipts, NEW ok,
           Authoring!Extended(p, c, receipts, ok, "idle")
    PROVE  Newest(c) \subseteq Newest(c)'
<1>1. c \in DOMAIN rows /\ IsRow(rows[c])
  BY DEF AuthorInv, AuthorTables
<1> QED BY ZenonT(30), <1>1, AuthorControl, Extensions

LEMMA AuthorPublishes ==
    ASSUME AuthorInv, NEW p \in Process,
           \/ Authoring!Intent(p) \/ Authoring!ArchiveAttempt(p) \/ Authoring!ArchiveCost(p)
           \/ Authoring!ArchiveStatus(p) \/ Authoring!ArchiveAttemptAgain(p) \/ Authoring!Freeze(p)
    PROVE  AuthorInv'
<1>1. PICK m, c, place : m = me[p] /\ c = m.call /\ place = pc[p]
  OBVIOUS
<1>2. place # "idle" /\ place \in {"intent", "attempt", "cost", "status", "attempt again", "freeze"}
  BY <1>1 DEF Authoring!Intent, Authoring!ArchiveAttempt, Authoring!ArchiveCost, Authoring!ArchiveStatus,
              Authoring!ArchiveAttemptAgain, Authoring!Freeze, Authoring!At
<1>3. IsCall(m) /\ c \in Calls /\ AuthorPlace(place, m) /\ AuthorRetained(retained[p])
  BY <1>1, <1>2, AuthorAt
<1>4. UNCHANGED <<job, runs, outcome>>
  BY DEF Authoring!Intent, Authoring!ArchiveAttempt, Authoring!ArchiveCost, Authoring!ArchiveStatus,
         Authoring!ArchiveAttemptAgain, Authoring!Freeze, Authoring!Archives, Authoring!authoringVars
<1>5. \A receipts, ok : Authoring!Extended(p, c, receipts, ok, "idle") => Newest(c) \subseteq Newest(c)'
  BY <1>3, AuthorRowGrows
<1>6. CASE Authoring!Intent(p)
  <2>1. PICK receipts, ok, y : receipts = {Request} /\ ok = "attempt" /\ y = retained[p]
    OBVIOUS
  <2>2. AuthorWritten(p, c, receipts, ok, m, y) /\ place = "intent"
    BY <1>1, <1>4, <1>6, <2>1 DEF AuthorWritten, Authoring!Intent, Authoring!At, Request
  <2>3. AuthorWrite(p, c, receipts, ok, m, y)
    BY <1>1, <1>2, <1>3, <2>1, <2>2, AuthorConstants DEF AuthorWrite, Dispatching
  <2>4. receipts \subseteq Newest(c)' => AuthorPlace(ok, m)'
    BY <1>1, <2>1, AuthorConstants DEF AuthorPlace
  <2> QED BY <2>2, <2>3, <2>4, AuthorArchives
<1>7. PICK y : y = Authoring!Pending("provider", p)
  OBVIOUS
<1>8. place \in {"attempt", "cost", "status", "attempt again"} => AuthorRetained(y)
  <2>1. y.kind = "provider" /\ y.call = c
    BY <1>1, <1>7 DEF Authoring!Pending
  <2> QED BY <1>1, <1>3, <2>1 DEF AuthorRetained, AuthorPlace
<1>9. CASE Authoring!ArchiveAttempt(p)
  <2>1. PICK receipts, ok : receipts = {Authoring!Attempt} /\ ok = "run"
    OBVIOUS
  <2>2. AuthorWritten(p, c, receipts, ok, m, y) /\ place = "attempt" /\ Authoring!Extended(p, c, receipts, ok, "idle")
    BY <1>1, <1>4, <1>7, <1>9, <2>1 DEF AuthorWritten, Authoring!ArchiveAttempt, Authoring!Archives, Authoring!At
  <2>3. AuthorWrite(p, c, receipts, ok, m, y)
    BY <1>1, <1>2, <1>3, <1>8, <2>1, <2>2, AuthorConstants DEF AuthorWrite, Dispatching
  <2>4. Newest(c) \subseteq Newest(c)'
    BY <1>5, <2>2
  <2>5. receipts \subseteq Newest(c)' => AuthorPlace(ok, m)'
    BY <1>1, <1>3, <2>1, <2>2, <2>4, AuthorConstants DEF AuthorPlace
  <2> QED BY <2>2, <2>3, <2>5, AuthorArchives
<1>10. CASE Authoring!ArchiveAttemptAgain(p)
  <2>1. PICK receipts, ok : receipts = {Authoring!Attempt} /\ ok = "cost"
    OBVIOUS
  <2>2. AuthorWritten(p, c, receipts, ok, m, y) /\ place = "attempt again" /\ Authoring!Extended(p, c, receipts, ok, "idle")
    BY <1>1, <1>4, <1>7, <1>10, <2>1 DEF AuthorWritten, Authoring!ArchiveAttemptAgain, Authoring!Archives, Authoring!At
  <2>3. AuthorWrite(p, c, receipts, ok, m, y)
    BY <1>1, <1>2, <1>3, <1>8, <2>1, <2>2, AuthorConstants DEF AuthorWrite, Dispatching
  <2>4. Newest(c) \subseteq Newest(c)'
    BY <1>5, <2>2
  <2>5. receipts \subseteq Newest(c)' => AuthorPlace(ok, m)'
    BY <1>1, <1>3, <2>1, <2>2, <2>4, AuthorConstants DEF AuthorPlace
  <2> QED BY <2>2, <2>3, <2>5, AuthorArchives
<1>11. CASE Authoring!ArchiveCost(p)
  <2>1. PICK receipts, ok : receipts = {Cost} /\ ok = "status"
    OBVIOUS
  <2>2. AuthorWritten(p, c, receipts, ok, m, y) /\ place = "cost" /\ Authoring!Extended(p, c, receipts, ok, "idle")
    BY <1>1, <1>4, <1>7, <1>11, <2>1 DEF AuthorWritten, Authoring!ArchiveCost, Authoring!Archives, Authoring!At, Cost
  <2>3. AuthorWrite(p, c, receipts, ok, m, y)
    BY <1>1, <1>2, <1>3, <1>8, <2>1, <2>2, AuthorConstants DEF AuthorWrite, Dispatching
  <2>4. Newest(c) \subseteq Newest(c)'
    BY <1>5, <2>2
  <2>5. receipts \subseteq Newest(c)' => AuthorPlace(ok, m)'
    BY <1>1, <1>3, <2>1, <2>2, <2>4, AuthorConstants DEF AuthorPlace
  <2> QED BY <2>2, <2>3, <2>5, AuthorArchives
<1>12. CASE Authoring!ArchiveStatus(p)
  <2>1. PICK s : s = IF me[p].replay THEN Authoring!Replayed ELSE Authoring!Fresh
    OBVIOUS
  <2>2. PICK receipts, ok, n : receipts = {s} /\ ok = "journal" /\ n = [m EXCEPT !.status = s]
    OBVIOUS
  <2>3. s \in Statuses
    BY <2>1, AuthorConstants
  <2>4. DOMAIN n = DOMAIN m /\ n.call = c /\ n.holds = m.holds /\ n.status = s
    BY <1>1, <1>3, <2>2 DEF IsCall
  <2>5. place = "status" /\ me' = [me EXCEPT ![p] = n]
    BY <1>1, <1>12, <2>1, <2>2 DEF Authoring!ArchiveStatus, Authoring!At
  <2>6. Authoring!Extended(p, c, receipts, ok, "idle") /\ Authoring!Retains(p, y)
    BY <1>1, <1>7, <1>12, <2>1, <2>2 DEF Authoring!ArchiveStatus, Authoring!Archives
  <2>7. AuthorWritten(p, c, receipts, ok, n, y)
    BY <1>4, <2>5, <2>6 DEF AuthorWritten
  <2>8. {Request, Cost} \subseteq Newest(c)
    BY <1>1, <1>3, <2>5 DEF AuthorPlace
  <2>9. AuthorWrite(p, c, receipts, ok, n, y)
    BY <1>1, <1>2, <1>3, <1>8, <2>2, <2>3, <2>4, <2>5, <2>8, AuthorConstants DEF AuthorWrite, IsCall, Dispatching
  <2>10. receipts \subseteq Newest(c)' => AuthorPlace(ok, n)'
    BY <2>2, <2>3, <2>4, AuthorConstants DEF AuthorPlace
  <2> QED BY <2>7, <2>9, <2>10, AuthorArchives
<1>13. CASE Authoring!Freeze(p)
  <2>1. PICK r, z, receipts, ok : /\ r = m.receipt /\ z = Authoring!Pending("receipt", p)
                                  /\ receipts = {r} /\ ok = "gather"
    OBVIOUS
  <2>2. AuthorWritten(p, c, receipts, ok, m, z) /\ place = "freeze" /\ Authoring!Extended(p, c, receipts, ok, "idle")
    BY <1>1, <1>4, <1>13, <2>1 DEF AuthorWritten, Authoring!Freeze, Authoring!At
  <2>3. Drawn(c, r)
    BY <1>1, <1>3, <2>1, <2>2 DEF AuthorPlace
  <2>4. AuthorRetained(z)
    <3>1. z.kind = "receipt" /\ z.call = c /\ z.receipt = r
      BY <1>1, <2>1 DEF Authoring!Pending
    <3> QED BY <1>3, <2>3, <3>1 DEF AuthorRetained
  <2>5. receipts \cap Statuses = {}
    BY <2>1, <2>3, AuthorConstants DEF Drawn
  <2>6. AuthorWrite(p, c, receipts, ok, m, z)
    BY <1>1, <1>2, <1>3, <2>1, <2>3, <2>4, <2>5 DEF AuthorWrite, Dispatching
  <2>7. Newest(c) \subseteq Newest(c)'
    BY <1>5, <2>2
  <2>8. receipts \subseteq Newest(c)' => AuthorPlace(ok, m)'
    BY <1>1, <2>1, <2>3, <2>7, AuthorConstants DEF AuthorPlace, Drawn
  <2> QED BY <2>2, <2>6, <2>8, AuthorArchives
<1> QED BY <1>6, <1>9, <1>10, <1>11, <1>12, <1>13

LEMMA AuthorWritesJournal ==
    ASSUME AuthorInv, NEW p \in Process, Authoring!Journal(p)
    PROVE  AuthorInv'
<1>1. PICK m, c, s, y : m = me[p] /\ c = m.call /\ s = m.status /\ y = retained[p]
  OBVIOUS
<1>2. pc[p] = "journal" /\ pc[p] # "idle" /\ UNCHANGED <<rows, job, runs, outcome>>
  BY DEF Authoring!Journal, Authoring!At
<1>3. IsCall(m) /\ c \in Calls /\ AuthorPlace("journal", m) /\ AuthorRetained(y)
  BY <1>1, <1>2, AuthorAt
<1>4. s \in Statuses \cap Newest(c) /\ {Request, Cost} \subseteq Newest(c)
  BY <1>1, <1>3 DEF AuthorPlace, AuthorInv, AuthorRecord
<1>5. \/ \E r : /\ Goto(p, "select") /\ UNCHANGED retained /\ r = Authoring!Frozen(s, stamps[c] + 1)
                /\ me' = [me EXCEPT ![p].receipt = r]
      \/ \E kind \in {"artifact", "journal"} :
            /\ Goto(p, "idle") /\ UNCHANGED me
            /\ retained' = [retained EXCEPT ![p] = [Authoring!Pending(kind, p) EXCEPT !.receipt = s]]
  BY <1>1, AuthorControl DEF Authoring!Journal
<1>6. ASSUME NEW r, Goto(p, "select"), UNCHANGED retained, r = Authoring!Frozen(s, stamps[c] + 1),
             me' = [me EXCEPT ![p].receipt = r]
      PROVE  AuthorInv'
  <2>1. Drawn(c, r)
    BY <1>4, <1>6, AuthorConstants DEF Drawn
  <2>2. PICK n : n = [m EXCEPT !.receipt = r]
    OBVIOUS
  <2>3. DOMAIN n = DOMAIN m /\ n.call = c /\ n.holds = m.holds /\ n.receipt = r
    BY <1>1, <1>3, <2>2 DEF IsCall
  <2>4. IsCall(n) /\ Moved(p, "select", n, y)
    BY <1>1, <1>3, <1>6, <2>2, <2>3 DEF IsCall, Moved
  <2>5. AuthorPlace("select", n) /\ "select" \notin Dispatching \cup {"look up", "enqueue"}
    BY <2>1, <2>3 DEF AuthorPlace, Dispatching
  <2> QED BY <1>1, <1>2, <1>3, <2>3, <2>4, <2>5, AuthorGoesOn
<1>7. ASSUME NEW kind \in {"artifact", "journal"}, Goto(p, "idle"), UNCHANGED me,
             retained' = [retained EXCEPT ![p] = [Authoring!Pending(kind, p) EXCEPT !.receipt = s]]
      PROVE  AuthorInv'
  <2>1. PICK x : x = [Authoring!Pending(kind, p) EXCEPT !.receipt = s]
    OBVIOUS
  <2>2. x.kind = kind /\ x.call = c /\ x.receipt = s
    BY <1>1, <2>1 DEF Authoring!Pending
  <2>3. AuthorRetained(x)
    BY <1>3, <1>4, <2>2 DEF AuthorRetained
  <2>4. Moved(p, "idle", m, x)
    BY <1>1, <1>7, <2>1 DEF Moved
  <2>5. AuthorPlace("idle", m) /\ "idle" \notin Dispatching \cup {"look up", "enqueue"}
    BY DEF AuthorPlace, Dispatching
  <2> QED BY <1>1, <1>2, <1>3, <2>3, <2>4, <2>5, AuthorGoesOn
<1> QED BY <1>5, <1>6, <1>7

LEMMA AuthorSelects ==
    ASSUME AuthorInv, NEW p \in Process, Authoring!Select(p) \/ Authoring!Gather(p)
    PROVE  AuthorInv'
<1>1. PICK m, c, y : m = me[p] /\ c = m.call /\ y = retained[p]
  OBVIOUS
<1>2. /\ pc[p] \in {"select", "gather"} /\ pc[p] # "idle"
      /\ UNCHANGED <<rows, job, runs, outcome, retained>>
  BY DEF Authoring!Select, Authoring!Gather, Authoring!At, Authoring!authoringVars
<1>3. IsCall(m) /\ c \in Calls /\ AuthorPlace(pc[p], m) /\ AuthorRetained(y)
  BY <1>1, <1>2, AuthorAt
<1>4. CASE Authoring!Select(p)
  <2>1. PICK label : /\ Authoring!Goto(p, label)
                     /\ label = IF job[c].state = "completed" \/ ~Authoring!Publishable(c, m.receipt) THEN "idle"
                                ELSE IF Authoring!Receipts(c) = {} THEN "freeze" ELSE "gather"
    BY <1>1, <1>4 DEF Authoring!Select
  <2>2. label \in {"idle", "freeze", "gather"} /\ label \notin Dispatching \cup {"look up", "enqueue"}
    BY <2>1 DEF Dispatching
  <2>3. Drawn(c, m.receipt)
    BY <1>1, <1>3, <1>4 DEF AuthorPlace, Authoring!Select, Authoring!At
  <2>4. label = "gather" => m.receipt \in Newest(c)
    <3>1. label = "gather" => Authoring!Receipts(c) # {} /\ Authoring!Receipts(c) \subseteq {m.receipt}
      BY <2>1 DEF Authoring!Publishable
    <3> QED BY <3>1, LastStatuses
  <2>5. AuthorPlace(label, m)
    BY <1>1, <2>2, <2>3, <2>4 DEF AuthorPlace
  <2>6. Moved(p, label, m, y)
    BY <1>1, <1>2, <1>4, <2>1, AuthorControl DEF Moved, Authoring!Select
  <2> QED BY <1>1, <1>2, <1>3, <2>2, <2>5, <2>6, AuthorGoesOn
<1>5. CASE Authoring!Gather(p)
  <2>1. PICK n : me' = [me EXCEPT ![p] = n] /\ n = [m EXCEPT !.seen = Len(rows[c])]
    BY <1>1, <1>5 DEF Authoring!Gather
  <2>2. DOMAIN n = DOMAIN m /\ n.call = c /\ n.holds = m.holds /\ n.receipt = m.receipt
    BY <1>1, <1>3, <2>1 DEF IsCall
  <2>3. IsCall(n) /\ Moved(p, "complete", n, y)
    BY <1>1, <1>2, <1>3, <1>5, <2>1, <2>2, AuthorControl DEF IsCall, Moved, Authoring!Gather
  <2>4. AuthorPlace("complete", n) /\ "complete" \notin Dispatching \cup {"look up", "enqueue"}
    BY <1>1, <1>3, <1>5, <2>2 DEF AuthorPlace, Dispatching, Authoring!Gather, Authoring!At
  <2> QED BY <1>1, <1>2, <1>3, <2>2, <2>3, <2>4, AuthorGoesOn
<1> QED BY <1>4, <1>5

LEMMA AuthorCrashes ==
    ASSUME AuthorInv, NEW p \in Process, Authoring!Crash(p), UNCHANGED Authoring!authoringVars
    PROVE  AuthorInv'
<1>1. PICK m : m = me[p]
  OBVIOUS
<1>2. UNCHANGED <<rows, job, runs, outcome>>
  BY DEF Authoring!Crash, Authoring!authoringVars
<1>3. Moved(p, "idle", m, Nothing)
  BY <1>1, AuthorControl DEF Moved, Authoring!Crash
<1>4. AuthorGo(p, "idle", m) /\ AuthorPlace("idle", m) /\ AuthorRetained(Nothing) /\ "idle" \notin Dispatching
  BY DEF AuthorGo, AuthorPlace, AuthorRetained, Dispatching
<1> QED BY <1>2, <1>3, <1>4, AuthorMoves

LEMMA AuthorStutters ==
    ASSUME AuthorInv, UNCHANGED Authoring!vars
    PROVE  AuthorInv'
<1>1. UNCHANGED <<rows, pc, job, me, retained, runs, outcome>>
  BY DEF Authoring!vars, Authoring!controlVars, Authoring!ledgerVars, Authoring!authoringVars
<1>2. AuthorTables'
  BY <1>1, AuthorConstants DEF AuthorInv, AuthorTables, Processes, Absent, IsRow
<1>3. AuthorRuns'
  BY <1>1, AuthorConstants DEF AuthorInv, AuthorRuns, Once, Attempted, Running
<1>4. \A c \in Calls : AuthorRecord(c)'
  BY <1>1, AuthorRecordSame DEF AuthorInv
<1>5. ASSUME NEW p \in Process
      PROVE  AuthorPlace(pc[p], me[p])' /\ AuthorRetained(retained[p])'
  <2>1. PICK place, m, x : place = pc[p] /\ m = me[p] /\ x = retained[p]
    OBVIOUS
  <2>2. AuthorPlace(place, m) /\ AuthorRetained(x) /\ (place # "idle" => m.call \in Calls) /\ AuthorKept
    BY <1>1, <2>1 DEF AuthorInv, AuthorTables, AuthorKept, Newest
  <2>3. AuthorPlace(place, m)' /\ AuthorRetained(x)'
    BY <2>2, AuthorPlaceKept, AuthorRetainedKept
  <2> QED BY <1>1, <2>1, <2>3
<1>6. AuthorLocked'
  BY <1>1, AuthorConstants DEF AuthorInv, AuthorLocked, Open, Authoring!Candidate
<1>7. Authoring!OneCallOpen'
  BY <1>1 DEF AuthorInv, Authoring!OneCallOpen, Authoring!Open, Authoring!Calls, Authoring!Candidate
<1> QED BY <1>2, <1>3, <1>4, <1>5, <1>6, <1>7, AuthorConstants DEF AuthorInv

LEMMA AuthorNext ==
    ASSUME AuthorInv, [Authoring!Next]_Authoring!vars
    PROVE  AuthorInv'
<1>1. ASSUME NEW p \in Process, NEW c \in Authoring!Calls, Authoring!Author(p, c) \/ Authoring!Recover(p, c)
      PROVE  AuthorInv'
  BY <1>1, AuthorAsks, AuthorRecovers DEF Calls
<1>2. ASSUME NEW p \in Process,
             \/ Authoring!LookUp(p) \/ Authoring!Enqueue(p) \/ Authoring!Claim(p) \/ Authoring!Intent(p)
             \/ Authoring!ArchiveAttempt(p) \/ Authoring!RunModel(p) \/ Authoring!ArchiveCost(p)
             \/ Authoring!ArchiveStatus(p) \/ Authoring!Journal(p) \/ Authoring!Select(p) \/ Authoring!Freeze(p)
             \/ Authoring!Gather(p) \/ Authoring!Complete(p) \/ Authoring!Retry(p) \/ Authoring!ArchiveAttemptAgain(p)
             \/ Authoring!Crash(p) /\ UNCHANGED Authoring!authoringVars
      PROVE  AuthorInv'
  BY <1>2, AuthorLooksUp, AuthorQueues, AuthorPublishes, AuthorRunsModel, AuthorWritesJournal, AuthorSelects,
     AuthorRetries, AuthorCrashes
<1> QED BY <1>1, <1>2, AuthorStutters DEF Authoring!Next

LEMMA AuthorStarted == Authoring!Init => AuthorInv
<1> SUFFICES ASSUME Authoring!Init PROVE AuthorInv
  OBVIOUS
<1>1. AuthorTables
  <2>1. IsRow(<<>>)
    <3>1. <<>> \in Seq({})
      OBVIOUS
    <3> QED BY <3>1 DEF IsRow
  <2> QED BY <2>1 DEF Authoring!Init, AuthorTables, Processes, Calls, Absent, Authoring!Absent
<1>2. AuthorRuns
  BY DEF Authoring!Init, AuthorRuns, Once, Running, Attempted, Calls, Authoring!Absent
<1>3. \A c \in Calls : AuthorRecord(c)
  BY DEF Authoring!Init, AuthorRecord, Newest, Calls, Authoring!Absent
<1>4. \A p \in Process : AuthorPlace(pc[p], me[p]) /\ AuthorRetained(retained[p])
  BY DEF Authoring!Init, AuthorPlace, AuthorRetained
<1>5. AuthorLocked
  BY DEF Authoring!Init, AuthorLocked
<1>6. Authoring!OneCallOpen
  BY DEF Authoring!Init, Authoring!OneCallOpen, Authoring!Open, Authoring!Absent
<1> QED BY <1>1, <1>2, <1>3, <1>4, <1>5, <1>6 DEF AuthorInv

LEMMA AuthorHolds ==
    AuthorInv => Authoring!DispatchedOnce /\ Authoring!CompletionBindsReceipt /\ Authoring!OneCallOpen
<1> SUFFICES ASSUME AuthorInv
             PROVE  Authoring!DispatchedOnce /\ Authoring!CompletionBindsReceipt /\ Authoring!OneCallOpen
  OBVIOUS
<1>1. Authoring!DispatchedOnce
  BY DEF AuthorInv, AuthorRuns, Once, Authoring!DispatchedOnce, Calls
<1>2. Authoring!CompletionBindsReceipt
  BY DEF AuthorInv, AuthorRecord, Authoring!CompletionBindsReceipt, Calls, Request, Cost
<1> QED BY <1>1, <1>2 DEF AuthorInv
-----------------------------------------------------------------------------
(* Construction.                                                           *)

LEMMA ConstructControl ==
    ASSUME NEW p, NEW j, NEW ok, NEW bad, NEW name, NEW n, NEW receipts, NEW result
    PROVE  /\ Construction!Goto(p, ok) => Goto(p, ok)
           /\ Construction!Enqueued(p, j, ok) => Enqueued(p, j, ok)
           /\ Construction!Claimed(p, j, ok) => Claimed(p, j, ok)
           /\ Construction!Completed(p, j, name, n, result, ok) => Completed(p, j, name, n, result, ok)
           /\ Construction!Observe(p, name, n, receipts, ok, bad) => Observe(p, name, n, receipts, ok, bad)
<1>1. /\ Construction!Goto(p, ok) => Goto(p, ok)
      /\ Construction!Enqueued(p, j, ok) => Enqueued(p, j, ok)
      /\ Construction!Claimed(p, j, ok) => Claimed(p, j, ok)
  BY DEF Construction!Enqueued, Construction!Claimed, Construction!Call, Construction!Goto, Enqueued, Claimed, Call, Goto
<1>2. Construction!Completed(p, j, name, n, result, ok) => Completed(p, j, name, n, result, ok)
  BY DEF Construction!Completed, Construction!Call, Construction!Goto, Construction!Newest, Completed, Call, Goto, Newest
<1>3. Construction!Observe(p, name, n, receipts, ok, bad) => Observe(p, name, n, receipts, ok, bad)
  BY DEF Construction!Observe, Construction!Call, Construction!Goto, Construction!Recorded, Construction!Extends,
         Observe, Call, Goto, Recorded, Extends
<1> QED BY <1>1, <1>2, <1>3

LEMMA ConstructConstants ==
    /\ Jobs' = Jobs /\ Construction!Lock' = Construction!Lock
    /\ \A r \in Revision : SourceJob(r) \in Jobs /\ ConstructJob(r) \in Jobs /\ BuildJob(r) \in Jobs
    /\ \A r, s : SourceJob(r) # ConstructJob(s) /\ SourceJob(r) # BuildJob(s) /\ ConstructJob(r) # BuildJob(s)
    /\ \A r, s : /\ SourceJob(r) = SourceJob(s) => r = s
                 /\ ConstructJob(r) = ConstructJob(s) => r = s
                 /\ BuildJob(r) = BuildJob(s) => r = s
    /\ \A n, m : {Construction!Intent(n)} = {Construction!Intent(m)} => n = m
    /\ \A n : Construction!Intent(n)[1] # "outcome"
<1>1. Jobs' = Jobs /\ Construction!Lock' = Construction!Lock
  BY DEF Jobs, Construction!Jobs, Construction!Lock
<1>2. \A r \in Revision : SourceJob(r) \in Jobs /\ ConstructJob(r) \in Jobs /\ BuildJob(r) \in Jobs
  BY DEF Jobs, Construction!Jobs, SourceJob, ConstructJob, BuildJob,
         Construction!SourceJob, Construction!ConstructJob, Construction!BuildJob
<1>3. \A r, s : SourceJob(r) # ConstructJob(s) /\ SourceJob(r) # BuildJob(s) /\ ConstructJob(r) # BuildJob(s)
  BY DEF SourceJob, ConstructJob, BuildJob, Construction!SourceJob, Construction!ConstructJob, Construction!BuildJob
<1>4. \A r, s : /\ SourceJob(r) = SourceJob(s) => r = s
                /\ ConstructJob(r) = ConstructJob(s) => r = s
                /\ BuildJob(r) = BuildJob(s) => r = s
  BY DEF SourceJob, ConstructJob, BuildJob, Construction!SourceJob, Construction!ConstructJob, Construction!BuildJob
<1>5. \A n, m : {Construction!Intent(n)} = {Construction!Intent(m)} => n = m
  <2> SUFFICES ASSUME NEW n, NEW m, {Construction!Intent(n)} = {Construction!Intent(m)}
               PROVE  n = m
    OBVIOUS
  <2>1. Construction!Intent(n) = Construction!Intent(m)
    OBVIOUS
  <2>2. Construction!Intent(n)[2] = n /\ Construction!Intent(m)[2] = m
    BY DEF Construction!Intent, Construction!Receipt
  <2> QED BY <2>1, <2>2
<1>6. \A n : Construction!Intent(n)[1] # "outcome"
  BY DEF Construction!Intent, Construction!Receipt
<1> QED BY <1>1, <1>2, <1>3, <1>4, <1>5, <1>6

\* What a step of p may do to the imports.
ImportAllowed(p) ==
    /\ pc'[p] # "idle" /\ Construction!Lock \in me'[p].holds =>
          \/ pc[p] # "idle" /\ Construction!Lock \in me[p].holds
          \/ Construction!Free(p, Construction!Lock)
    /\ pc'[p] \in {"source look up", "source enqueue"} => Construction!Lock \in me'[p].holds
    /\ pc'[p] = "source enqueue" => \A s \in Revision : s # me'[p].rev => job'[SourceJob(s)].state = "absent"
    /\ pc'[p] = "source intent" => job'[SourceJob(me'[p].rev)].state # "absent"
    /\ \A r \in Revision :
          /\ job[SourceJob(r)].state # "absent" => job'[SourceJob(r)].state # "absent"
          /\ job'[SourceJob(r)].state # "absent" =>
                job[SourceJob(r)].state # "absent" \/ (pc[p] = "source enqueue" /\ r = me[p].rev)
          /\ rows'[SourceJob(r)] # <<>> => rows[SourceJob(r)] # <<>> \/ job'[SourceJob(r)].state # "absent"

LEMMA ImportStep ==
    ASSUME ConstructInv, NEW p \in Process, Apart(p), ImportAllowed(p)
    PROVE  Importing'
<1>1. PICK b : b = Construction!Lock /\ b = Construction!Lock'
  BY ConstructConstants
<1>2. ASSUME NEW q \in Process, q # p, pc'[q] # "idle", b \in me'[q].holds,
             pc'[p] # "idle", b \in me'[p].holds
      PROVE  FALSE
  <2>1. pc[q] # "idle" /\ b \in me[q].holds
    BY <1>2 DEF Apart
  <2>2. CASE pc[p] # "idle" /\ b \in me[p].holds
    BY <1>1, <1>2, <2>1, <2>2 DEF ConstructInv, Importing
  <2>3. CASE Construction!Free(p, b)
    BY <1>2, <2>1, <2>3 DEF Construction!Free, Construction!At
  <2> QED BY <1>1, <1>2, <2>2, <2>3 DEF ImportAllowed
<1>3. \A r, q \in Process :
        /\ pc'[r] # "idle" /\ b \in me'[r].holds /\ pc'[q] # "idle" /\ b \in me'[q].holds => r = q
  <2> SUFFICES ASSUME NEW r \in Process, NEW q \in Process, pc'[r] # "idle", b \in me'[r].holds,
                      pc'[q] # "idle", b \in me'[q].holds, r # q
               PROVE  FALSE
    OBVIOUS
  <2>1. CASE r = p \/ q = p
    BY <2>1, <1>2
  <2>2. CASE r # p /\ q # p
    BY <1>1, <2>2 DEF Apart, ConstructInv, Importing
  <2> QED BY <2>1, <2>2
<1>4. \A q \in Process : pc'[q] \in {"source look up", "source enqueue"} => b \in me'[q].holds
  BY <1>1 DEF Apart, ImportAllowed, ConstructInv, Importing
<1>5. ASSUME NEW q \in Process, pc'[q] = "source enqueue", NEW s \in Revision, s # me'[q].rev
      PROVE  job'[SourceJob(s)].state = "absent"
  <2>1. CASE q = p
    BY <1>5, <2>1 DEF ImportAllowed
  <2>2. CASE q # p
    <3>1. pc[q] = "source enqueue" /\ me'[q] = me[q]
      BY <1>5, <2>2 DEF Apart
    <3>2. job[SourceJob(s)].state = "absent"
      <4>1. s \in Revision \ {me[q].rev}
        BY <1>5, <3>1
      <4> QED BY <3>1, <4>1 DEF ConstructInv, Importing
    <3>3. pc[p] # "source enqueue"
      BY <1>1, <2>2, <3>1 DEF ConstructInv, Importing
    <3> QED BY <3>2, <3>3 DEF ImportAllowed
  <2> QED BY <2>1, <2>2
<1>6. ASSUME NEW q \in Process, pc'[q] = "source intent"
      PROVE  job'[SourceJob(me'[q].rev)].state # "absent"
  <2>1. CASE q = p
    BY <1>6, <2>1 DEF ImportAllowed
  <2>2. CASE q # p
    <3>1. pc[q] = "source intent" /\ me'[q] = me[q] /\ me[q].rev \in Revision
      BY <1>6, <2>2 DEF Apart, ConstructInv, ConstructTables
    <3> QED BY <3>1 DEF ConstructInv, Importing, ImportAllowed
  <2> QED BY <2>1, <2>2
<1>7. \A r \in Revision : rows'[SourceJob(r)] # <<>> => job'[SourceJob(r)].state # "absent"
  BY DEF ConstructInv, Importing, ImportAllowed
<1>8. ASSUME NEW r \in Revision, NEW s \in Revision,
             job'[SourceJob(r)].state # "absent", job'[SourceJob(s)].state # "absent", r # s
      PROVE  FALSE
  <2>1. job[SourceJob(r)].state # "absent" \/ (pc[p] = "source enqueue" /\ r = me[p].rev)
    BY <1>8 DEF ImportAllowed
  <2>2. job[SourceJob(s)].state # "absent" \/ (pc[p] = "source enqueue" /\ s = me[p].rev)
    BY <1>8 DEF ImportAllowed
  <2> QED BY <1>8, <2>1, <2>2 DEF ConstructInv, Importing
<1>9. /\ \A q \in Process : pc'[q] = "source enqueue" =>
            \A s \in Revision \ {me'[q].rev} : job'[SourceJob(s)].state = "absent"
      /\ \A q \in Process : pc'[q] = "source intent" => job'[SourceJob(me'[q].rev)].state # "absent"
      /\ \A r, s \in Revision : job'[SourceJob(r)].state # "absent" /\ job'[SourceJob(s)].state # "absent" => r = s
  BY <1>5, <1>6, <1>8
<1> QED BY <1>1, <1>3, <1>4, <1>7, <1>9 DEF Importing, SourceJob, Construction!SourceJob

\* What a step of p may do to the assembling of the packages.
AssembleAllowed(p) ==
    /\ \A r \in Revision :
          /\ made'[BuildJob(r)] \in Nat /\ made[BuildJob(r)] <= made'[BuildJob(r)]
          /\ \/ assembled'[r] = assembled[r]
             \/ pc[p] = "assemble" /\ r = me[p].rev /\ assembled'[r] = assembled[r] + 1
          /\ rows[BuildJob(r)] # <<>> => rows'[BuildJob(r)] # <<>> /\ rows'[BuildJob(r)][1] = rows[BuildJob(r)][1]
          /\ rows[BuildJob(r)] = <<>> /\ rows'[BuildJob(r)] # <<>> =>
                /\ pc[p] = "build observe" /\ r = me[p].rev
                /\ rows'[BuildJob(r)][1] = {Construction!Intent(me[p].nonce)}
    /\ pc'[p] = "build observe" =>
          /\ pc[p] = "build intent" /\ me'[p].rev = me[p].rev
          /\ me'[p].nonce = made[BuildJob(me[p].rev)] + 1
          /\ made'[BuildJob(me[p].rev)] = made[BuildJob(me[p].rev)] + 1
    /\ pc'[p] = "assemble" =>
          /\ pc[p] = "build observe" /\ me'[p] = me[p]
          /\ rows'[BuildJob(me[p].rev)] # <<>>
          /\ rows'[BuildJob(me[p].rev)][1] = {Construction!Intent(me[p].nonce)}

LEMMA AnnouncedOnce ==
    ASSUME NEW r, NEW n, NEW m, Announced(r, n), Announced(r, m)
    PROVE  n = m
  BY ConstructConstants DEF Announced

LEMMA AnnouncedLater ==
    ASSUME ConstructInv, NEW p \in Process, AssembleAllowed(p), NEW r \in Revision, NEW n,
           rows[BuildJob(r)] # <<>>
    PROVE  Announced(r, n)' <=> Announced(r, n)
<1>1. rows'[BuildJob(r)] # <<>> /\ rows'[BuildJob(r)][1] = rows[BuildJob(r)][1]
  BY DEF AssembleAllowed
<1> QED BY <1>1 DEF Announced, BuildJob, Construction!BuildJob, Construction!Intent, Construction!Receipt

LEMMA AnnouncedNow ==
    ASSUME ConstructInv, NEW p \in Process, AssembleAllowed(p), NEW r \in Revision, NEW n,
           rows[BuildJob(r)] = <<>>, Announced(r, n)'
    PROVE  pc[p] = "build observe" /\ r = me[p].rev /\ n = me[p].nonce
<1>1. rows'[BuildJob(r)] # <<>> /\ rows'[BuildJob(r)][1] = {Construction!Intent(n)}
  BY DEF Announced, BuildJob, Construction!BuildJob, Construction!Intent, Construction!Receipt
<1>2. /\ pc[p] = "build observe" /\ r = me[p].rev
      /\ rows'[BuildJob(r)][1] = {Construction!Intent(me[p].nonce)}
  BY <1>1 DEF AssembleAllowed
<1> QED BY <1>1, <1>2, ConstructConstants

LEMMA AssembleRevisions ==
    ASSUME ConstructInv, NEW p \in Process, AssembleAllowed(p), NEW r \in Revision
    PROVE  /\ assembled'[r] \in 0..1
           /\ rows'[BuildJob(r)] = <<>> => assembled'[r] = 0
           /\ rows'[BuildJob(r)] # <<>> => \E n \in 0..made'[BuildJob(r)] : Announced(r, n)'
<1>1. /\ assembled[r] \in 0..1
      /\ rows[BuildJob(r)] = <<>> => assembled[r] = 0
      /\ rows[BuildJob(r)] # <<>> => \E n \in 0..made[BuildJob(r)] : Announced(r, n)
  BY DEF ConstructInv, Assembling
<1>2. pc[p] = "assemble" /\ r = me[p].rev => rows[BuildJob(r)] # <<>> /\ assembled[r] = 0
  BY DEF ConstructInv, Assembling, Announced
<1>3. made[BuildJob(r)] \in Nat /\ made'[BuildJob(r)] \in Nat /\ made[BuildJob(r)] <= made'[BuildJob(r)]
  BY ConstructConstants DEF ConstructInv, ConstructTables, AssembleAllowed
<1>4. assembled'[r] = assembled[r] \/ (pc[p] = "assemble" /\ r = me[p].rev /\ assembled'[r] = assembled[r] + 1)
  BY DEF AssembleAllowed
<1>5. assembled'[r] \in 0..1 /\ (rows[BuildJob(r)] = <<>> => assembled'[r] = 0)
  BY <1>1, <1>2, <1>4
<1>6. rows'[BuildJob(r)] = <<>> => rows[BuildJob(r)] = <<>>
  BY DEF AssembleAllowed
<1>7. CASE rows[BuildJob(r)] # <<>>
  <2>1. PICK n \in 0..made[BuildJob(r)] : Announced(r, n)
    BY <1>1, <1>7
  <2>2. Announced(r, n)'
    BY <1>7, <2>1, AnnouncedLater
  <2>3. n \in 0..made'[BuildJob(r)]
    BY <1>3, <2>1
  <2> QED BY <1>5, <1>6, <1>7, <2>2, <2>3
<1>8. CASE rows[BuildJob(r)] = <<>>
  <2>1. CASE rows'[BuildJob(r)] # <<>>
    <3>1. /\ pc[p] = "build observe" /\ r = me[p].rev
          /\ rows'[BuildJob(r)][1] = {Construction!Intent(me[p].nonce)}
      BY <1>8, <2>1 DEF AssembleAllowed
    <3>2. PICK n : n = me[p].nonce
      OBVIOUS
    <3>3. Announced(r, n)'
      BY <2>1, <3>1, <3>2 DEF Announced, BuildJob, Construction!BuildJob, Construction!Intent, Construction!Receipt
    <3>4. n \in 0..made[BuildJob(r)]
      <4>1. n \in 1..made[BuildJob(r)]
        BY <3>1, <3>2 DEF ConstructInv, Assembling
      <4>2. PICK k : k = made[BuildJob(r)]
        OBVIOUS
      <4>3. n \in 0..k
        BY <1>3, <4>1, <4>2
      <4> QED BY <4>2, <4>3
    <3> QED BY <1>3, <1>5, <1>8, <2>1, <3>3, <3>4
  <2> QED BY <1>5, <1>8, <2>1
<1> QED BY <1>7, <1>8

LEMMA AssemblePlaces ==
    ASSUME ConstructInv, NEW p \in Process, Apart(p), AssembleAllowed(p), NEW q \in Process,
           NEW r \in Revision, NEW n, me'[q].rev = r, me'[q].nonce = n
    PROVE  /\ pc'[q] \in {"build observe", "assemble"} => n \in 1..made'[BuildJob(r)]
           /\ pc'[q] = "build observe" => ~Announced(r, n)'
           /\ pc'[q] = "assemble" => Announced(r, n)' /\ assembled'[r] = 0
<1>0. PICK k : k = made[BuildJob(r)]
  OBVIOUS
<1>l. PICK l : l = made'[BuildJob(r)]
  OBVIOUS
<1>1. k \in Nat /\ l \in Nat /\ k <= l
  BY <1>0, <1>l, ConstructConstants DEF ConstructInv, ConstructTables, AssembleAllowed
<1>2. rows[BuildJob(r)] # <<>> => \E m \in 0..k : Announced(r, m)
  BY <1>0 DEF ConstructInv, Assembling
<1>3. CASE q # p
  <2>1. pc'[q] = pc[q] /\ me[q].rev = r /\ me[q].nonce = n
    BY <1>3 DEF Apart
  <2>2. pc[q] \in {"build observe", "assemble"} => n \in 1..k
    BY <1>0, <2>1 DEF ConstructInv, Assembling
  <2>3. CASE pc'[q] = "build observe"
    <3>1. pc[q] = "build observe" /\ ~Announced(r, n)
      BY <2>1, <2>3 DEF ConstructInv, Assembling
    <3>2. ~Announced(r, n)'
      <4>1. rows[BuildJob(r)] = <<>> /\ Announced(r, n)' => FALSE
        <5> SUFFICES ASSUME rows[BuildJob(r)] = <<>>, Announced(r, n)' PROVE FALSE
          OBVIOUS
        <5>1. pc[p] = "build observe" /\ r = me[p].rev /\ n = me[p].nonce
          BY AnnouncedNow
        <5> QED BY <1>3, <2>1, <3>1, <5>1 DEF ConstructInv, Assembling
      <4> QED BY <3>1, <4>1, AnnouncedLater
    <3>3. n \in 1..k
      BY <2>2, <3>1
    <3>4. n \in 1..l
      BY <1>1, <3>3
    <3> QED BY <1>l, <2>3, <3>2, <3>4
  <2>4. CASE pc'[q] = "assemble"
    <3>1. pc[q] = "assemble" /\ Announced(r, n) /\ assembled[r] = 0
      BY <2>1, <2>4 DEF ConstructInv, Assembling
    <3>2. Announced(r, n)'
      BY <3>1, AnnouncedLater DEF Announced
    <3>3. ~(pc[p] = "assemble" /\ r = me[p].rev)
      <4> SUFFICES ASSUME pc[p] = "assemble", r = me[p].rev PROVE FALSE
        OBVIOUS
      <4>1. Announced(r, me[p].nonce)
        BY DEF ConstructInv, Assembling
      <4>2. me[p].nonce = n
        BY <3>1, <4>1, AnnouncedOnce
      <4> QED BY <1>3, <2>1, <3>1, <4>2 DEF ConstructInv, Assembling
    <3>4. n \in 1..l
      BY <1>1, <2>2, <3>1
    <3>5. assembled'[r] = 0
      BY <3>1, <3>3 DEF AssembleAllowed
    <3> QED BY <1>l, <2>4, <3>2, <3>4, <3>5
  <2> QED BY <2>3, <2>4
<1>4. CASE q = p
  <2>1. CASE pc'[q] = "build observe"
    <3>1. /\ me[p].rev = r /\ n = k + 1 /\ l = k + 1
          /\ pc[p] = "build intent"
      BY <1>0, <1>l, <1>4, <2>1 DEF AssembleAllowed
    <3>2. ~Announced(r, n)'
      <4>1. CASE rows[BuildJob(r)] = <<>>
        BY <3>1, <4>1, AnnouncedNow
      <4>2. CASE rows[BuildJob(r)] # <<>>
        <5>1. PICK m \in 0..k : Announced(r, m)
          BY <1>2, <4>2
        <5>2. n # m
          <6>1. n = k + 1
            BY <3>1
          <6>2. m \in 0..k
            OBVIOUS
          <6> QED BY <1>1, <6>1, <6>2
        <5>3. ~Announced(r, n)
          BY <5>1, <5>2, AnnouncedOnce
        <5> QED BY <4>2, <5>3, AnnouncedLater
      <4> QED BY <4>1, <4>2
    <3>3. n \in 1..l
      <4>1. n = k + 1 /\ l = k + 1
        BY <3>1
      <4> QED BY <1>1, <4>1
    <3> QED BY <1>l, <2>1, <3>2, <3>3
  <2>2. CASE pc'[q] = "assemble"
    <3>1. /\ pc[p] = "build observe" /\ me[p].rev = r /\ me[p].nonce = n
          /\ rows'[BuildJob(r)] # <<>> /\ rows'[BuildJob(r)][1] = {Construction!Intent(n)}
      BY <1>4, <2>2 DEF AssembleAllowed
    <3>2. Announced(r, n)'
      BY <3>1 DEF Announced, BuildJob, Construction!BuildJob, Construction!Intent, Construction!Receipt
    <3>3. rows[BuildJob(r)] = <<>>
      <4>1. ~Announced(r, n)
        BY <3>1 DEF ConstructInv, Assembling
      <4> QED BY <3>2, <4>1, AnnouncedLater
    <3>4. assembled'[r] = 0
      <4>1. assembled[r] = 0
        BY <3>3 DEF ConstructInv, Assembling
      <4>2. pc[p] # "assemble"
        BY <3>1
      <4> QED BY <4>1, <4>2 DEF AssembleAllowed
    <3>5. n \in 1..k
      BY <1>0, <3>1 DEF ConstructInv, Assembling
    <3>6. n \in 1..l
      BY <1>1, <3>5
    <3> QED BY <1>l, <2>2, <3>2, <3>4, <3>6
  <2> QED BY <2>1, <2>2
<1> QED BY <1>3, <1>4

LEMMA AssembleStep ==
    ASSUME ConstructInv, ConstructTables', NEW p \in Process, Apart(p), AssembleAllowed(p)
    PROVE  Assembling'
<1>1. ASSUME NEW q \in Process, pc'[q] \in {"build observe", "assemble"}
      PROVE  /\ me'[q].rev \in Revision /\ me'[q].nonce \in 1..made'[BuildJob(me'[q].rev)]
             /\ pc'[q] = "build observe" => \E r \in Revision, n \in 1..made'[BuildJob(me'[q].rev)] :
                   r = me'[q].rev /\ n = me'[q].nonce /\ ~Announced(r, n)'
             /\ pc'[q] = "assemble" => \E r \in Revision, n \in 1..made'[BuildJob(me'[q].rev)] :
                   r = me'[q].rev /\ n = me'[q].nonce /\ Announced(r, n)' /\ assembled'[r] = 0
  <2>1. me'[q].rev \in Revision
    BY <1>1 DEF ConstructTables
  <2>2. PICK r \in Revision : r = me'[q].rev
    BY <2>1
  <2>3. PICK n : n = me'[q].nonce
    OBVIOUS
  <2>4. /\ n \in 1..made'[BuildJob(r)]
        /\ pc'[q] = "build observe" => ~Announced(r, n)'
        /\ pc'[q] = "assemble" => Announced(r, n)' /\ assembled'[r] = 0
    BY <1>1, <2>2, <2>3, AssemblePlaces
  <2> QED BY <2>2, <2>3, <2>4
<1>2. ASSUME NEW q \in Process, NEW s \in Process, pc'[q] \in {"build observe", "assemble"},
             pc'[s] \in {"build observe", "assemble"},
             me'[q].rev = me'[s].rev, me'[q].nonce = me'[s].nonce, q # s
      PROVE  FALSE
  <2>1. CASE q # p /\ s # p
    BY <1>2, <2>1 DEF Apart, ConstructInv, Assembling
  <2>2. ASSUME NEW x \in Process, x # p, pc'[x] \in {"build observe", "assemble"},
               pc'[p] \in {"build observe", "assemble"}, me'[x].rev = me'[p].rev, me'[x].nonce = me'[p].nonce
        PROVE  FALSE
    <3>1. pc[x] \in {"build observe", "assemble"} /\ me'[x] = me[x]
      BY <2>2 DEF Apart
    <3>2. me[x].nonce \in 1..made[BuildJob(me[x].rev)]
      BY <3>1 DEF ConstructInv, Assembling
    <3>3. CASE pc'[p] = "build observe"
      <4>1. me'[p].rev = me[p].rev /\ me'[p].nonce = made[BuildJob(me[p].rev)] + 1
        BY <3>3 DEF AssembleAllowed
      <4>2. me[x].rev \in Revision
        BY <3>1 DEF ConstructInv, ConstructTables
      <4>3. PICK k : k = made[BuildJob(me[x].rev)]
        OBVIOUS
      <4>4. k \in Nat
        BY <4>2, <4>3, ConstructConstants DEF ConstructInv, ConstructTables
      <4>5. me[x].nonce = k + 1 /\ me[x].nonce \in 1..k
        BY <2>2, <3>1, <3>2, <4>1, <4>3
      <4> QED BY <4>4, <4>5
    <3>4. CASE pc'[p] = "assemble"
      <4>1. pc[p] = "build observe" /\ me'[p] = me[p]
        BY <3>4 DEF AssembleAllowed
      <4> QED BY <2>2, <3>1, <4>1 DEF ConstructInv, Assembling
    <3> QED BY <2>2, <3>3, <3>4
  <2>3. CASE q = p
    BY <1>2, <2>2, <2>3
  <2>4. CASE s = p
    BY <1>2, <2>2, <2>4
  <2> QED BY <2>1, <2>3, <2>4
<1>3. \A r \in Revision :
        /\ assembled'[r] \in 0..1
        /\ rows'[BuildJob(r)] = <<>> => assembled'[r] = 0
        /\ rows'[BuildJob(r)] # <<>> => \E n \in 0..made'[BuildJob(r)] : Announced(r, n)'
  BY AssembleRevisions
<1>4. /\ \A q \in Process : pc'[q] = "build observe" => ~Announced(me[q].rev, me[q].nonce)'
      /\ \A q \in Process : pc'[q] = "assemble" => Announced(me[q].rev, me[q].nonce)' /\ assembled'[me'[q].rev] = 0
  BY <1>1 DEF Announced, BuildJob, Construction!BuildJob, Construction!Intent, Construction!Receipt
<1> QED BY <1>1, <1>2, <1>3, <1>4 DEF Assembling, BuildJob, Construction!BuildJob

Memory == {"rev", "goal", "holds", "receipt", "builder", "nonce"}

\* What a step of p may do to the jobs, to the rows, to the counts, and where it may leave p.
JobAllowed(p) ==
    /\ DOMAIN job' = Jobs /\ \A j \in Jobs : DOMAIN job'[j] = DOMAIN Absent
    /\ \A r \in Revision :
          /\ job[SourceJob(r)].state # "absent" => job'[SourceJob(r)].state # "absent"
          /\ job'[SourceJob(r)].state # "absent" =>
                job[SourceJob(r)].state # "absent" \/ (pc[p] = "source enqueue" /\ r = me[p].rev)
          /\ job[BuildJob(r)].state = "completed" => job'[BuildJob(r)] = job[BuildJob(r)]
          /\ job'[BuildJob(r)].state = "completed" => job'[BuildJob(r)].result \in job'[BuildJob(r)].bound
          /\ job'[ConstructJob(r)].state # "absent" => eligible
          /\ job'[ConstructJob(r)].state = "completed" =>
                /\ job'[ConstructJob(r)].result \in job'[ConstructJob(r)].bound
                /\ inputs = "match" => BuiltAs(r, Construction!Value(job'[ConstructJob(r)].result))

RowsAllowed(p) ==
    /\ DOMAIN rows' = Jobs /\ \A j \in Jobs : IsRow(rows'[j]) /\ Len(rows'[j]) <= 2
    /\ \A r \in Revision :
          /\ rows'[SourceJob(r)] # <<>> => job[SourceJob(r)].state # "absent"
          /\ Len(rows[BuildJob(r)]) = 2 => rows'[BuildJob(r)] = rows[BuildJob(r)]
          /\ rows[BuildJob(r)] # <<>> => rows'[BuildJob(r)] # <<>> /\ rows'[BuildJob(r)][1] = rows[BuildJob(r)][1]
          /\ rows[BuildJob(r)] = <<>> /\ rows'[BuildJob(r)] # <<>> =>
                /\ pc[p] = "build observe" /\ r = me[p].rev
                /\ rows'[BuildJob(r)][1] = {Construction!Intent(me[p].nonce)}

CountsAllowed(p) ==
    /\ DOMAIN made' = Jobs /\ DOMAIN key' = Jobs /\ DOMAIN assembled' = Revision
    /\ \A j \in Jobs : made'[j] \in Nat /\ made[j] <= made'[j]
    /\ \A r \in Revision :
          \/ assembled'[r] = assembled[r]
          \/ pc[p] = "assemble" /\ r = me[p].rev /\ assembled'[r] = assembled[r] + 1

PlaceAllowed(p) ==
    /\ UNCHANGED <<eligible, inputs>>
    /\ pc'[p] # "idle" => me'[p].rev \in Revision /\ DOMAIN me'[p] = Memory
    /\ retained'[p] # Nothing => retained'[p].job \in Jobs
    /\ pc'[p] # "idle" /\ Construction!Lock \in me'[p].holds =>
          \/ pc[p] # "idle" /\ Construction!Lock \in me[p].holds
          \/ Construction!Free(p, Construction!Lock)
    /\ pc'[p] \in {"source look up", "source enqueue"} => Construction!Lock \in me'[p].holds
    /\ pc'[p] = "source enqueue" => \A s \in Revision : s # me'[p].rev => job'[SourceJob(s)].state = "absent"
    /\ pc'[p] = "source intent" => job'[SourceJob(me'[p].rev)].state # "absent"
    /\ pc'[p] = "build observe" =>
          /\ pc[p] = "build intent" /\ me'[p].rev = me[p].rev
          /\ me'[p].nonce = made[BuildJob(me[p].rev)] + 1
          /\ made'[BuildJob(me[p].rev)] = made[BuildJob(me[p].rev)] + 1
    /\ pc'[p] = "assemble" =>
          /\ pc[p] = "build observe" /\ me'[p] = me[p]
          /\ rows'[BuildJob(me[p].rev)] # <<>>
          /\ rows'[BuildJob(me[p].rev)][1] = {Construction!Intent(me[p].nonce)}
    /\ pc'[p] = "construct enqueue" => eligible
    /\ pc'[p] = "build finish" =>
          Len(rows'[BuildJob(me'[p].rev)]) = 2 /\ me'[p].receipt \in rows'[BuildJob(me'[p].rev)][2]
    /\ pc'[p] = "construct finish" /\ inputs = "match" =>
          BuiltAs(me'[p].rev, Construction!Value(me'[p].receipt))

ConstructAllowed(p) ==
    Apart(p) /\ JobAllowed(p) /\ RowsAllowed(p) /\ CountsAllowed(p) /\ PlaceAllowed(p)

LEMMA ConstructTablesStep ==
    ASSUME ConstructInv, NEW p \in Process, ConstructAllowed(p)
    PROVE  ConstructTables'
<1>1. ASSUME NEW q \in Process
      PROVE  /\ pc'[q] # "idle" => me'[q].rev \in Revision /\ DOMAIN me'[q] = Memory
             /\ retained'[q] # Nothing => retained'[q].job \in Jobs
  <2>1. CASE q = p
    BY <2>1 DEF ConstructAllowed, PlaceAllowed
  <2>2. CASE q # p
    BY <2>2 DEF ConstructAllowed, Apart, ConstructInv, ConstructTables, Memory
  <2> QED BY <2>1, <2>2
<1>2. /\ DOMAIN rows' = Jobs /\ DOMAIN job' = Jobs /\ DOMAIN made' = Jobs /\ DOMAIN key' = Jobs
      /\ DOMAIN assembled' = Revision
      /\ \A j \in Jobs : IsRow(rows'[j]) /\ Len(rows'[j]) <= 2 /\ DOMAIN job'[j] = DOMAIN Absent /\ made'[j] \in Nat
  BY DEF ConstructAllowed, JobAllowed, RowsAllowed, CountsAllowed
<1>3. Jobs' = Jobs /\ Absent' = Absent /\ Processes'
  BY ConstructConstants DEF Absent, ConstructAllowed, Apart
<1> QED BY <1>1, <1>2, <1>3 DEF ConstructTables, Memory, IsRow

\* Whether the build of r completed with this outcome does not change once it did.
LEMMA BuiltLater ==
    ASSUME NEW p, JobAllowed(p), NEW r \in Revision, NEW o, BuiltAs(r, o)
    PROVE  BuiltAs(r, o)'
  BY DEF JobAllowed, BuiltAs, BuildJob, Construction!BuildJob

LEMMA BuildFinishes ==
    ASSUME ConstructInv, NEW p \in Process, ConstructAllowed(p), NEW q \in Process, pc'[q] = "build finish",
           NEW r \in Revision, r = me'[q].rev
    PROVE  Len(rows'[BuildJob(r)]) = 2 /\ me'[q].receipt \in rows'[BuildJob(r)][2]
<1>1. CASE q = p
  BY <1>1 DEF ConstructAllowed, PlaceAllowed
<1>2. CASE q # p
  <2>1. pc[q] = "build finish" /\ me'[q] = me[q]
    BY <1>2 DEF ConstructAllowed, Apart
  <2>2. Len(rows[BuildJob(r)]) = 2 /\ me[q].receipt \in Newest(BuildJob(r))
    BY <2>1 DEF ConstructInv, Building
  <2>3. me[q].receipt \in rows[BuildJob(r)][2]
    BY <2>2 DEF Newest
  <2>4. rows'[BuildJob(r)] = rows[BuildJob(r)]
    BY <2>2 DEF ConstructAllowed, RowsAllowed
  <2> QED BY <2>1, <2>2, <2>3, <2>4
<1> QED BY <1>1, <1>2

LEMMA BuildStep ==
    ASSUME ConstructInv, ConstructTables', NEW p \in Process, ConstructAllowed(p)
    PROVE  Building'
<1>1. UNCHANGED <<eligible, inputs>>
  BY DEF ConstructAllowed, PlaceAllowed
<1>2. ASSUME NEW q \in Process, pc'[q] = "construct enqueue"
      PROVE  eligible'
  <2>1. CASE q = p
    <3>1. pc'[p] = "construct enqueue" => eligible
      BY DEF ConstructAllowed, PlaceAllowed
    <3>2. eligible
      BY <1>2, <2>1, <3>1
    <3> QED BY <1>1, <3>2
  <2>2. CASE q # p
    BY <1>1, <1>2, <2>2 DEF ConstructAllowed, Apart, ConstructInv, Building
  <2> QED BY <2>1, <2>2
<1>3. ASSUME NEW q \in Process, pc'[q] = "build finish"
      PROVE  Len(rows'[BuildJob(me'[q].rev)]) = 2 /\ me'[q].receipt \in Newest(BuildJob(me[q].rev))'
  <2>1. PICK r \in Revision : r = me'[q].rev
    BY <1>3 DEF ConstructTables
  <2>2. Len(rows'[BuildJob(r)]) = 2 /\ me'[q].receipt \in rows'[BuildJob(r)][2]
    BY <1>3, <2>1, BuildFinishes
  <2>3. IsRow(rows'[BuildJob(r)])
    BY ConstructConstants DEF ConstructAllowed, RowsAllowed
  <2>4. rows'[BuildJob(r)] # <<>>
    BY <2>2, <2>3, RowLength
  <2>5. me'[q].receipt \in Newest(BuildJob(r))'
    BY <2>2, <2>4 DEF Newest, BuildJob, Construction!BuildJob
  <2> QED BY <2>1, <2>2, <2>5 DEF BuildJob, Construction!BuildJob
<1>4. ASSUME NEW q \in Process, pc'[q] = "construct finish", inputs = "match"
      PROVE  BuiltAs(me[q].rev, Construction!Value(me[q].receipt))'
  <2>1. PICK r \in Revision : r = me'[q].rev
    BY <1>4 DEF ConstructTables
  <2>2. PICK o : o = Construction!Value(me'[q].receipt)
    OBVIOUS
  <2>3. BuiltAs(r, o)
    <3>1. CASE q = p
      BY <1>4, <2>1, <2>2, <3>1 DEF ConstructAllowed, PlaceAllowed
    <3>2. CASE q # p
      BY <1>4, <2>1, <2>2, <3>2 DEF ConstructAllowed, Apart, ConstructInv, Building
    <3> QED BY <3>1, <3>2
  <2>4. BuiltAs(r, o)'
    BY <2>3, BuiltLater DEF ConstructAllowed
  <2> QED BY <2>1, <2>2, <2>4 DEF BuiltAs, Construction!Value, BuildJob, Construction!BuildJob
<1>5. ASSUME NEW r \in Revision
      PROVE  /\ job'[BuildJob(r)].state = "completed" => job'[BuildJob(r)].result \in job'[BuildJob(r)].bound
             /\ job'[ConstructJob(r)].state # "absent" => eligible'
             /\ job'[ConstructJob(r)].state = "completed" =>
                   /\ job'[ConstructJob(r)].result \in job'[ConstructJob(r)].bound
                   /\ inputs' = "match" => BuiltAs(r, Construction!Value(job[ConstructJob(r)].result))'
  <2>1. /\ job'[BuildJob(r)].state = "completed" => job'[BuildJob(r)].result \in job'[BuildJob(r)].bound
        /\ job'[ConstructJob(r)].state # "absent" => eligible'
        /\ job'[ConstructJob(r)].state = "completed" => job'[ConstructJob(r)].result \in job'[ConstructJob(r)].bound
    BY <1>1 DEF ConstructAllowed, JobAllowed
  <2>2. ASSUME job'[ConstructJob(r)].state = "completed", inputs' = "match"
        PROVE  BuiltAs(r, Construction!Value(job[ConstructJob(r)].result))'
    <3>1. PICK o : o = Construction!Value(job'[ConstructJob(r)].result)
      OBVIOUS
    <3>2. BuiltAs(r, o)
      BY <1>1, <2>2, <3>1 DEF ConstructAllowed, JobAllowed
    <3>3. BuiltAs(r, o)'
      BY <3>2, BuiltLater DEF ConstructAllowed
    <3> QED BY <3>1, <3>3 DEF BuiltAs, Construction!Value, ConstructJob, Construction!ConstructJob
  <2> QED BY <2>1, <2>2
<1>6. /\ \A q \in Process : pc'[q] = "construct enqueue" => eligible'
      /\ \A q \in Process : pc'[q] = "build finish" =>
            Len(rows'[BuildJob(me'[q].rev)]) = 2 /\ me'[q].receipt \in Newest(BuildJob(me[q].rev))'
      /\ \A q \in Process : pc'[q] = "construct finish" /\ inputs' = "match" =>
            BuiltAs(me[q].rev, Construction!Value(me[q].receipt))'
  BY <1>1, <1>2, <1>3, <1>4
<1> QED BY <1>5, <1>6 DEF Building, BuildJob, Construction!BuildJob, ConstructJob, Construction!ConstructJob

LEMMA ConstructStep ==
    ASSUME ConstructInv, NEW p \in Process, ConstructAllowed(p)
    PROVE  ConstructInv'
<1>1. ConstructTables'
  BY ConstructTablesStep
<1>2. ImportAllowed(p)
  BY DEF ConstructAllowed, JobAllowed, RowsAllowed, PlaceAllowed, ImportAllowed
<1>3. AssembleAllowed(p)
  <2>1. \A r \in Revision : made'[BuildJob(r)] \in Nat /\ made[BuildJob(r)] <= made'[BuildJob(r)]
    BY ConstructConstants DEF ConstructAllowed, CountsAllowed
  <2> QED BY <2>1 DEF ConstructAllowed, RowsAllowed, CountsAllowed, PlaceAllowed, AssembleAllowed
<1>4. Apart(p)
  BY DEF ConstructAllowed
<1> QED BY <1>1, <1>2, <1>3, <1>4, ImportStep, AssembleStep, BuildStep DEF ConstructInv

\* How the registry takes a job on for p.
JobGoes(p, j) ==
    \/ job'[j] = job[j]
    \/ /\ job[j].state \in {"absent", "queued"} /\ job'[j].state \in {"queued", "running"}
       /\ job[j].state = "absent" /\ j[1] = "source" => pc[p] = "source enqueue" /\ j = SourceJob(me[p].rev)
       /\ job[j].state = "absent" /\ j[1] = "construct" => eligible
    \/ /\ job[j].state # "completed" /\ (job[j].state = "running" \/ j[1] = "build")
       /\ job'[j].state = "completed" /\ job'[j].result \in job'[j].bound
       /\ \A r \in Revision : j = ConstructJob(r) /\ inputs = "match" =>
             BuiltAs(r, Construction!Value(job'[j].result))

LEMMA JobKinds ==
    \A r : SourceJob(r)[1] = "source" /\ ConstructJob(r)[1] = "construct" /\ BuildJob(r)[1] = "build"
  BY DEF SourceJob, ConstructJob, BuildJob, Construction!SourceJob, Construction!ConstructJob, Construction!BuildJob

LEMMA JobStep ==
    ASSUME ConstructInv, NEW p \in Process, NEW j \in Jobs, Rejob(j), JobGoes(p, j)
    PROVE  JobAllowed(p)
<1>1. DOMAIN job' = Jobs /\ \A k \in Jobs : DOMAIN job'[k] = DOMAIN Absent
  BY DEF Rejob, ConstructInv, ConstructTables
<1>2. ASSUME NEW r \in Revision
      PROVE  /\ job[SourceJob(r)].state # "absent" => job'[SourceJob(r)].state # "absent"
             /\ job'[SourceJob(r)].state # "absent" =>
                   job[SourceJob(r)].state # "absent" \/ (pc[p] = "source enqueue" /\ r = me[p].rev)
  <2>1. SourceJob(r) \in Jobs /\ SourceJob(r)[1] = "source"
    BY ConstructConstants, JobKinds
  <2>2. CASE j # SourceJob(r)
    BY <2>1, <2>2 DEF Rejob, ConstructInv, ConstructTables
  <2>3. CASE j = SourceJob(r)
    <3>1. j = SourceJob(me[p].rev) => r = me[p].rev
      BY <2>3, ConstructConstants
    <3> QED BY <2>1, <2>3, <3>1 DEF JobGoes
  <2> QED BY <2>2, <2>3
<1>3. ASSUME NEW r \in Revision
      PROVE  /\ job[BuildJob(r)].state = "completed" => job'[BuildJob(r)] = job[BuildJob(r)]
             /\ job'[BuildJob(r)].state = "completed" => job'[BuildJob(r)].result \in job'[BuildJob(r)].bound
  <2>1. BuildJob(r) \in Jobs
    BY ConstructConstants
  <2>2. job[BuildJob(r)].state = "completed" => job[BuildJob(r)].result \in job[BuildJob(r)].bound
    BY DEF ConstructInv, Building
  <2>3. CASE j # BuildJob(r)
    BY <2>1, <2>2, <2>3 DEF Rejob, ConstructInv, ConstructTables
  <2>4. CASE j = BuildJob(r)
    BY <2>2, <2>4 DEF JobGoes
  <2> QED BY <2>3, <2>4
<1>4. ASSUME NEW r \in Revision
      PROVE  /\ job'[ConstructJob(r)].state # "absent" => eligible
             /\ job'[ConstructJob(r)].state = "completed" =>
                   /\ job'[ConstructJob(r)].result \in job'[ConstructJob(r)].bound
                   /\ inputs = "match" => BuiltAs(r, Construction!Value(job'[ConstructJob(r)].result))
  <2>1. ConstructJob(r) \in Jobs /\ ConstructJob(r)[1] = "construct"
    BY ConstructConstants, JobKinds
  <2>2. /\ job[ConstructJob(r)].state # "absent" => eligible
        /\ job[ConstructJob(r)].state = "completed" =>
              /\ job[ConstructJob(r)].result \in job[ConstructJob(r)].bound
              /\ inputs = "match" => BuiltAs(r, Construction!Value(job[ConstructJob(r)].result))
    BY DEF ConstructInv, Building
  <2>3. CASE job'[ConstructJob(r)] = job[ConstructJob(r)]
    BY <2>2, <2>3
  <2>4. CASE j # ConstructJob(r)
    BY <2>1, <2>3, <2>4 DEF Rejob, ConstructInv, ConstructTables
  <2>5. CASE j = ConstructJob(r) /\ job'[j] # job[j]
    <3>1. job[j].state = "absent" => eligible \/ job'[j].state = "absent"
      BY <2>1, <2>5 DEF JobGoes
    <3>2. eligible
      BY <2>1, <2>2, <2>5 DEF JobGoes
    <3>3. job'[j].state = "completed" =>
             job'[j].result \in job'[j].bound
             /\ (inputs = "match" => BuiltAs(r, Construction!Value(job'[j].result)))
      BY <2>5 DEF JobGoes
    <3> QED BY <2>5, <3>2, <3>3
  <2> QED BY <2>3, <2>4, <2>5
<1> QED BY <1>1, <1>2, <1>3, <1>4 DEF JobAllowed

LEMMA JobsSame ==
    ASSUME ConstructInv, NEW p \in Process, UNCHANGED job
    PROVE  JobAllowed(p)
  BY DEF JobAllowed, ConstructInv, ConstructTables, Building

LEMMA RowsSame ==
    ASSUME ConstructInv, NEW p \in Process, UNCHANGED rows
    PROVE  RowsAllowed(p)
  BY DEF RowsAllowed, ConstructInv, ConstructTables, Importing

LEMMA CountsStep ==
    ASSUME ConstructInv, NEW p \in Process, UNCHANGED key \/ (\E j, k : key' = [key EXCEPT ![j] = k]),
           UNCHANGED made \/ (\E j \in Jobs : made' = [made EXCEPT ![j] = @ + 1]),
           \/ UNCHANGED assembled
           \/ pc[p] = "assemble" /\ assembled' = [assembled EXCEPT ![me[p].rev] = @ + 1]
    PROVE  CountsAllowed(p)
<1>1. DOMAIN key' = Jobs
  BY DEF ConstructInv, ConstructTables
<1>2. DOMAIN made' = Jobs /\ \A j \in Jobs : made'[j] \in Nat /\ made[j] <= made'[j]
  BY DEF ConstructInv, ConstructTables
<1>3. DOMAIN assembled' = Revision /\ \A r \in Revision :
        \/ assembled'[r] = assembled[r]
        \/ pc[p] = "assemble" /\ r = me[p].rev /\ assembled'[r] = assembled[r] + 1
  BY DEF ConstructInv, ConstructTables
<1> QED BY <1>1, <1>2, <1>3 DEF CountsAllowed

IsMemory(m) == m.rev \in Revision /\ DOMAIN m = Memory
Placed == {"build observe", "assemble"}

\* Where p may go with the memory m, retaining x.
ConstructGo(p, label, m, x) ==
    /\ x # Nothing => x.job \in Jobs
    /\ label # "idle" => IsMemory(m)
    /\ label # "idle" /\ Construction!Lock \in m.holds =>
          \/ pc[p] # "idle" /\ Construction!Lock \in me[p].holds
          \/ Construction!Free(p, Construction!Lock)
    /\ label \in {"source look up", "source enqueue"} => Construction!Lock \in m.holds
    /\ label = "source enqueue" => \A s \in Revision : s # m.rev => job[SourceJob(s)].state = "absent"
    /\ label = "construct enqueue" => eligible
    /\ label = "construct finish" /\ inputs = "match" => BuiltAs(m.rev, Construction!Value(m.receipt))
    /\ label \notin Placed

\* And what the step has then done.
ConstructGone(label, m) ==
    /\ UNCHANGED <<eligible, inputs>>
    /\ label = "source enqueue" => UNCHANGED job
    /\ label = "source intent" => job'[SourceJob(m.rev)].state # "absent"
    /\ label = "build finish" => Len(rows'[BuildJob(m.rev)]) = 2 /\ m.receipt \in rows'[BuildJob(m.rev)][2]

LEMMA PlaceStep ==
    ASSUME ConstructInv, NEW p \in Process, NEW label, NEW m, NEW x, Moved(p, label, m, x),
           ConstructGo(p, label, m, x), ConstructGone(label, m)
    PROVE  Apart(p) /\ PlaceAllowed(p)
<1>1. Apart(p) /\ pc'[p] = label /\ me'[p] = m /\ retained'[p] = x
  BY MovedThere DEF ConstructInv, ConstructTables
<1>2. /\ label # "idle" => m.rev \in Revision /\ DOMAIN m = Memory
      /\ x # Nothing => x.job \in Jobs
      /\ label # "idle" /\ Construction!Lock \in m.holds =>
            \/ pc[p] # "idle" /\ Construction!Lock \in me[p].holds
            \/ Construction!Free(p, Construction!Lock)
      /\ label \in {"source look up", "source enqueue"} => Construction!Lock \in m.holds
      /\ label # "build observe" /\ label # "assemble"
  BY DEF ConstructGo, IsMemory, Placed
<1>3. label = "source enqueue" => \A s \in Revision : s # m.rev => job'[SourceJob(s)].state = "absent"
  BY DEF ConstructGo, ConstructGone
<1>4. /\ label = "construct enqueue" => eligible
      /\ label = "construct finish" /\ inputs = "match" => BuiltAs(m.rev, Construction!Value(m.receipt))
  BY DEF ConstructGo
<1>5. /\ UNCHANGED <<eligible, inputs>>
      /\ label = "source intent" => job'[SourceJob(m.rev)].state # "absent"
      /\ label = "build finish" => Len(rows'[BuildJob(m.rev)]) = 2 /\ m.receipt \in rows'[BuildJob(m.rev)][2]
  BY DEF ConstructGone
<1> QED BY <1>1, <1>2, <1>3, <1>4, <1>5 DEF PlaceAllowed

LEMMA ConstructGoes ==
    ASSUME ConstructInv, NEW p \in Process, NEW label, NEW m, NEW x, Moved(p, label, m, x),
           ConstructGo(p, label, m, x), ConstructGone(label, m),
           JobAllowed(p), RowsAllowed(p), CountsAllowed(p)
    PROVE  ConstructInv'
<1>1. Apart(p) /\ PlaceAllowed(p)
  BY PlaceStep
<1> QED BY <1>1, ConstructStep DEF ConstructAllowed

LEMMA ConstructAt ==
    ASSUME ConstructInv, NEW p \in Process
    PROVE  /\ pc[p] # "idle" => IsMemory(me[p])
           /\ retained[p] # Nothing => retained[p].job \in Jobs
  BY DEF ConstructInv, ConstructTables, IsMemory, Memory

\* Places that say more of what is behind them.
Guarded == {"source look up", "source enqueue", "construct enqueue", "construct finish"} \cup Placed
Reached == {"source enqueue", "source intent", "build finish"}

LEMMA GoesOn ==
    ASSUME ConstructInv, NEW p \in Process, pc[p] # "idle", NEW m, IsMemory(m), m.holds = me[p].holds,
           NEW label, label \notin Guarded, NEW x, x # Nothing => x.job \in Jobs
    PROVE  ConstructGo(p, label, m, x)
  BY DEF ConstructGo, Guarded

LEMMA GoneOn ==
    ASSUME NEW label, label \notin Reached, NEW m, UNCHANGED <<eligible, inputs>>
    PROVE  ConstructGone(label, m)
  BY DEF ConstructGone, Reached

\* Nothing happens to p but that it goes on, or that its call ends.
LEMMA ConstructEnds ==
    ASSUME ConstructInv, NEW p \in Process, pc[p] # "idle", NEW label, label \notin Guarded, label \notin Reached,
           NEW m, NEW x, Moved(p, label, m, x), IsMemory(m), m.holds = me[p].holds, x # Nothing => x.job \in Jobs,
           UNCHANGED <<eligible, inputs>>, JobAllowed(p), RowsAllowed(p), CountsAllowed(p)
    PROVE  ConstructInv'
<1>1. ConstructGo(p, label, m, x) /\ ConstructGone(label, m)
  BY GoesOn, GoneOn
<1> QED BY <1>1, ConstructGoes

LEMMA ConstructBegins ==
    ASSUME ConstructInv, NEW p \in Process, NEW label, NEW m, Construction!Begin(p, label, m),
           UNCHANGED <<rows, job, retained, Construction!constructionVars>>,
           label \notin Guarded \ {"source look up"}, label \notin Reached, IsMemory(m),
           m.holds = {} \/ (m.holds = {Construction!Lock} /\ Construction!Free(p, Construction!Lock)),
           label = "source look up" => Construction!Lock \in m.holds
    PROVE  ConstructInv'
<1>1. Moved(p, label, m, retained[p])
  BY ConstructControl DEF Moved, Construction!Begin
<1>2. retained[p] # Nothing => retained[p].job \in Jobs
  BY ConstructAt
<1>3. ConstructGo(p, label, m, retained[p])
  BY <1>2 DEF ConstructGo, Guarded, Placed
<1>4. UNCHANGED <<eligible, inputs, key, made, assembled>> /\ UNCHANGED job /\ UNCHANGED rows
  BY DEF Construction!constructionVars
<1>5. ConstructGone(label, m)
  BY <1>4, GoneOn
<1>6. JobAllowed(p) /\ RowsAllowed(p) /\ CountsAllowed(p)
  BY <1>4, JobsSame, RowsSame, CountsStep
<1> QED BY <1>1, <1>3, <1>5, <1>6, ConstructGoes

LEMMA ConstructOpens ==
    ASSUME ConstructInv, NEW p \in Process, NEW r \in Revision,
           \/ \E goal \in {"screen", "construct"} : Construction!Screen(p, r, goal)
           \/ Construction!BuildDirectly(p, r) \/ Construction!RecoverSource(p, r) \/ Construction!RecoverConstruct(p, r)
    PROVE  ConstructInv'
<1>1. ASSUME NEW goal, Construction!Screen(p, r, goal)
      PROVE  ConstructInv'
  <2>1. PICK m : m = Construction!Working(r, goal, {Construction!Lock})
    OBVIOUS
  <2>2. IsMemory(m) /\ m.holds = {Construction!Lock}
    BY <2>1 DEF Construction!Working, IsMemory, Memory
  <2>3. /\ Construction!Begin(p, "source look up", m) /\ Construction!Free(p, Construction!Lock)
        /\ UNCHANGED <<rows, job, retained, Construction!constructionVars>>
    BY <1>1, <2>1 DEF Construction!Screen
  <2>4. "source look up" \notin Guarded \ {"source look up"} /\ "source look up" \notin Reached
    BY DEF Guarded, Placed, Reached
  <2> QED BY <2>2, <2>3, <2>4, ConstructBegins
<1>2. CASE Construction!BuildDirectly(p, r)
  <2>1. PICK m : m = [Construction!Working(r, "build", {}) EXCEPT !.builder = "direct"]
    OBVIOUS
  <2>2. IsMemory(m) /\ m.holds = {}
    BY <2>1 DEF Construction!Working, IsMemory, Memory
  <2>3. /\ Construction!Begin(p, "build enqueue", m)
        /\ UNCHANGED <<rows, job, retained, Construction!constructionVars>>
    BY <1>2, <2>1 DEF Construction!BuildDirectly
  <2>4. "build enqueue" \notin Guarded \ {"source look up"} /\ "build enqueue" \notin Reached
    BY DEF Guarded, Placed, Reached
  <2> QED BY <2>2, <2>3, <2>4, ConstructBegins
<1>3. CASE Construction!RecoverSource(p, r)
  <2>1. PICK o : /\ Construction!Begin(p, "source finish",
                                       [Construction!Working(r, "screen", {}) EXCEPT !.receipt = o])
                 /\ UNCHANGED <<rows, job, retained, Construction!constructionVars>>
    BY <1>3 DEF Construction!RecoverSource
  <2>2. PICK m : m = [Construction!Working(r, "screen", {}) EXCEPT !.receipt = o]
    OBVIOUS
  <2>3. IsMemory(m) /\ m.holds = {}
    BY <2>2 DEF Construction!Working, IsMemory, Memory
  <2>4. "source finish" \notin Guarded \ {"source look up"} /\ "source finish" \notin Reached
    BY DEF Guarded, Placed, Reached
  <2> QED BY <2>1, <2>2, <2>3, <2>4, ConstructBegins
<1>4. CASE Construction!RecoverConstruct(p, r)
  <2>1. PICK m : m = Construction!Working(r, "recover", {Construction!Lock})
    OBVIOUS
  <2>2. /\ Construction!Free(p, Construction!Lock)
        /\ UNCHANGED <<rows, job, retained, Construction!constructionVars>>
    BY <1>4 DEF Construction!RecoverConstruct
  <2>3. PICK label, n : /\ Construction!Begin(p, label, n)
                        /\ \/ label = "execute" /\ n = m
                           \/ label = "construct publish" /\ \E o : n = [m EXCEPT !.receipt = o]
    <3>1. CASE Construction!FrozenOf(Construction!ConstructJob(r)) = {}
      <4>1. Construction!Begin(p, "execute", m)
        BY <1>4, <2>1, <3>1 DEF Construction!RecoverConstruct
      <4> QED BY <4>1
    <3>2. CASE Construction!FrozenOf(Construction!ConstructJob(r)) # {}
      <4>1. PICK o : Construction!Begin(p, "construct publish", [m EXCEPT !.receipt = o])
        BY <1>4, <2>1, <3>2 DEF Construction!RecoverConstruct
      <4> QED BY <4>1
    <3> QED BY <3>1, <3>2
  <2>4. IsMemory(n) /\ n.holds = {Construction!Lock}
    <3>1. IsMemory(m) /\ m.holds = {Construction!Lock}
      BY <2>1 DEF Construction!Working, IsMemory, Memory
    <3>2. CASE n = m
      BY <3>1, <3>2
    <3>3. ASSUME NEW o, n = [m EXCEPT !.receipt = o]
          PROVE  IsMemory(n) /\ n.holds = {Construction!Lock}
      BY <3>1, <3>3 DEF IsMemory, Memory
    <3> QED BY <2>3, <3>2, <3>3
  <2>5. label \notin Guarded \ {"source look up"} /\ label \notin Reached /\ label # "source look up"
    BY <2>3 DEF Guarded, Placed, Reached
  <2> QED BY <2>2, <2>3, <2>4, <2>5, ConstructBegins
<1> QED BY <1>1, <1>2, <1>3, <1>4

LEMMA ConstructRetries ==
    ASSUME ConstructInv, NEW p \in Process,
           Construction!RetryPublication(p) \/ Construction!RetryBuild(p)
    PROVE  ConstructInv'
<1>1. PICK x : x = retained[p]
  OBVIOUS
<1>2. x # Nothing /\ UNCHANGED <<rows, job, retained, Construction!constructionVars>>
  BY <1>1 DEF Construction!RetryPublication, Construction!RetryBuild
<1>3. x.job \in Jobs
  BY <1>1, <1>2, ConstructAt
<1>4. PICK r \in Revision : r = x.job[2]
  BY <1>3 DEF Jobs, Construction!Jobs
<1>5. PICK label, m : /\ Construction!Begin(p, label, m)
                      /\ label \in {"source publish", "construct publish", "build publish"}
                      /\ IsMemory(m) /\ m.holds = {}
  <2>1. CASE Construction!RetryPublication(p)
    <3>1. PICK m : m = [Construction!Working(r, "retry", {}) EXCEPT !.receipt = x.receipt]
      OBVIOUS
    <3>2. IsMemory(m) /\ m.holds = {}
      BY <3>1 DEF Construction!Working, IsMemory, Memory
    <3>3. PICK label : /\ label = IF x.job[1] = "source" THEN "source publish" ELSE "construct publish"
                       /\ Construction!Begin(p, label, m)
      BY <1>1, <1>4, <2>1, <3>1 DEF Construction!RetryPublication
    <3>4. label \in {"source publish", "construct publish", "build publish"}
      BY <3>3
    <3> QED BY <3>2, <3>3, <3>4
  <2>2. CASE Construction!RetryBuild(p)
    <3>1. PICK m : m = [Construction!Working(r, "build", {}) EXCEPT !.receipt = x.receipt, !.nonce = x.nonce]
      OBVIOUS
    <3>2. IsMemory(m) /\ m.holds = {}
      BY <3>1 DEF Construction!Working, IsMemory, Memory
    <3>3. Construction!Begin(p, "build publish", m)
      BY <1>1, <1>4, <2>2, <3>1 DEF Construction!RetryBuild
    <3> QED BY <3>2, <3>3
  <2> QED BY <2>1, <2>2
<1>6. label \notin Guarded \ {"source look up"} /\ label \notin Reached /\ label # "source look up"
  BY <1>5 DEF Guarded, Placed, Reached
<1> QED BY <1>2, <1>5, <1>6, ConstructBegins

\* The job and the memory of a call at a place.
LEMMA ConstructCall ==
    ASSUME ConstructInv, NEW p \in Process, pc[p] # "idle"
    PROVE  /\ IsMemory(me[p]) /\ me[p].rev \in Revision
           /\ SourceJob(me[p].rev) \in Jobs /\ ConstructJob(me[p].rev) \in Jobs /\ BuildJob(me[p].rev) \in Jobs
           /\ \A j \in Jobs : j \in DOMAIN job /\ j \in DOMAIN rows /\ DOMAIN job[j] = DOMAIN Absent /\ IsRow(rows[j])
  BY ConstructAt, ConstructConstants DEF IsMemory, ConstructInv, ConstructTables

LEMMA ConstructLooksUp ==
    ASSUME ConstructInv, NEW p \in Process, Construction!SourceLookUp(p)
    PROVE  ConstructInv'
<1>1. PICK m, x, r : m = me[p] /\ x = retained[p] /\ r = m.rev
  OBVIOUS
<1>2. /\ pc[p] = "source look up" /\ UNCHANGED <<me, retained>>
      /\ UNCHANGED rows /\ UNCHANGED job /\ UNCHANGED <<eligible, inputs, key, made, assembled>>
  BY DEF Construction!SourceLookUp, Construction!At, Construction!constructionVars
<1>3. IsMemory(m) /\ r \in Revision /\ (x # Nothing => x.job \in Jobs) /\ Construction!Lock \in m.holds
  BY <1>1, <1>2, ConstructAt DEF IsMemory, ConstructInv, Importing
<1>4. PICK label : /\ Construction!Goto(p, label)
                   /\ \/ label = "source enqueue" /\ Construction!Imports(r) = {}
                      \/ label = Construction!AfterSource(p) \/ label = "idle"
  <2> DEFINE prior == Construction!Imports(Construction!Rev(p))
             done == Construction!Cardinality(prior) = 1 /\ \A j \in prior : job[j].state = "completed"
  <2>1. Construction!Goto(p, IF prior = {} THEN "source enqueue"
                             ELSE IF done THEN Construction!AfterSource(p) ELSE "idle")
    BY DEF Construction!SourceLookUp
  <2> HIDE DEF prior, done
  <2>2. CASE prior = {}
    <3>1. Construction!Goto(p, "source enqueue")
      BY <2>1, <2>2
    <3>2. Construction!Imports(r) = {}
      BY <1>1, <2>2 DEF prior, Construction!Rev
    <3> QED BY <3>1, <3>2
  <2>3. CASE prior # {} /\ done
    <3>1. Construction!Goto(p, Construction!AfterSource(p))
      BY <2>1, <2>3
    <3> QED BY <3>1
  <2>4. CASE prior # {} /\ ~done
    <3>1. Construction!Goto(p, "idle")
      BY <2>1, <2>4
    <3> QED BY <3>1
  <2> QED BY <2>2, <2>3, <2>4
<1>5. Moved(p, label, m, x)
  BY <1>1, <1>2, <1>4, ConstructControl DEF Moved
<1>6. label = "source enqueue" => \A s \in Revision : s # r => job[SourceJob(s)].state = "absent"
  <2> SUFFICES ASSUME label = "source enqueue", NEW s \in Revision, s # r PROVE job[SourceJob(s)].state = "absent"
    OBVIOUS
  <2>1. Construction!Imports(r) = {}
    BY <1>4 DEF Construction!AfterSource
  <2>2. SourceJob(s) \in Jobs /\ SourceJob(s)[1] = "source" /\ SourceJob(s) # SourceJob(r)
    BY ConstructConstants, JobKinds
  <2> QED BY <2>1, <2>2 DEF Construction!Imports, SourceJob, Jobs
<1>7. label \in {"source enqueue", "construct enqueue", "idle"} /\ (label = "construct enqueue" => eligible)
  BY <1>4 DEF Construction!AfterSource
<1>8. ConstructGo(p, label, m, x)
  BY <1>1, <1>2, <1>3, <1>6, <1>7 DEF ConstructGo, Placed
<1>9. ConstructGone(label, m)
  BY <1>2, <1>7 DEF ConstructGone
<1>10. JobAllowed(p) /\ RowsAllowed(p) /\ CountsAllowed(p)
  BY <1>2, JobsSame, RowsSame, CountsStep
<1> QED BY <1>5, <1>8, <1>9, <1>10, ConstructGoes

\* p asks the registry to take the job j on, and goes on at ok.
LEMMA ConstructAsks ==
    ASSUME ConstructInv, NEW p \in Process, pc[p] # "idle", NEW j \in Jobs, Rejob(j), JobGoes(p, j),
           NEW ok, NEW label \in {ok, "idle"}, Goto(p, label),
           label = "source intent" => job'[SourceJob(me[p].rev)].state # "absent",
           ok \notin Guarded, ok \notin {"source enqueue", "build finish"},
           UNCHANGED <<rows, me, retained, eligible, inputs, made, assembled>>,
           UNCHANGED key \/ (\E i, k : key' = [key EXCEPT ![i] = k])
    PROVE  ConstructInv'
<1>1. PICK m, x : m = me[p] /\ x = retained[p]
  OBVIOUS
<1>2. Moved(p, label, m, x)
  BY <1>1 DEF Moved
<1>3. IsMemory(m) /\ (x # Nothing => x.job \in Jobs)
  BY <1>1, ConstructAt
<1>4. label \notin Guarded
  BY DEF Guarded, Placed
<1>5. ConstructGo(p, label, m, x)
  BY <1>1, <1>3, <1>4, GoesOn
<1>6. ConstructGone(label, m)
  BY <1>1 DEF ConstructGone
<1>7. JobAllowed(p)
  BY JobStep
<1>8. UNCHANGED rows /\ UNCHANGED made /\ UNCHANGED assembled
  OBVIOUS
<1>9. RowsAllowed(p) /\ CountsAllowed(p)
  BY <1>8, RowsSame, CountsStep
<1> QED BY <1>2, <1>5, <1>6, <1>7, <1>9, ConstructGoes

LEMMA ConstructQueues ==
    ASSUME ConstructInv, NEW p \in Process,
           Construction!SourceEnqueue(p) \/ Construction!ConstructEnqueue(p)
    PROVE  ConstructInv'
<1>1. UNCHANGED <<rows, me, retained, eligible, inputs, made, assembled>> /\ UNCHANGED key
  BY DEF Construction!SourceEnqueue, Construction!ConstructEnqueue, Construction!constructionVars
<1>2. CASE Construction!SourceEnqueue(p)
  <2>1. pc[p] = "source enqueue"
    BY <1>2 DEF Construction!SourceEnqueue, Construction!At
  <2>2. PICK j : j = SourceJob(me[p].rev) /\ j \in Jobs /\ j \in DOMAIN job /\ DOMAIN job[j] = DOMAIN Absent
    BY <2>1, ConstructCall
  <2>3. Enqueued(p, j, "source claim")
    BY <1>2, <2>2, ConstructControl DEF Construction!SourceEnqueue, Construction!Rev, SourceJob
  <2>4. PICK label \in {"source claim", "idle"} : Goto(p, label)
    BY <2>2, <2>3, Enqueues
  <2>5. Rejob(j) /\ (job'[j] = job[j] \/ (job[j].state \in {"absent", "queued"} /\ job'[j].state = "queued"))
    BY <2>2, <2>3, Enqueues
  <2>6. j[1] = "source"
    BY <2>2, JobKinds
  <2>7. JobGoes(p, j)
    BY <2>1, <2>2, <2>5, <2>6 DEF JobGoes
  <2>8. "source claim" \notin Guarded
    BY DEF Guarded, Placed
  <2> QED BY <1>1, <2>1, <2>2, <2>4, <2>5, <2>7, <2>8, ConstructAsks
<1>3. CASE Construction!ConstructEnqueue(p)
  <2>1. pc[p] = "construct enqueue" /\ eligible
    BY <1>3 DEF Construction!ConstructEnqueue, Construction!At, ConstructInv, Building
  <2>2. PICK j : j = ConstructJob(me[p].rev) /\ j \in Jobs /\ j \in DOMAIN job /\ DOMAIN job[j] = DOMAIN Absent
    BY <2>1, ConstructCall
  <2>3. Enqueued(p, j, "construct claim")
    BY <1>3, <2>2, ConstructControl DEF Construction!ConstructEnqueue, Construction!Rev, ConstructJob
  <2>4. PICK label \in {"construct claim", "idle"} : Goto(p, label)
    BY <2>2, <2>3, Enqueues
  <2>5. Rejob(j) /\ (job'[j] = job[j] \/ (job[j].state \in {"absent", "queued"} /\ job'[j].state = "queued"))
    BY <2>2, <2>3, Enqueues
  <2>6. j[1] = "construct"
    BY <2>2, JobKinds
  <2>7. JobGoes(p, j)
    BY <2>1, <2>5, <2>6 DEF JobGoes
  <2>8. "construct claim" \notin Guarded
    BY DEF Guarded, Placed
  <2> QED BY <1>1, <2>1, <2>2, <2>4, <2>5, <2>7, <2>8, ConstructAsks
<1> QED BY <1>2, <1>3

LEMMA ConstructClaimsAt ==
    ASSUME ConstructInv, NEW p \in Process, pc[p] # "idle", NEW j \in Jobs, NEW ok \in {"source intent", "construct intent"},
           Construction!ClaimJob(p, j, ok), ok = "source intent" => j = SourceJob(me[p].rev)
    PROVE  ConstructInv'
<1>1. j \in DOMAIN job /\ DOMAIN job[j] = DOMAIN Absent
  BY ConstructCall
<1>2. Claimed(p, j, ok) /\ UNCHANGED <<rows, me, retained, eligible, inputs, made, assembled>>
  BY ConstructControl DEF Construction!ClaimJob
<1>3. UNCHANGED key \/ (\E i, k : key' = [key EXCEPT ![i] = k])
  BY DEF Construction!ClaimJob
<1>4. PICK label \in {ok, "idle"} : Goto(p, label) /\ (label # "idle" => job'[j].state = "running")
  BY <1>1, <1>2, Claims
<1>5. Rejob(j) /\ (job'[j] = job[j] \/ (job[j].state = "queued" /\ job'[j].state = "running"))
  BY <1>1, <1>2, Claims
<1>6. JobGoes(p, j)
  BY <1>5 DEF JobGoes
<1>7. ok \notin Guarded /\ ok \notin {"source enqueue", "build finish"}
  BY DEF Guarded, Placed
<1>8. label = "source intent" => job'[SourceJob(me[p].rev)].state # "absent"
  BY <1>4
<1> QED BY <1>2, <1>3, <1>4, <1>5, <1>6, <1>7, <1>8, ConstructAsks

LEMMA ConstructClaims ==
    ASSUME ConstructInv, NEW p \in Process,
           Construction!SourceClaim(p) \/ Construction!ConstructClaim(p)
    PROVE  ConstructInv'
<1>1. pc[p] # "idle"
  BY DEF Construction!SourceClaim, Construction!ConstructClaim, Construction!At
<1>2. CASE Construction!SourceClaim(p)
  <2>1. Construction!ClaimJob(p, SourceJob(me[p].rev), "source intent")
    BY <1>2 DEF Construction!SourceClaim, Construction!Rev, SourceJob
  <2> QED BY <1>1, <2>1, ConstructCall, ConstructClaimsAt
<1>3. CASE Construction!ConstructClaim(p)
  <2>1. Construction!ClaimJob(p, ConstructJob(me[p].rev), "construct intent")
    BY <1>3 DEF Construction!ConstructClaim, Construction!Rev, ConstructJob
  <2> QED BY <1>1, <2>1, ConstructCall, ConstructClaimsAt
<1> QED BY <1>2, <1>3

LEMMA BuildEnqueues ==
    ASSUME ConstructInv, NEW p \in Process, Construction!BuildEnqueue(p)
    PROVE  ConstructInv'
<1>1. pc[p] = "build enqueue"
  BY DEF Construction!BuildEnqueue, Construction!At
<1>2. PICK j : j = BuildJob(me[p].rev) /\ j \in Jobs /\ j \in DOMAIN job /\ DOMAIN job[j] = DOMAIN Absent
  BY <1>1, ConstructCall
<1>3. UNCHANGED <<rows, me, retained, eligible, inputs, made, assembled>> /\ UNCHANGED key
  BY DEF Construction!BuildEnqueue, Construction!constructionVars
<1>4. PICK ok \in {"build claim", "idle", "take", "build claim again"} :
         Construction!Enqueued(p, j, "build claim") \/ (Construction!Goto(p, ok) /\ UNCHANGED job)
  <2>1. CASE job[j].state \in {"absent", "queued"}
    BY <1>2, <2>1 DEF Construction!BuildEnqueue, Construction!Rev, BuildJob
  <2>2. CASE job[j].state \notin {"absent", "queued"}
    <3>1. /\ Construction!Goto(p, IF job[j].state = "completed" THEN Construction!Answered(p) ELSE "build claim again")
          /\ UNCHANGED job
      BY <1>2, <2>2 DEF Construction!BuildEnqueue, Construction!Rev, BuildJob
    <3>2. Construction!Answered(p) \in {"idle", "take"}
      BY DEF Construction!Answered
    <3> QED BY <3>1, <3>2
  <2> QED BY <2>1, <2>2
<1>5. CASE Construction!Enqueued(p, j, "build claim")
  <2>1. Enqueued(p, j, "build claim")
    BY <1>5, ConstructControl
  <2>2. PICK label \in {"build claim", "idle"} : Goto(p, label)
    BY <1>2, <2>1, Enqueues
  <2>3. Rejob(j) /\ (job'[j] = job[j] \/ (job[j].state \in {"absent", "queued"} /\ job'[j].state = "queued"))
    BY <1>2, <2>1, Enqueues
  <2>4. JobGoes(p, j)
    BY <1>2, <2>3, JobKinds DEF JobGoes
  <2>5. "build claim" \notin Guarded
    BY DEF Guarded, Placed
  <2> QED BY <1>1, <1>2, <1>3, <2>2, <2>3, <2>4, <2>5, ConstructAsks
<1>6. CASE Construction!Goto(p, ok) /\ UNCHANGED job
  <2>1. Goto(p, ok)
    BY <1>6, ConstructControl
  <2>2. Rejob(j) /\ JobGoes(p, j)
    BY <1>2, <1>6 DEF Rejob, JobGoes
  <2>3. ok \notin Guarded /\ ok \notin {"source enqueue", "build finish", "source intent"}
    BY <1>4 DEF Guarded, Placed
  <2> QED BY <1>1, <1>2, <1>3, <2>1, <2>2, <2>3, ConstructAsks
<1> QED BY <1>4, <1>5, <1>6

LEMMA BuildClaims ==
    ASSUME ConstructInv, NEW p \in Process, Construction!BuildClaim(p) \/ Construction!BuildClaimAgain(p)
    PROVE  ConstructInv'
<1>1. pc[p] # "idle"
  BY DEF Construction!BuildClaim, Construction!BuildClaimAgain, Construction!At
<1>2. PICK j : j = BuildJob(me[p].rev) /\ j \in Jobs /\ j \in DOMAIN job /\ DOMAIN job[j] = DOMAIN Absent
  BY <1>1, ConstructCall
<1>3. UNCHANGED <<rows, me, retained, eligible, inputs, made, assembled>>
  BY DEF Construction!BuildClaim, Construction!BuildClaimAgain, Construction!constructionVars
<1>4. UNCHANGED key \/ (\E i, k : key' = [key EXCEPT ![i] = k])
  BY DEF Construction!BuildClaim, Construction!BuildClaimAgain, Construction!Call, Construction!constructionVars
<1>5. PICK ok \in {"build intent", "build recover", "idle"} : Construction!Goto(p, ok)
  <2>1. CASE Construction!BuildClaim(p)
    <3>1. CASE job[j].state = "queued"
      BY <1>2, <2>1, <3>1 DEF Construction!BuildClaim, Construction!Call, Construction!Rev, BuildJob
    <3>2. CASE job[j].state # "queued"
      <4>1. Construction!Goto(p, IF key[j] = me[p].builder THEN "build intent" ELSE "idle")
        BY <1>2, <2>1, <3>2 DEF Construction!BuildClaim, Construction!Rev, BuildJob
      <4> QED BY <4>1
    <3> QED BY <3>1, <3>2
  <2>2. CASE Construction!BuildClaimAgain(p)
    <3>1. Construction!Goto(p, IF key[Construction!BuildJob(Construction!Rev(p))] = me[p].builder
                               THEN "build recover" ELSE "idle")
      BY <2>2 DEF Construction!BuildClaimAgain
    <3> QED BY <3>1
  <2> QED BY <2>1, <2>2
<1>6. UNCHANGED job \/ (job[j].state = "queued" /\ job' = [job EXCEPT ![j].state = "running"])
  BY <1>2 DEF Construction!BuildClaim, Construction!BuildClaimAgain, Construction!Call, Construction!Rev, BuildJob
<1>7. Rejob(j) /\ (job'[j] = job[j] \/ (job[j].state = "queued" /\ job'[j].state = "running"))
  BY <1>2, <1>6 DEF Rejob, Absent
<1>8. JobGoes(p, j)
  BY <1>7 DEF JobGoes
<1>9. Goto(p, ok)
  BY <1>5, ConstructControl
<1>10. ok \notin Guarded /\ ok \notin {"source enqueue", "build finish", "source intent"}
  BY <1>5 DEF Guarded, Placed
<1> QED BY <1>1, <1>2, <1>3, <1>4, <1>7, <1>8, <1>9, <1>10, ConstructAsks

\* A frozen outcome of a build is in its second revision.
LEMMA FrozenSecond ==
    ASSUME ConstructInv, NEW r \in Revision, NEW o \in Construction!FrozenOf(Construction!BuildJob(r))
    PROVE  Len(rows[BuildJob(r)]) = 2 /\ o \in rows[BuildJob(r)][2]
<1>1. PICK s : s = rows[BuildJob(r)]
  OBVIOUS
<1>2. IsRow(s) /\ Len(s) <= 2
  BY <1>1, ConstructConstants DEF ConstructInv, ConstructTables
<1>3. o[1] = "outcome" /\ s # <<>> /\ o \in s[Len(s)]
  BY <1>1 DEF Construction!FrozenOf, Construction!Newest, BuildJob
<1>4. Len(s) \in {1, 2}
  <2>1. PICK k : k = Len(s)
    OBVIOUS
  <2>2. k \in Nat /\ k # 0
    BY <1>2, <1>3, <2>1, RowLength
  <2>3. k <= 2
    BY <1>2, <2>1
  <2>4. k \in {1, 2}
    BY <2>2, <2>3
  <2> QED BY <2>1, <2>4
<1>5. Len(s) # 1
  <2> SUFFICES ASSUME Len(s) = 1 PROVE FALSE
    OBVIOUS
  <2>1. PICK n : s[1] = {Construction!Intent(n)}
    BY <1>1, <1>3 DEF ConstructInv, Assembling, Announced
  <2> QED BY <1>3, <2>1, ConstructConstants
<1> QED BY <1>1, <1>3, <1>4, <1>5

LEMMA BuildRecovers ==
    ASSUME ConstructInv, NEW p \in Process, Construction!BuildRecover(p)
    PROVE  ConstructInv'
<1>1. pc[p] = "build recover" /\ UNCHANGED rows /\ UNCHANGED job /\ UNCHANGED retained
      /\ UNCHANGED <<eligible, inputs, key, made, assembled>>
  BY DEF Construction!BuildRecover, Construction!At, Construction!constructionVars
<1>2. PICK r, x : r = me[p].rev /\ x = retained[p]
  OBVIOUS
<1>3. IsMemory(me[p]) /\ r \in Revision /\ (x # Nothing => x.job \in Jobs)
  BY <1>1, <1>2, ConstructAt DEF IsMemory
<1>4. JobAllowed(p) /\ RowsAllowed(p) /\ CountsAllowed(p)
  BY <1>1, JobsSame, RowsSame, CountsStep
<1>5. CASE UNCHANGED me /\ Construction!Goto(p, IF job[BuildJob(r)].state = "completed"
                                               THEN Construction!Answered(p) ELSE "idle")
  <2>1. PICK label \in {"take", "idle"} : Construction!Goto(p, label)
    BY <1>5 DEF Construction!Answered
  <2>2. PICK m : m = me[p]
    OBVIOUS
  <2>3. Moved(p, label, m, x)
    BY <1>1, <1>2, <1>5, <2>1, <2>2, ConstructControl DEF Moved
  <2>4. label \notin Guarded /\ label \notin Reached
    BY <2>1 DEF Guarded, Placed, Reached
  <2>5. IsMemory(m) /\ m.holds = me[p].holds /\ pc[p] # "idle"
    BY <1>1, <1>3, <2>2
  <2> QED BY <1>1, <1>3, <1>4, <2>3, <2>4, <2>5, ConstructEnds
<1>6. ASSUME NEW o \in Construction!FrozenOf(Construction!BuildJob(r)),
             Construction!Goto(p, "build finish"), me' = [me EXCEPT ![p].receipt = o]
      PROVE  ConstructInv'
  <2>1. PICK m : m = [me[p] EXCEPT !.receipt = o]
    OBVIOUS
  <2>2. IsMemory(m) /\ m.holds = me[p].holds /\ m.rev = r /\ m.receipt = o
    BY <1>2, <1>3, <2>1 DEF IsMemory, Memory
  <2>3. Moved(p, "build finish", m, x)
    BY <1>1, <1>2, <1>6, <2>1, ConstructControl DEF Moved
  <2>4. Len(rows[BuildJob(r)]) = 2 /\ o \in rows[BuildJob(r)][2]
    BY <1>3, FrozenSecond
  <2>5. ConstructGone("build finish", m)
    BY <1>1, <2>2, <2>4 DEF ConstructGone
  <2>6. "build finish" \notin Guarded
    BY DEF Guarded, Placed
  <2>7. ConstructGo(p, "build finish", m, x)
    BY <1>1, <1>3, <2>2, <2>6, GoesOn
  <2> QED BY <1>4, <2>3, <2>5, <2>7, ConstructGoes
<1>7. CASE job[BuildJob(r)].state = "completed" \/ Construction!FrozenOf(Construction!BuildJob(r)) = {}
  BY <1>2, <1>5, <1>7 DEF Construction!BuildRecover, Construction!Rev, BuildJob
<1>8. CASE ~(job[BuildJob(r)].state = "completed" \/ Construction!FrozenOf(Construction!BuildJob(r)) = {})
  BY <1>2, <1>6, <1>8 DEF Construction!BuildRecover, Construction!Rev, BuildJob
<1> QED BY <1>7, <1>8

LEMMA ReceiptPut ==
    ASSUME ConstructInv, NEW p \in Process, pc[p] # "idle", NEW o, me' = [me EXCEPT ![p].receipt = o],
           NEW label, Construction!Goto(p, label), UNCHANGED retained
    PROVE  \E m : Moved(p, label, m, retained[p]) /\ IsMemory(m) /\ m.holds = me[p].holds
<1>1. PICK m : m = [me[p] EXCEPT !.receipt = o]
  OBVIOUS
<1>2. IsMemory(me[p])
  BY ConstructAt
<1>3. IsMemory(m) /\ m.holds = me[p].holds
  BY <1>1, <1>2 DEF IsMemory, Memory
<1>4. Moved(p, label, m, retained[p])
  BY <1>1, ConstructControl DEF Moved
<1> QED BY <1>3, <1>4

LEMMA ConstructMakes ==
    ASSUME ConstructInv, NEW p \in Process, pc[p] # "idle", NEW j \in Jobs, NEW value,
           NEW next \in {"source publish", "construct publish"}, Construction!Make(p, j, value, next)
    PROVE  ConstructInv'
<1>1. PICK o : me' = [me EXCEPT ![p].receipt = o]
  BY DEF Construction!Make
<1>2. /\ Construction!Goto(p, next) /\ UNCHANGED rows /\ UNCHANGED job /\ UNCHANGED retained
      /\ UNCHANGED <<eligible, inputs>> /\ UNCHANGED key /\ UNCHANGED assembled
      /\ made' = [made EXCEPT ![j] = @ + 1]
  BY DEF Construction!Make
<1>3. PICK m, x : /\ x = retained[p]
                  /\ Moved(p, next, m, x) /\ IsMemory(m) /\ m.holds = me[p].holds
  BY <1>1, <1>2, ReceiptPut
<1>4. JobAllowed(p) /\ RowsAllowed(p)
  BY <1>2, JobsSame, RowsSame
<1>5. CountsAllowed(p)
  BY <1>2, CountsStep
<1>6. next \notin Guarded /\ next \notin Reached
  BY DEF Guarded, Placed, Reached
<1>7. x # Nothing => x.job \in Jobs
  BY <1>3, ConstructAt
<1> QED BY <1>2, <1>3, <1>4, <1>5, <1>6, <1>7, ConstructEnds

LEMMA ConstructDecides ==
    ASSUME ConstructInv, NEW p \in Process, Construction!SourceDecide(p) \/ Construction!Take(p)
    PROVE  ConstructInv'
<1>1. pc[p] # "idle"
  BY DEF Construction!SourceDecide, Construction!Take, Construction!At
<1>2. CASE Construction!SourceDecide(p)
  <2>1. Construction!Make(p, SourceJob(me[p].rev), Construction!Receipt("decision", 0), "source publish")
    BY <1>2 DEF Construction!SourceDecide, Construction!Rev, SourceJob
  <2> QED BY <1>1, <2>1, ConstructCall, ConstructMakes
<1>3. CASE Construction!Take(p)
  <2>1. Construction!Make(p, ConstructJob(me[p].rev), job[BuildJob(me[p].rev)].result, "construct publish")
    BY <1>3 DEF Construction!Take, Construction!Rev, ConstructJob, BuildJob
  <2> QED BY <1>1, <2>1, ConstructCall, ConstructMakes
<1> QED BY <1>2, <1>3

LEMMA ConstructExecutes ==
    ASSUME ConstructInv, NEW p \in Process, Construction!Execute(p)
    PROVE  ConstructInv'
<1>1. pc[p] = "execute"
  BY DEF Construction!Execute, Construction!At
<1>2. CASE Construction!Blocked \/ Construction!Foreign
  <2>1. Construction!Make(p, ConstructJob(me[p].rev), Construction!Receipt("refusal", 0), "construct publish")
    BY <1>2 DEF Construction!Execute, Construction!Rev, ConstructJob
  <2> QED BY <1>1, <2>1, ConstructCall, ConstructMakes
<1>3. CASE ~(Construction!Blocked \/ Construction!Foreign)
  <2>1. /\ Construction!Goto(p, CASE job[BuildJob(me[p].rev)].state = "completed" -> "take"
                                  [] job[BuildJob(me[p].rev)].state = "running" -> "build recover"
                                  [] OTHER -> "build enqueue")
        /\ me' = [me EXCEPT ![p].builder = "construct"]
        /\ UNCHANGED <<rows, faults, job, retained, calls, Construction!constructionVars>>
    BY <1>3 DEF Construction!Execute, Construction!Rev, BuildJob
  <2>2. PICK label \in {"take", "build recover", "build enqueue"} : Construction!Goto(p, label)
    BY <2>1
  <2>3. PICK m, x : m = [me[p] EXCEPT !.builder = "construct"] /\ x = retained[p]
    OBVIOUS
  <2>4. Moved(p, label, m, x)
    BY <2>1, <2>2, <2>3, ConstructControl DEF Moved
  <2>5. IsMemory(me[p]) /\ (x # Nothing => x.job \in Jobs)
    BY <1>1, <2>3, ConstructAt
  <2>6. IsMemory(m) /\ m.holds = me[p].holds
    BY <2>3, <2>5 DEF IsMemory, Memory
  <2>7. UNCHANGED rows /\ UNCHANGED job /\ UNCHANGED <<eligible, inputs, key, made, assembled>>
    BY <2>1 DEF Construction!constructionVars
  <2>8. JobAllowed(p) /\ RowsAllowed(p) /\ CountsAllowed(p)
    BY <2>7, JobsSame, RowsSame, CountsStep
  <2>9. label \notin Guarded /\ label \notin Reached /\ pc[p] # "idle"
    BY <1>1, <2>2 DEF Guarded, Placed, Reached
  <2> QED BY <2>4, <2>5, <2>6, <2>7, <2>8, <2>9, ConstructEnds
<1> QED BY <1>2, <1>3

LEMMA ConstructAssembles ==
    ASSUME ConstructInv, NEW p \in Process, Construction!Assemble(p)
    PROVE  ConstructInv'
<1>1. pc[p] = "assemble"
  BY DEF Construction!Assemble, Construction!At
<1>2. PICK j \in Jobs : j = BuildJob(me[p].rev)
  BY <1>1, ConstructCall
<1>3. PICK o : me' = [me EXCEPT ![p].receipt = o]
  BY DEF Construction!Assemble
<1>4. /\ Construction!Goto(p, "build publish") /\ UNCHANGED rows /\ UNCHANGED job /\ UNCHANGED retained
      /\ UNCHANGED <<eligible, inputs>> /\ UNCHANGED key
      /\ made' = [made EXCEPT ![j] = @ + 1]
      /\ assembled' = [assembled EXCEPT ![me[p].rev] = @ + 1]
  BY <1>2 DEF Construction!Assemble, Construction!Rev, BuildJob
<1>5. PICK m, x : /\ x = retained[p]
                  /\ Moved(p, "build publish", m, x) /\ IsMemory(m) /\ m.holds = me[p].holds
  BY <1>1, <1>3, <1>4, ReceiptPut
<1>6. JobAllowed(p) /\ RowsAllowed(p)
  BY <1>4, JobsSame, RowsSame
<1>7. CountsAllowed(p)
  BY <1>1, <1>4, CountsStep
<1>8. "build publish" \notin Guarded /\ "build publish" \notin Reached /\ pc[p] # "idle"
  BY <1>1 DEF Guarded, Placed, Reached
<1>9. x # Nothing => x.job \in Jobs
  BY <1>5, ConstructAt
<1> QED BY <1>4, <1>5, <1>6, <1>7, <1>8, <1>9, ConstructEnds

LEMMA BuildDraws ==
    ASSUME ConstructInv, NEW p \in Process, Construction!BuildDraw(p)
    PROVE  ConstructInv'
<1>1. pc[p] = "build intent"
  BY DEF Construction!BuildDraw, Construction!At
<1>2. PICK j \in Jobs : j = BuildJob(me[p].rev)
  BY <1>1, ConstructCall
<1>3. /\ Construction!Goto(p, "build observe") /\ me' = [me EXCEPT ![p].nonce = made[j] + 1]
      /\ UNCHANGED rows /\ UNCHANGED job /\ UNCHANGED retained
      /\ UNCHANGED <<eligible, inputs>> /\ UNCHANGED key /\ UNCHANGED assembled
      /\ made' = [made EXCEPT ![j] = @ + 1]
  BY <1>2 DEF Construction!BuildDraw, Construction!Nonce, Construction!Rev, BuildJob
<1>4. JobAllowed(p) /\ RowsAllowed(p)
  BY <1>3, JobsSame, RowsSame
<1>5. CountsAllowed(p)
  BY <1>3, CountsStep
<1>6. PICK m, x : m = [me[p] EXCEPT !.nonce = made[j] + 1] /\ x = retained[p]
  OBVIOUS
<1>7. IsMemory(me[p]) /\ (x # Nothing => x.job \in Jobs)
  BY <1>1, <1>6, ConstructAt
<1>8. IsMemory(m) /\ m.holds = me[p].holds /\ m.rev = me[p].rev /\ m.nonce = made[j] + 1
  BY <1>6, <1>7 DEF IsMemory, Memory
<1>9. Moved(p, "build observe", m, x)
  BY <1>3, <1>6, ConstructControl DEF Moved
<1>10. Apart(p) /\ pc'[p] = "build observe" /\ me'[p] = m /\ retained'[p] = x
  BY <1>9, MovedThere DEF ConstructInv, ConstructTables
<1>11. made'[j] = made[j] + 1
  BY <1>3 DEF ConstructInv, ConstructTables
<1>12. PlaceAllowed(p)
  BY <1>1, <1>2, <1>3, <1>7, <1>8, <1>10, <1>11 DEF PlaceAllowed, IsMemory
<1> QED BY <1>4, <1>5, <1>10, <1>12, ConstructStep DEF ConstructAllowed

LEMMA ConstructCrashes ==
    ASSUME ConstructInv, NEW p \in Process, Construction!Crash(p), UNCHANGED Construction!constructionVars
    PROVE  ConstructInv'
<1>1. UNCHANGED rows /\ UNCHANGED job /\ UNCHANGED <<eligible, inputs, key, made, assembled>>
  BY DEF Construction!Crash, Construction!constructionVars
<1>2. Moved(p, "idle", me[p], Nothing)
  BY ConstructControl DEF Moved, Construction!Crash
<1>3. ConstructGo(p, "idle", me[p], Nothing)
  BY DEF ConstructGo, Placed
<1>4. ConstructGone("idle", me[p])
  BY <1>1 DEF ConstructGone
<1>5. JobAllowed(p) /\ RowsAllowed(p) /\ CountsAllowed(p)
  BY <1>1, JobsSame, RowsSame, CountsStep
<1> QED BY <1>2, <1>3, <1>4, <1>5, ConstructGoes

\* What p may put on record.
RowGoes(p, j, n, receipts) ==
    /\ j[1] = "source" /\ n = 1 => job[j].state # "absent"
    /\ j[1] = "build" /\ n = 1 =>
          /\ pc[p] = "build observe" /\ j = BuildJob(me[p].rev)
          /\ receipts = {Construction!Intent(me[p].nonce)}

LEMMA RowsStep ==
    ASSUME ConstructInv, NEW p \in Process, NEW j \in Jobs, NEW n \in {1, 2}, NEW receipts, Rerow(j),
           rows'[j] = rows[j] \/ (n = Len(rows[j]) + 1 /\ rows'[j] = Append(rows[j], receipts)),
           RowGoes(p, j, n, receipts)
    PROVE  RowsAllowed(p)
<1>1. DOMAIN rows' = Jobs /\ \A k \in Jobs \ {j} : rows'[k] = rows[k]
  BY DEF Rerow, ConstructInv, ConstructTables
<1>2. PICK s, t : s = rows[j] /\ t = rows'[j]
  OBVIOUS
<1>3. IsRow(s) /\ Len(s) <= 2
  BY <1>2 DEF ConstructInv, ConstructTables
<1>4. CASE t = s
  <2>1. rows'[j] = rows[j]
    BY <1>2, <1>4
  <2>2. \A k \in Jobs : rows'[k] = rows[k]
    BY <1>1, <2>1
  <2>3. \A k \in Jobs : IsRow(rows'[k]) /\ Len(rows'[k]) <= 2
    BY <2>2 DEF ConstructInv, ConstructTables
  <2>4. \A r \in Revision : rows'[SourceJob(r)] # <<>> => job[SourceJob(r)].state # "absent"
    BY <2>2, ConstructConstants DEF ConstructInv, Importing
  <2> QED BY <1>1, <2>2, <2>3, <2>4, ConstructConstants DEF RowsAllowed
<1>5. CASE t # s
  <2>1. n = Len(s) + 1 /\ t = Append(s, receipts)
    BY <1>2, <1>5
  <2>2. PICK k : k = Len(s)
    OBVIOUS
  <2>3. k \in Nat /\ Len(t) = k + 1 /\ t[k + 1] = receipts /\ IsRow(t) /\ \A i \in 1..k : t[i] = s[i]
    BY <1>3, <2>1, <2>2, AppendRow
  <2>4. k \in {0, 1} /\ Len(t) <= 2 /\ (k = 0 <=> n = 1)
    BY <2>1, <2>2, <2>3
  <2>5. s = <<>> <=> k = 0
    BY <1>3, <2>2, RowLength
  <2>6. t # <<>> /\ (k = 0 => t[1] = receipts) /\ (k = 1 => t[1] = s[1])
    <3>1. Len(t) # 0
      BY <2>3
    <3>2. t # <<>>
      BY <2>3, <3>1, RowLength
    <3> QED BY <2>3, <3>2
  <2>7. \A i \in Jobs : IsRow(rows'[i]) /\ Len(rows'[i]) <= 2
    BY <1>1, <1>2, <2>3, <2>4 DEF ConstructInv, ConstructTables
  <2>8. ASSUME NEW r \in Revision, rows'[SourceJob(r)] # <<>>
        PROVE  job[SourceJob(r)].state # "absent"
    <3>1. SourceJob(r) \in Jobs /\ SourceJob(r)[1] = "source"
      BY ConstructConstants, JobKinds
    <3>2. rows[SourceJob(r)] # <<>> => job[SourceJob(r)].state # "absent"
      BY DEF ConstructInv, Importing
    <3>3. CASE SourceJob(r) # j
      BY <1>1, <2>8, <3>1, <3>2, <3>3
    <3>4. CASE SourceJob(r) = j
      BY <1>2, <2>4, <2>5, <3>1, <3>2, <3>4 DEF RowGoes
    <3> QED BY <3>3, <3>4
  <2>9. ASSUME NEW r \in Revision
        PROVE  /\ Len(rows[BuildJob(r)]) = 2 => rows'[BuildJob(r)] = rows[BuildJob(r)]
               /\ rows[BuildJob(r)] # <<>> =>
                     rows'[BuildJob(r)] # <<>> /\ rows'[BuildJob(r)][1] = rows[BuildJob(r)][1]
               /\ rows[BuildJob(r)] = <<>> /\ rows'[BuildJob(r)] # <<>> =>
                     /\ pc[p] = "build observe" /\ r = me[p].rev
                     /\ rows'[BuildJob(r)][1] = {Construction!Intent(me[p].nonce)}
    <3>1. BuildJob(r) \in Jobs /\ BuildJob(r)[1] = "build" /\ (BuildJob(r) = BuildJob(me[p].rev) => r = me[p].rev)
      BY ConstructConstants, JobKinds
    <3>2. CASE BuildJob(r) # j
      BY <1>1, <3>1, <3>2
    <3>3. CASE BuildJob(r) = j
      <4>1. Len(s) # 2
        BY <2>2, <2>4
      <4>2. s # <<>> => t[1] = s[1]
        BY <2>4, <2>5, <2>6
      <4>3. s = <<>> => /\ pc[p] = "build observe" /\ j = BuildJob(me[p].rev)
                        /\ receipts = {Construction!Intent(me[p].nonce)} /\ t[1] = receipts
        BY <2>4, <2>5, <2>6, <3>1, <3>3 DEF RowGoes
      <4> QED BY <1>2, <2>6, <3>1, <3>3, <4>1, <4>2, <4>3
    <3> QED BY <3>2, <3>3
  <2> QED BY <1>1, <2>7, <2>8, <2>9 DEF RowsAllowed
<1> QED BY <1>4, <1>5

\* What an observe of p does, and where it leaves p.
LEMMA ConstructObserves ==
    ASSUME ConstructInv, NEW p \in Process, NEW j \in Jobs, NEW n \in {1, 2}, NEW receipts, NEW ok,
           Construction!Observe(p, j, n, receipts, ok, "idle"), RowGoes(p, j, n, receipts)
    PROVE  /\ RowsAllowed(p)
           /\ Construction!Goto(p, "idle")
              \/ (Construction!Goto(p, ok) /\ rows'[j] # <<>> /\ rows'[j][n] = receipts /\ (n = 2 => Len(rows'[j]) = 2))
<1>1. Observe(p, j, n, receipts, ok, "idle")
  BY ConstructControl
<1>2. j \in DOMAIN rows /\ IsRow(rows[j])
  BY DEF ConstructInv, ConstructTables
<1>3. /\ Rerow(j)
      /\ rows'[j] = rows[j] \/ (n = Len(rows[j]) + 1 /\ rows'[j] = Append(rows[j], receipts))
      /\ Goto(p, "idle") \/ (Goto(p, ok) /\ n <= Len(rows'[j]) /\ rows'[j][n] = receipts)
  <2>1. /\ Rerow(j)
        /\ \/ rows'[j] = rows[j]
           \/ /\ n = Len(rows[j]) + 1 /\ rows'[j] = Append(rows[j], receipts)
              /\ n = 2 => rows[j][1] \subseteq receipts
        /\ Goto(p, "idle") \/ (Goto(p, ok) /\ n <= Len(rows'[j]) /\ rows'[j][n] = receipts)
    <3>1. CASE n = 1
      BY <1>1, <1>2, <3>1, Observations
    <3>2. CASE n = 2
      BY <1>1, <1>2, <3>2, Observations
    <3> QED BY <3>1, <3>2
  <2> QED BY <2>1
<1>4. RowsAllowed(p)
  BY <1>3, RowsStep
<1>5. ASSUME n <= Len(rows'[j])
      PROVE  rows'[j] # <<>> /\ (n = 2 => Len(rows'[j]) = 2)
  <2>1. PICK t : t = rows'[j]
    OBVIOUS
  <2>2. IsRow(t) /\ Len(t) <= 2
    BY <1>4, <2>1 DEF RowsAllowed
  <2>3. PICK k : k = Len(t)
    OBVIOUS
  <2>4. k \in Nat /\ n <= k /\ k <= 2 /\ (t = <<>> <=> k = 0)
    BY <1>5, <2>1, <2>2, <2>3, RowLength
  <2>5. k # 0 /\ (n = 2 => k = 2)
    BY <2>4
  <2> QED BY <2>1, <2>3, <2>4, <2>5
<1>6. Construction!Goto(p, "idle") <=> Goto(p, "idle")
  BY DEF Construction!Goto, Goto
<1>7. Construction!Goto(p, ok) <=> Goto(p, ok)
  BY DEF Construction!Goto, Goto
<1> QED BY <1>3, <1>4, <1>5, <1>6, <1>7

LEMMA ConstructIntends ==
    ASSUME ConstructInv, NEW p \in Process, Construction!SourceIntent(p) \/ Construction!ConstructIntent(p)
    PROVE  ConstructInv'
<1>1. pc[p] # "idle" /\ (Construction!SourceIntent(p) => pc[p] = "source intent")
  BY DEF Construction!SourceIntent, Construction!ConstructIntent, Construction!At
<1>2. ASSUME NEW j \in Jobs, NEW ok \in {"source decide", "execute"}, Construction!ObserveIntent(p, j, ok),
             j[1] # "build", j[1] = "source" => job[j].state # "absent"
      PROVE  ConstructInv'
  <2>1. RowGoes(p, j, 1, {Construction!Intent(0)})
    BY <1>2 DEF RowGoes
  <2>2. PICK m, x, a : m = me[p] /\ x = retained[p] /\ a = {Construction!Intent(0)}
    OBVIOUS
  <2>3. Construction!Observe(p, j, 1, a, ok, "idle")
    BY <1>2, <2>2 DEF Construction!ObserveIntent
  <2>4. RowsAllowed(p) /\ (Construction!Goto(p, "idle") \/ Construction!Goto(p, ok))
    BY <2>1, <2>2, <2>3, ConstructObserves
  <2>5. PICK label \in {"source decide", "execute", "idle"} : Construction!Goto(p, label)
    BY <2>4
  <2>6. UNCHANGED <<me, retained>> /\ UNCHANGED job /\ UNCHANGED <<eligible, inputs, key, made, assembled>>
    BY <1>2 DEF Construction!ObserveIntent, Construction!constructionVars
  <2>7. Moved(p, label, m, x)
    BY <2>2, <2>5, <2>6, ConstructControl DEF Moved
  <2>8. IsMemory(m) /\ (x # Nothing => x.job \in Jobs)
    BY <1>1, <2>2, ConstructAt
  <2>9. JobAllowed(p) /\ CountsAllowed(p)
    BY <2>6, JobsSame, CountsStep
  <2>10. label \notin Guarded /\ label \notin Reached
    BY <2>5 DEF Guarded, Placed, Reached
  <2> QED BY <1>1, <2>2, <2>4, <2>6, <2>7, <2>8, <2>9, <2>10, ConstructEnds
<1>3. CASE Construction!SourceIntent(p)
  <2>1. Construction!ObserveIntent(p, SourceJob(me[p].rev), "source decide")
    BY <1>3 DEF Construction!SourceIntent, Construction!Rev, SourceJob
  <2>2. SourceJob(me[p].rev) \in Jobs /\ SourceJob(me[p].rev)[1] = "source"
    BY <1>1, ConstructCall, JobKinds
  <2>3. job[SourceJob(me[p].rev)].state # "absent"
    BY <1>1, <1>3 DEF ConstructInv, Importing
  <2> QED BY <1>2, <2>1, <2>2, <2>3
<1>4. CASE Construction!ConstructIntent(p)
  <2>1. Construction!ObserveIntent(p, ConstructJob(me[p].rev), "execute")
    BY <1>4 DEF Construction!ConstructIntent, Construction!Rev, ConstructJob
  <2>2. ConstructJob(me[p].rev) \in Jobs /\ ConstructJob(me[p].rev)[1] = "construct"
    BY <1>1, ConstructCall, JobKinds
  <2> QED BY <1>2, <2>1, <2>2
<1> QED BY <1>3, <1>4

LEMMA SecondGoes ==
    ASSUME NEW p, NEW j, NEW receipts
    PROVE  RowGoes(p, j, 2, receipts)
  BY DEF RowGoes

\* A second revision is written, and a failed publication of it retained as y.
LEMMA ConstructPublishes ==
    ASSUME ConstructInv, NEW p \in Process, pc[p] # "idle", NEW j \in Jobs, NEW receipts, NEW y, y.job = j,
           NEW ok \in {"source finish", "construct finish", "build finish"},
           Construction!Observe(p, j, 2, receipts, ok, "idle"), Construction!Retains(p, y),
           UNCHANGED <<job, me, Construction!constructionVars>>,
           ok = "construct finish" /\ inputs = "match" => BuiltAs(me[p].rev, Construction!Value(me[p].receipt)),
           ok = "build finish" => j = BuildJob(me[p].rev) /\ me[p].receipt \in receipts
    PROVE  ConstructInv'
<1>1. RowGoes(p, j, 2, receipts)
  BY SecondGoes
<1>2. /\ RowsAllowed(p)
      /\ \/ Construction!Goto(p, "idle")
         \/ Construction!Goto(p, ok) /\ rows'[j] # <<>> /\ rows'[j][2] = receipts /\ Len(rows'[j]) = 2
  BY <1>1, ConstructObserves
<1>3. PICK label \in {ok, "idle"} :
         /\ Construction!Goto(p, label)
         /\ label # "idle" => rows'[j][2] = receipts /\ Len(rows'[j]) = 2
  BY <1>2
<1>4. PICK m, x : /\ m = me[p] /\ (x = y \/ x = retained[p])
                  /\ \/ UNCHANGED retained /\ x = retained[p]
                     \/ retained' = [retained EXCEPT ![p] = x]
  BY DEF Construction!Retains
<1>5. UNCHANGED me /\ UNCHANGED job /\ UNCHANGED <<eligible, inputs, key, made, assembled>>
  BY DEF Construction!constructionVars
<1>6. Moved(p, label, m, x)
  BY <1>3, <1>4, <1>5, ConstructControl DEF Moved
<1>7. IsMemory(m) /\ (x # Nothing => x.job \in Jobs)
  BY <1>4, ConstructAt
<1>8. JobAllowed(p) /\ CountsAllowed(p)
  BY <1>5, JobsSame, CountsStep
<1>9. ConstructGo(p, label, m, x)
  <2>1. label \notin {"source look up", "source enqueue", "construct enqueue"} /\ label \notin Placed
    BY <1>3 DEF Placed
  <2>2. label = "construct finish" /\ inputs = "match" => BuiltAs(m.rev, Construction!Value(m.receipt))
    BY <1>3, <1>4
  <2> QED BY <1>4, <1>7, <2>1, <2>2 DEF ConstructGo
<1>10. ConstructGone(label, m)
  <2>1. label \notin {"source enqueue", "source intent"}
    BY <1>3
  <2>2. label = "build finish" =>
           Len(rows'[BuildJob(m.rev)]) = 2 /\ m.receipt \in rows'[BuildJob(m.rev)][2]
    BY <1>3, <1>4
  <2> QED BY <1>5, <2>1, <2>2 DEF ConstructGone
<1> QED BY <1>2, <1>6, <1>8, <1>9, <1>10, ConstructGoes

LEMMA ConstructFreezes ==
    ASSUME ConstructInv, NEW p \in Process,
           Construction!SourcePublish(p) \/ Construction!ConstructPublish(p) \/ Construction!BuildPublish(p)
    PROVE  ConstructInv'
<1>1. pc[p] # "idle"
  BY DEF Construction!SourcePublish, Construction!ConstructPublish, Construction!BuildPublish, Construction!At
<1>2. PICK m, r : m = me[p] /\ r = m.rev
  OBVIOUS
<1>3. /\ r \in Revision /\ SourceJob(r) \in Jobs /\ ConstructJob(r) \in Jobs /\ BuildJob(r) \in Jobs
  BY <1>1, <1>2, ConstructCall
<1>4. ASSUME NEW j \in {SourceJob(r), ConstructJob(r)}, NEW ok \in {"source finish", "construct finish"},
             Construction!FreezeOutcome(p, j, Construction!Intent(0), ok),
             ok = "construct finish" /\ inputs = "match" => BuiltAs(r, Construction!Value(m.receipt))
      PROVE  ConstructInv'
  <2>1. PICK a, y : a = {Construction!Intent(0), m.receipt} /\ y = Construction!Pending(j, m.receipt)
    OBVIOUS
  <2>2. /\ Construction!Observe(p, j, 2, a, ok, "idle") /\ Construction!Retains(p, y)
        /\ UNCHANGED <<job, me, Construction!constructionVars>>
    BY <1>2, <1>4, <2>1 DEF Construction!FreezeOutcome
  <2>3. y.job = j /\ j \in Jobs
    BY <1>3, <2>1 DEF Construction!Pending
  <2> QED BY <1>1, <1>2, <1>4, <2>2, <2>3, ConstructPublishes
<1>5. CASE Construction!SourcePublish(p)
  <2>1. Construction!FreezeOutcome(p, SourceJob(r), Construction!Intent(0), "source finish")
    BY <1>2, <1>5 DEF Construction!SourcePublish, Construction!Rev, SourceJob
  <2> QED BY <1>4, <2>1
<1>6. CASE Construction!ConstructPublish(p)
  <2> DEFINE goes == /\ job[ConstructJob(r)].state # "completed"
                     /\ inputs = "match" => BuiltAs(r, Construction!Value(m.receipt))
  <2>1. CASE goes
    <3>1. Construction!FreezeOutcome(p, ConstructJob(r), Construction!Intent(0), "construct finish")
      BY <1>2, <1>6, <2>1 DEF Construction!ConstructPublish, Construction!Rev, ConstructJob, BuildJob, BuiltAs
    <3> QED BY <1>4, <2>1, <3>1
  <2>2. CASE ~goes
    <3>1. Construction!Ends(p) /\ UNCHANGED <<me, retained, Construction!constructionVars>>
      BY <1>2, <1>6, <2>2 DEF Construction!ConstructPublish, Construction!Rev, ConstructJob, BuildJob, BuiltAs
    <3>2. PICK x : x = retained[p]
      OBVIOUS
    <3>3. UNCHANGED rows /\ UNCHANGED job /\ UNCHANGED <<eligible, inputs, key, made, assembled>>
      BY <3>1 DEF Construction!Ends, Construction!constructionVars
    <3>4. Moved(p, "idle", m, x)
      BY <1>2, <3>1, <3>2, ConstructControl DEF Moved, Construction!Ends
    <3>5. IsMemory(m) /\ (x # Nothing => x.job \in Jobs)
      BY <1>1, <1>2, <3>2, ConstructAt
    <3>6. "idle" \notin Guarded /\ "idle" \notin Reached
      BY DEF Guarded, Placed, Reached
    <3>7. JobAllowed(p) /\ RowsAllowed(p) /\ CountsAllowed(p)
      BY <3>3, JobsSame, RowsSame, CountsStep
    <3> QED BY <1>1, <1>2, <3>3, <3>4, <3>5, <3>6, <3>7, ConstructEnds
  <2> QED BY <2>1, <2>2
<1>7. CASE Construction!BuildPublish(p)
  <2>1. PICK a, y : /\ a = {Construction!Intent(m.nonce), m.receipt}
                    /\ y = [job |-> BuildJob(r), receipt |-> m.receipt, nonce |-> m.nonce]
    OBVIOUS
  <2>2. /\ Construction!Observe(p, BuildJob(r), 2, a, "build finish", "idle") /\ Construction!Retains(p, y)
        /\ UNCHANGED <<job, me, Construction!constructionVars>>
    BY <1>2, <1>7, <2>1 DEF Construction!BuildPublish, Construction!Rev, BuildJob
  <2>3. y.job = BuildJob(r) /\ m.receipt \in a
    BY <2>1
  <2> QED BY <1>1, <1>2, <1>3, <2>2, <2>3, ConstructPublishes
<1> QED BY <1>5, <1>6, <1>7

LEMMA BuildObserves ==
    ASSUME ConstructInv, NEW p \in Process, Construction!BuildObserve(p)
    PROVE  ConstructInv'
<1>1. pc[p] = "build observe"
  BY DEF Construction!BuildObserve, Construction!At
<1>2. PICK m, x, j : m = me[p] /\ x = retained[p] /\ j = BuildJob(m.rev)
  OBVIOUS
<1>3. PICK a : a = {Construction!Intent(m.nonce)}
  OBVIOUS
<1>4. j \in Jobs /\ IsMemory(m) /\ (x # Nothing => x.job \in Jobs)
  BY <1>1, <1>2, ConstructCall, ConstructAt
<1>5. Construction!Observe(p, j, 1, a, "assemble", "idle")
  BY <1>2, <1>3 DEF Construction!BuildObserve, Construction!Rev, BuildJob
<1>6. UNCHANGED <<me, retained>> /\ UNCHANGED job /\ UNCHANGED <<eligible, inputs, key, made, assembled>>
  BY DEF Construction!BuildObserve, Construction!constructionVars
<1>7. RowGoes(p, j, 1, a)
  <2>1. j[1] # "source"
    BY <1>2, JobKinds
  <2> QED BY <1>1, <1>2, <1>3, <2>1 DEF RowGoes
<1>8. /\ RowsAllowed(p)
      /\ Construction!Goto(p, "idle") \/ (Construction!Goto(p, "assemble") /\ rows'[j] # <<>> /\ rows'[j][1] = a)
  BY <1>4, <1>5, <1>7, ConstructObserves
<1>9. JobAllowed(p) /\ CountsAllowed(p)
  BY <1>6, JobsSame, CountsStep
<1>10. CASE Construction!Goto(p, "idle")
  <2>1. Moved(p, "idle", m, x)
    BY <1>2, <1>6, <1>10, ConstructControl DEF Moved
  <2>2. "idle" \notin Guarded /\ "idle" \notin Reached /\ pc[p] # "idle"
    BY <1>1 DEF Guarded, Placed, Reached
  <2> QED BY <1>2, <1>4, <1>6, <1>8, <1>9, <2>1, <2>2, ConstructEnds
<1>11. CASE Construction!Goto(p, "assemble") /\ rows'[j] # <<>> /\ rows'[j][1] = a
  <2>1. Moved(p, "assemble", m, x)
    BY <1>2, <1>6, <1>11, ConstructControl DEF Moved
  <2>2. Apart(p) /\ pc'[p] = "assemble" /\ me'[p] = m /\ retained'[p] = x
    BY <2>1, MovedThere DEF ConstructInv, ConstructTables
  <2>3. PlaceAllowed(p)
    BY <1>1, <1>2, <1>3, <1>4, <1>6, <1>11, <2>2 DEF PlaceAllowed, IsMemory
  <2> QED BY <1>8, <1>9, <2>2, <2>3, ConstructStep DEF ConstructAllowed
<1> QED BY <1>8, <1>10, <1>11

LEMMA ConstructFinishes ==
    ASSUME ConstructInv, NEW p \in Process, Construction!SourceFinish(p) \/ Construction!ConstructFinish(p)
    PROVE  ConstructInv'
<1>1. pc[p] # "idle" /\ (Construction!ConstructFinish(p) => pc[p] = "construct finish")
  BY DEF Construction!SourceFinish, Construction!ConstructFinish, Construction!At
<1>2. PICK m, x, r : m = me[p] /\ x = retained[p] /\ r = m.rev
  OBVIOUS
<1>3. /\ IsMemory(m) /\ (x # Nothing => x.job \in Jobs)
      /\ r \in Revision /\ SourceJob(r) \in Jobs /\ ConstructJob(r) \in Jobs
  BY <1>1, <1>2, ConstructCall, ConstructAt
<1>4. ASSUME NEW j \in {SourceJob(r), ConstructJob(r)}, NEW ok, ok = "idle" \/ (ok = "construct enqueue" /\ eligible),
             Construction!FinishJob(p, j, ok),
             j = ConstructJob(r) /\ inputs = "match" => BuiltAs(r, Construction!Value(m.receipt))
      PROVE  ConstructInv'
  <2>1. j \in Jobs /\ j \in DOMAIN job /\ DOMAIN job[j] = DOMAIN Absent
    BY <1>3 DEF ConstructInv, ConstructTables
  <2>2. UNCHANGED rows /\ UNCHANGED me /\ UNCHANGED retained /\ UNCHANGED <<eligible, inputs, key, made, assembled>>
    BY <1>4 DEF Construction!FinishJob, Construction!constructionVars
  <2>3. /\ Construction!Goto(p, "idle") \/ Construction!Goto(p, ok)
        /\ Rejob(j)
        /\ \/ job'[j] = job[j]
           \/ /\ job[j].state = "running" /\ m.receipt \in Newest(j)
              /\ job'[j].state = "completed" /\ job'[j].result = m.receipt /\ job'[j].bound = Newest(j)
    <3>1. CASE job[j].state # "completed" /\ Construction!Completes(j, me[p].receipt)
      <4>1. Construction!Completed(p, j, j, 2, me[p].receipt, ok)
        BY <1>4, <3>1 DEF Construction!FinishJob
      <4>2. Completed(p, j, j, 2, me[p].receipt, ok)
        BY <4>1, ConstructControl
      <4>3. /\ Rejob(j)
            /\ \/ job'[j] = job[j]
               \/ /\ job[j].state = "running"
                  /\ job'[j].state = "completed" /\ job'[j].result = me[p].receipt /\ job'[j].bound = Newest(j)
        BY <2>1, <4>2, Completions
      <4>4. Construction!Goto(p, "idle") \/ Construction!Goto(p, ok)
        BY <4>1 DEF Construction!Completed, Construction!Call
      <4>5. me[p].receipt \in Newest(j)
        BY <3>1 DEF Construction!Completes, Construction!Newest, Newest
      <4> QED BY <1>2, <4>3, <4>4, <4>5
    <3>2. CASE ~(job[j].state # "completed" /\ Construction!Completes(j, me[p].receipt))
      <4>1. /\ Construction!Goto(p, IF job[j].state = "completed" THEN ok ELSE "idle")
            /\ UNCHANGED job
        BY <1>4, <3>2 DEF Construction!FinishJob
      <4>2. Construction!Goto(p, "idle") \/ Construction!Goto(p, ok)
        BY <4>1
      <4> QED BY <2>1, <4>1, <4>2 DEF Rejob
    <3> QED BY <3>1, <3>2
  <2>4. JobGoes(p, j)
    <3>1. ASSUME NEW s \in Revision, j = ConstructJob(s), inputs = "match"
          PROVE  BuiltAs(s, Construction!Value(m.receipt))
      <4>1. j = ConstructJob(r) /\ s = r
        BY <3>1, ConstructConstants
      <4> QED BY <1>4, <3>1, <4>1
    <3> QED BY <2>3, <3>1 DEF JobGoes
  <2>5. JobAllowed(p)
    BY <2>1, <2>3, <2>4, JobStep
  <2>6. RowsAllowed(p) /\ CountsAllowed(p)
    BY <2>2, RowsSame, CountsStep
  <2>7. PICK label : Construction!Goto(p, label) /\ (label = "idle" \/ (label = "construct enqueue" /\ eligible))
    BY <1>4, <2>3
  <2>8. Moved(p, label, m, x)
    BY <1>2, <2>2, <2>7, ConstructControl DEF Moved
  <2>9. ConstructGo(p, label, m, x)
    BY <1>1, <1>2, <1>3, <2>7 DEF ConstructGo, Placed
  <2>10. ConstructGone(label, m)
    BY <2>2, <2>7 DEF ConstructGone
  <2> QED BY <2>5, <2>6, <2>8, <2>9, <2>10, ConstructGoes
<1>5. CASE Construction!SourceFinish(p)
  <2>1. Construction!FinishJob(p, SourceJob(r), Construction!AfterSource(p))
    BY <1>2, <1>5 DEF Construction!SourceFinish, Construction!Rev, SourceJob
  <2>2. PICK ok : ok = Construction!AfterSource(p)
    OBVIOUS
  <2>3. ok = "idle" \/ (ok = "construct enqueue" /\ eligible)
    BY <2>2 DEF Construction!AfterSource
  <2>4. SourceJob(r) # ConstructJob(r)
    BY ConstructConstants
  <2> QED BY <1>4, <2>1, <2>2, <2>3, <2>4
<1>6. CASE Construction!ConstructFinish(p)
  <2>1. Construction!FinishJob(p, ConstructJob(r), "idle")
    BY <1>2, <1>6 DEF Construction!ConstructFinish, Construction!Rev, ConstructJob
  <2>2. inputs = "match" => BuiltAs(r, Construction!Value(m.receipt))
    BY <1>1, <1>2, <1>6 DEF ConstructInv, Building
  <2> QED BY <1>4, <2>1, <2>2
<1> QED BY <1>5, <1>6

LEMMA BuildFinishesIts ==
    ASSUME ConstructInv, NEW p \in Process, Construction!BuildFinish(p)
    PROVE  ConstructInv'
<1>1. pc[p] = "build finish"
  BY DEF Construction!BuildFinish, Construction!At
<1>2. PICK m, x, j : m = me[p] /\ x = retained[p] /\ j = BuildJob(m.rev)
  OBVIOUS
<1>3. IsMemory(m) /\ (x # Nothing => x.job \in Jobs) /\ j \in Jobs /\ j \in DOMAIN job /\ DOMAIN job[j] = DOMAIN Absent
  BY <1>1, <1>2, ConstructCall, ConstructAt
<1>4. UNCHANGED rows /\ UNCHANGED me /\ UNCHANGED retained /\ UNCHANGED <<eligible, inputs, key, made, assembled>>
  BY DEF Construction!BuildFinish, Construction!constructionVars
<1>5. PICK label : Construction!Goto(p, label) /\ (label = "idle" \/ label = "take")
  BY DEF Construction!BuildFinish, Construction!Call, Construction!Answered
<1>6. m.receipt \in Construction!Newest(j)
  <2>1. m.receipt \in Newest(j)
    BY <1>1, <1>2 DEF ConstructInv, Building
  <2> QED BY <2>1 DEF Newest, Construction!Newest
<1>7. \/ UNCHANGED job
      \/ /\ job[j].state # "completed"
         /\ job' = [job EXCEPT ![j] = [state |-> "completed", result |-> m.receipt,
                                       bound |-> Construction!Newest(j)]]
  BY <1>2 DEF Construction!BuildFinish, Construction!Call, Construction!Rev, BuildJob
<1>8. Rejob(j)
  BY <1>3, <1>7 DEF Rejob, Absent
<1>9. JobGoes(p, j)
  <2>1. j[1] = "build" /\ \A s : j # ConstructJob(s)
    BY <1>2, JobKinds
  <2>2. CASE UNCHANGED job
    BY <2>2 DEF JobGoes
  <2>3. CASE /\ job[j].state # "completed"
             /\ job' = [job EXCEPT ![j] = [state |-> "completed", result |-> m.receipt,
                                           bound |-> Construction!Newest(j)]]
    <3>1. job'[j].state = "completed" /\ job'[j].result \in job'[j].bound
      BY <1>3, <1>6, <2>3
    <3> QED BY <2>1, <2>3, <3>1 DEF JobGoes
  <2> QED BY <1>7, <2>2, <2>3
<1>10. JobAllowed(p) /\ RowsAllowed(p) /\ CountsAllowed(p)
  BY <1>3, <1>4, <1>8, <1>9, JobStep, RowsSame, CountsStep
<1>11. Moved(p, label, m, x)
  BY <1>2, <1>4, <1>5, ConstructControl DEF Moved
<1>12. label \notin Guarded /\ label \notin Reached /\ pc[p] # "idle"
  BY <1>1, <1>5 DEF Guarded, Placed, Reached
<1> QED BY <1>2, <1>3, <1>4, <1>10, <1>11, <1>12, ConstructEnds

LEMMA ConstructStutters ==
    ASSUME ConstructInv, UNCHANGED Construction!vars
    PROVE  ConstructInv'
<1>1. UNCHANGED <<rows, pc, job, me, retained, made, key, assembled>> /\ UNCHANGED <<eligible, inputs>>
  BY DEF Construction!vars, Construction!controlVars, Construction!ledgerVars, Construction!constructionVars
<1>2. ConstructTables'
  BY <1>1, ConstructConstants DEF ConstructInv, ConstructTables, Processes, Absent, IsRow
<1>3. Importing'
  BY <1>1, ConstructConstants DEF ConstructInv, Importing, SourceJob, Construction!SourceJob
<1>4. Assembling'
  BY <1>1 DEF ConstructInv, Assembling, Announced, BuildJob, Construction!BuildJob,
              Construction!Intent, Construction!Receipt
<1>5. Building'
  BY <1>1 DEF ConstructInv, Building, BuiltAs, Newest, BuildJob, Construction!BuildJob,
              ConstructJob, Construction!ConstructJob, Construction!Value
<1> QED BY <1>2, <1>3, <1>4, <1>5 DEF ConstructInv

LEMMA ConstructNext ==
    ASSUME ConstructInv, [Construction!Next]_Construction!vars
    PROVE  ConstructInv'
<1>1. ASSUME NEW p \in Process, NEW r \in Revision,
             \/ \E goal \in {"screen", "construct"} : Construction!Screen(p, r, goal)
             \/ Construction!BuildDirectly(p, r) \/ Construction!RecoverSource(p, r)
             \/ Construction!RecoverConstruct(p, r)
      PROVE  ConstructInv'
  BY <1>1, ConstructOpens
<1>2. ASSUME NEW p \in Process,
             \/ Construction!SourceLookUp(p) \/ Construction!SourceEnqueue(p) \/ Construction!SourceClaim(p)
             \/ Construction!SourceIntent(p) \/ Construction!SourceDecide(p) \/ Construction!SourcePublish(p)
             \/ Construction!SourceFinish(p)
      PROVE  ConstructInv'
  BY <1>2, ConstructLooksUp, ConstructQueues, ConstructClaims, ConstructIntends, ConstructDecides,
     ConstructFreezes, ConstructFinishes
<1>3. ASSUME NEW p \in Process,
             \/ Construction!ConstructEnqueue(p) \/ Construction!ConstructClaim(p) \/ Construction!ConstructIntent(p)
             \/ Construction!Execute(p) \/ Construction!Take(p) \/ Construction!ConstructPublish(p)
             \/ Construction!ConstructFinish(p)
      PROVE  ConstructInv'
  BY <1>3, ConstructQueues, ConstructClaims, ConstructIntends, ConstructExecutes, ConstructDecides,
     ConstructFreezes, ConstructFinishes
<1>4. ASSUME NEW p \in Process,
             \/ Construction!BuildEnqueue(p) \/ Construction!BuildClaim(p) \/ Construction!BuildClaimAgain(p)
             \/ Construction!BuildDraw(p) \/ Construction!BuildObserve(p) \/ Construction!Assemble(p)
             \/ Construction!BuildPublish(p) \/ Construction!BuildFinish(p) \/ Construction!BuildRecover(p)
      PROVE  ConstructInv'
  BY <1>4, BuildEnqueues, BuildClaims, BuildDraws, BuildObserves, ConstructAssembles, ConstructFreezes,
     BuildFinishesIts, BuildRecovers
<1>5. ASSUME NEW p \in Process,
             \/ Construction!RetryPublication(p) \/ Construction!RetryBuild(p)
             \/ Construction!Crash(p) /\ UNCHANGED Construction!constructionVars
      PROVE  ConstructInv'
  BY <1>5, ConstructRetries, ConstructCrashes
<1> QED BY <1>1, <1>2, <1>3, <1>4, <1>5, ConstructStutters DEF Construction!Next

LEMMA ConstructStarted == Construction!Init => ConstructInv
<1> SUFFICES ASSUME Construction!Init PROVE ConstructInv
  OBVIOUS
<1>1. IsRow(<<>>) /\ Len(<<>>) = 0
  <2>1. <<>> \in Seq({})
    OBVIOUS
  <2> QED BY <2>1 DEF IsRow
<1>2. /\ rows = [j \in Jobs |-> <<>>] /\ job = [j \in Jobs |-> Absent] /\ made = [j \in Jobs |-> 0]
      /\ DOMAIN key = Jobs /\ assembled = [r \in Revision |-> 0]
  BY DEF Construction!Init, Jobs, Absent, Construction!Absent
<1>3. /\ DOMAIN pc = Process /\ DOMAIN me = Process /\ DOMAIN retained = Process
      /\ \A p \in Process : pc[p] = "idle" /\ retained[p] = Nothing
  BY DEF Construction!Init
<1>4. Absent.state = "absent"
  BY DEF Absent
<1>5. /\ \A r \in Revision : /\ rows[SourceJob(r)] = <<>> /\ rows[BuildJob(r)] = <<>>
                             /\ job[SourceJob(r)].state = "absent" /\ job[ConstructJob(r)].state = "absent"
                             /\ job[BuildJob(r)].state = "absent"
  BY <1>2, <1>4, ConstructConstants
<1>6. ConstructTables
  <2>1. \A j \in Jobs : IsRow(rows[j]) /\ Len(rows[j]) <= 2 /\ DOMAIN job[j] = DOMAIN Absent /\ made[j] \in Nat
    BY <1>1, <1>2
  <2> QED BY <1>2, <1>3, <2>1 DEF ConstructTables, Processes
<1>7. Importing
  BY <1>3, <1>5 DEF Importing
<1>8. Assembling
  <2>1. \A r \in Revision : assembled[r] \in 0..1 /\ assembled[r] = 0
    BY <1>2
  <2>2. \A p \in Process : pc[p] # "build observe" /\ pc[p] # "assemble"
    BY <1>3
  <2> QED BY <1>5, <2>1, <2>2 DEF Assembling
<1>9. Building
  BY <1>3, <1>5 DEF Building
<1> QED BY <1>6, <1>7, <1>8, <1>9 DEF ConstructInv

LEMMA ConstructHolds ==
    ConstructInv =>
        Construction!ImportedOnce /\ Construction!AssembledOnce /\ Construction!ConstructionBindsBuild
<1> SUFFICES ASSUME ConstructInv
             PROVE  Construction!ImportedOnce /\ Construction!AssembledOnce /\ Construction!ConstructionBindsBuild
  OBVIOUS
<1>1. Construction!ImportedOnce
  <2> DEFINE S == {r \in Revision : rows[SourceJob(r)] # <<>>}
  <2>1. \A r, s \in S : r = s
    BY DEF ConstructInv, Importing
  <2> HIDE DEF S
  <2>2. ASSUME S = {}
        PROVE  Cardinality(S) = 0
    BY <2>2, FS_EmptySet
  <2>3. ASSUME NEW r \in S
        PROVE  Cardinality(S) = 1
    <3>1. S = {r}
      BY <2>1
    <3> QED BY <3>1, FS_Singleton
  <2>4. Cardinality(S) <= 1
    <3>1. Cardinality(S) = 0 \/ Cardinality(S) = 1
      BY <2>2, <2>3, FS_EmptySet
    <3> QED BY <3>1
  <2>5. Construction!Cardinality(S) = Cardinality(S)
    BY DEF Construction!Cardinality, Cardinality
  <2>6. Construction!Cardinality(S) <= 1
    BY <2>4, <2>5
  <2>7. S = {r \in Revision : rows[Construction!SourceJob(r)] # <<>>}
    BY DEF S, SourceJob
  <2>8. Construction!Cardinality({r \in Revision : rows[Construction!SourceJob(r)] # <<>>}) <= 1
    BY <2>6, <2>7
  <2> QED BY <2>8 DEF Construction!ImportedOnce
<1>2. Construction!AssembledOnce
  <2> SUFFICES ASSUME NEW r \in Revision PROVE assembled[r] <= 1
    BY DEF Construction!AssembledOnce
  <2>1. PICK k : k = assembled[r]
    OBVIOUS
  <2>2. k \in 0..1
    BY <2>1 DEF ConstructInv, Assembling
  <2>3. k <= 1
    BY <2>2
  <2> QED BY <2>1, <2>3
<1>3. Construction!ConstructionBindsBuild
  <2> SUFFICES ASSUME NEW r \in Revision, job[ConstructJob(r)].state = "completed"
               PROVE  /\ job[ConstructJob(r)].result \in job[ConstructJob(r)].bound
                      /\ eligible
                      /\ inputs = "match" =>
                            /\ job[BuildJob(r)].state = "completed"
                            /\ job[BuildJob(r)].result = Construction!Value(job[ConstructJob(r)].result)
                            /\ job[BuildJob(r)].result \in job[BuildJob(r)].bound
    BY DEF Construction!ConstructionBindsBuild, ConstructJob, BuildJob
  <2>1. /\ job[ConstructJob(r)].result \in job[ConstructJob(r)].bound
        /\ inputs = "match" => BuiltAs(r, Construction!Value(job[ConstructJob(r)].result))
        /\ job[BuildJob(r)].state = "completed" => job[BuildJob(r)].result \in job[BuildJob(r)].bound
    BY DEF ConstructInv, Building
  <2>2. eligible
    BY DEF ConstructInv, Building
  <2> QED BY <2>1, <2>2 DEF BuiltAs
<1> QED BY <1>1, <1>2, <1>3

-----------------------------------------------------------------------------
(* Release.                                                                *)

LEMMA RowConcat ==
    ASSUME NEW s, NEW t, IsRow(s), IsRow(t)
    PROVE  /\ IsRow(s \o t)
           /\ \A a : In(a, s) \/ In(a, t) => In(a, s \o t)
<1>1. PICK S, T : s \in Seq(S) /\ t \in Seq(T)
  BY DEF IsRow
<1>2. s \in Seq(S \cup T) /\ t \in Seq(S \cup T) /\ Len(s) \in Nat /\ Len(t) \in Nat
      /\ DOMAIN s = 1..Len(s) /\ DOMAIN t = 1..Len(t)
  BY <1>1
<1>3. /\ s \o t \in Seq(S \cup T) /\ DOMAIN (s \o t) = 1..(Len(s) + Len(t))
      /\ \A i \in 1..Len(s) : (s \o t)[i] = s[i]
      /\ \A i \in 1..Len(t) : (s \o t)[i + Len(s)] = t[i]
  BY <1>2
<1>4. ASSUME NEW a, In(a, s) PROVE In(a, s \o t)
  BY <1>2, <1>3, <1>4 DEF In
<1>5. ASSUME NEW a, In(a, t) PROVE In(a, s \o t)
  <2>1. PICK i \in 1..Len(t) : t[i] = a
    BY <1>2, <1>5 DEF In
  <2>2. i + Len(s) \in 1..(Len(s) + Len(t))
    BY <1>2
  <2> QED BY <1>3, <2>1, <2>2 DEF In
<1> QED BY <1>3, <1>4, <1>5 DEF IsRow

LEMMA RowTail ==
    ASSUME NEW s, IsRow(s), s # <<>>
    PROVE  IsRow(Tail(s)) /\ \A a : In(a, s) => a = Head(s) \/ In(a, Tail(s))
<1>1. PICK S : s \in Seq(S)
  BY DEF IsRow
<1>2. /\ Tail(s) \in Seq(S) /\ Head(s) = s[1] /\ Len(s) \in Nat /\ Len(s) > 0
      /\ DOMAIN s = 1..Len(s) /\ DOMAIN Tail(s) = 1..(Len(s) - 1)
      /\ \A i \in 1..(Len(s) - 1) : Tail(s)[i] = s[i + 1]
  BY <1>1
<1>3. ASSUME NEW a, In(a, s), a # Head(s) PROVE In(a, Tail(s))
  <2>1. PICK i \in 1..Len(s) : s[i] = a /\ i # 1
    BY <1>2, <1>3 DEF In
  <2>2. i - 1 \in 1..(Len(s) - 1) /\ (i - 1) + 1 = i
    BY <1>2, <2>1
  <2> QED BY <1>2, <2>1, <2>2 DEF In
<1> QED BY <1>2, <1>3 DEF IsRow

LEMMA RowOf ==
    /\ IsRow(<<>>) /\ \A a : ~In(a, <<>>)
    /\ \A a : IsRow(<<a>>) /\ In(a, <<a>>)
    /\ \A a, b : IsRow(<<a, b>>) /\ In(a, <<a, b>>) /\ In(b, <<a, b>>)
    /\ \A a, b, c : IsRow(<<a, b, c>>) /\ In(a, <<a, b, c>>) /\ In(c, <<a, b, c>>)
    /\ \A a, b, c, d : IsRow(<<a, b, c, d>>) /\ In(b, <<a, b, c, d>>) /\ In(c, <<a, b, c, d>>)
<1>1. IsRow(<<>>) /\ \A a : ~In(a, <<>>)
  BY DEF IsRow, In
<1>2. ASSUME NEW a PROVE IsRow(<<a>>) /\ In(a, <<a>>)
  <2>1. <<a>> \in Seq({a}) /\ 1 \in DOMAIN <<a>> /\ <<a>>[1] = a
    OBVIOUS
  <2> QED BY <2>1 DEF IsRow, In
<1>3. ASSUME NEW a, NEW b PROVE IsRow(<<a, b>>) /\ In(a, <<a, b>>) /\ In(b, <<a, b>>)
  <2>1. <<a, b>> \in Seq({a, b}) /\ {1, 2} \subseteq DOMAIN <<a, b>> /\ <<a, b>>[1] = a /\ <<a, b>>[2] = b
    OBVIOUS
  <2> QED BY <2>1 DEF IsRow, In
<1>4. ASSUME NEW a, NEW b, NEW c PROVE IsRow(<<a, b, c>>) /\ In(a, <<a, b, c>>) /\ In(c, <<a, b, c>>)
  <2>1. /\ <<a, b, c>> \in Seq({a, b, c}) /\ {1, 3} \subseteq DOMAIN <<a, b, c>>
        /\ <<a, b, c>>[1] = a /\ <<a, b, c>>[3] = c
    OBVIOUS
  <2> QED BY <2>1 DEF IsRow, In
<1>5. ASSUME NEW a, NEW b, NEW c, NEW d
      PROVE  IsRow(<<a, b, c, d>>) /\ In(b, <<a, b, c, d>>) /\ In(c, <<a, b, c, d>>)
  <2>1. /\ <<a, b, c, d>> \in Seq({a, b, c, d}) /\ {2, 3} \subseteq DOMAIN <<a, b, c, d>>
        /\ <<a, b, c, d>>[2] = b /\ <<a, b, c, d>>[3] = c
    OBVIOUS
  <2> QED BY <2>1 DEF IsRow, In
<1> QED BY <1>1, <1>2, <1>3, <1>4, <1>5

\* What an operation knows survives the steps of the others.
LEMMA OperationStays ==
    ASSUME NEW o, Operation(o), o.seen \subseteq revoked', DOMAIN registered \subseteq DOMAIN registered'
    PROVE  Operation(o)'
<1>1. o.task \in DOMAIN registered => o.task \in DOMAIN registered'
  OBVIOUS
<1> QED BY <1>1 DEF Operation

LEMMA OperationsStep ==
    ASSUME Operations, NEW p \in Controller, NEW o, doing' = [doing EXCEPT ![p] = o],
           o # Nothing => Operation(o)',
           revoked \subseteq revoked', DOMAIN registered \subseteq DOMAIN registered'
    PROVE  Operations'
<1>1. /\ doing' = [q \in Controller |-> doing'[q]] /\ doing'[p] = o
      /\ \A q \in Controller \ {p} : doing'[q] = doing[q]
  BY DEF Operations
<1>2. ASSUME NEW q \in Controller, doing'[q] # Nothing PROVE Operation(doing[q])'
  <2>1. CASE q = p
    BY <1>1, <1>2, <2>1 DEF Operation
  <2>2. CASE q # p
    <3>1. PICK m : m = doing[q]
      OBVIOUS
    <3>2. doing'[q] = m
      BY <1>1, <2>2, <3>1
    <3>3. Operation(m) /\ m.seen \subseteq revoked'
      BY <1>2, <3>1, <3>2 DEF Operations, Operation
    <3>4. Operation(m)'
      BY <3>3, OperationStays
    <3> QED BY <3>2, <3>4
  <2> QED BY <2>1, <2>2
<1> QED BY <1>1, <1>2 DEF Operations

LEMMA StoreSame ==
    ASSUME StoreInv, UNCHANGED <<artifacts, registered>>
    PROVE  StoreInv'
BY DEF StoreInv, Sequenced

LEMMA ResolvedSame ==
    ASSUME Released!ResolvedStands, UNCHANGED resolved
    PROVE  Released!ResolvedStands'
BY DEF Released!ResolvedStands

\* What is put is registered with its dependencies; what was registered stays.
LEMMA RegisterStep ==
    ASSUME StoreInv, NEW a, NEW D, Released!Register(a, D)
    PROVE  /\ DOMAIN registered \subseteq DOMAIN registered' /\ a \in DOMAIN registered'
           /\ (a.kind = "report" => Released!Declared(a) \subseteq D) /\ UNCHANGED artifacts => StoreInv'
<1>1. CASE a \in DOMAIN registered
  <2>1. UNCHANGED registered
    BY <1>1 DEF Released!Register
  <2> QED BY <1>1, <2>1, StoreSame
<1>2. CASE a \notin DOMAIN registered
  <2>1. /\ registered' = [b \in DOMAIN registered \cup {a} |->
                            IF b = a THEN Released!Intrinsic(a) \cup D ELSE registered[b]]
    BY <1>2 DEF Released!Register
  <2>2. /\ DOMAIN registered' = DOMAIN registered \cup {a}
        /\ registered'[a] = Released!Intrinsic(a) \cup D
        /\ \A b \in DOMAIN registered : registered'[b] = registered[b]
        /\ registered' = [b \in DOMAIN registered' |-> registered'[b]]
    BY <1>2, <2>1
  <2>3. ASSUME a.kind = "report" => Released!Declared(a) \subseteq D, UNCHANGED artifacts
        PROVE  StoreInv'
    <3>1. ASSUME NEW r \in DOMAIN registered', r.kind = "report"
          PROVE  Released!Intrinsic(r) \cup Released!Declared(r) \subseteq registered'[r]
      <4>1. CASE r = a
        BY <2>2, <2>3, <3>1, <4>1
      <4>2. CASE r # a
        BY <2>2, <3>1, <4>2 DEF StoreInv
      <4> QED BY <4>1, <4>2
    <3>2. ASSUME NEW t \in artifacts', t.kind = "task" PROVE Sequenced(t)'
      BY <2>2, <2>3, <3>2 DEF StoreInv, Sequenced
    <3>3. \A b \in artifacts' : TaskShape(b) \/ ReportShape(b)
      BY <2>3 DEF StoreInv
    <3> QED BY <2>2, <3>1, <3>2, <3>3 DEF StoreInv
  <2> QED BY <2>2, <2>3
<1> QED BY <1>1, <1>2

\* assert_usable finds an artifact, and all its own record names, clear of the notices.
LEMMA FoundUsable ==
    ASSUME StoreInv, NEW a, NEW seen, seen \subseteq revoked, Released!Usable(a)
    PROVE  a \in DOMAIN registered /\ Clean(a, seen)
<1>1. a \in DOMAIN registered /\ Released!Ancestors({a}) \cap revoked = {}
  BY DEF Released!Usable
<1>2. \A S : S \subseteq Released!Parents(S)
  BY DEF Released!Parents
<1>3. registered[a] \subseteq Released!Parents({a})
  BY <1>1 DEF Released!Parents
<1>4. Released!Parents({a}) \subseteq Released!Ancestors({a})
  BY <1>2 DEF Released!Ancestors
<1>5. a \in Released!Parents({a})
  BY <1>2
<1>6. a.kind = "report" => Released!Intrinsic(a) \cup Released!Declared(a) \subseteq registered[a]
  BY <1>1 DEF StoreInv
<1> QED BY <1>1, <1>3, <1>4, <1>5, <1>6 DEF Clean

LEMMA NoticeStep ==
    ASSUME ReleaseInv, Released!Quarantine
    PROVE  ReleaseInv'
<1>1. /\ revoked \subseteq revoked' /\ UNCHANGED <<artifacts, registered, doing, resolved>>
  BY DEF Released!Quarantine
<1>2. ASSUME NEW p \in Controller, doing'[p] # Nothing PROVE Operation(doing[p])'
  <2>1. PICK m : m = doing[p]
    OBVIOUS
  <2>2. doing'[p] = m
    BY <1>1, <2>1
  <2>3. Operation(m) /\ m.seen \subseteq revoked'
    BY <1>1, <1>2, <2>1 DEF ReleaseInv, Operations, Operation
  <2>4. Operation(m)'
    BY <1>1, <2>3, OperationStays
  <2> QED BY <2>2, <2>4
<1>3. doing' = [p \in Controller |-> doing'[p]]
  BY <1>1 DEF ReleaseInv, Operations
<1>4. StoreInv' /\ Released!ResolvedStands'
  BY <1>1, StoreSame, ResolvedSame DEF ReleaseInv
<1> QED BY <1>2, <1>3, <1>4 DEF ReleaseInv, Operations

LEMMA LiftStep ==
    ASSUME ReleaseInv, Released!Lift
    PROVE  ReleaseInv'
<1>1. PICK a \in revoked :
          /\ revoked' = revoked \ {a} /\ UNCHANGED <<artifacts, registered, resolved>>
          /\ doing' = [p \in Controller |-> IF doing[p] = Nothing THEN Nothing
                                            ELSE [doing[p] EXCEPT !.seen = @ \ {a}]]
  BY DEF Released!Lift
<1>2. ASSUME NEW p \in Controller, doing'[p] # Nothing PROVE Operation(doing[p])'
  <2>1. PICK m : m = doing[p]
    OBVIOUS
  <2>2. m # Nothing /\ doing'[p] = [m EXCEPT !.seen = @ \ {a}]
    BY <1>1, <1>2, <2>1
  <2>3. Operation(m)
    BY <2>1, <2>2 DEF ReleaseInv, Operations
  <2>4. PICK o : o = [m EXCEPT !.seen = @ \ {a}]
    OBVIOUS
  <2>5. /\ o.at = m.at /\ o.task = m.task /\ o.report = m.report /\ o.todo = m.todo
        /\ o.seen = m.seen \ {a} /\ OperationShape(o)
    BY <2>3, <2>4 DEF Operation, OperationShape
  <2>6. \A b : Clean(b, m.seen) => Clean(b, o.seen)
    BY <2>5 DEF Clean
  <2>7. o.seen \subseteq revoked'
    BY <1>1, <2>3, <2>5 DEF Operation
  <2>8. m.task \in DOMAIN registered => m.task \in DOMAIN registered'
    BY <1>1
  <2>9. Operation(o)'
    BY <2>3, <2>5, <2>6, <2>7, <2>8 DEF Operation
  <2> QED BY <2>2, <2>4, <2>9
<1>3. doing' = [p \in Controller |-> doing'[p]]
  BY <1>1
<1>4. StoreInv' /\ Released!ResolvedStands'
  BY <1>1, StoreSame, ResolvedSame DEF ReleaseInv
<1> QED BY <1>2, <1>3, <1>4 DEF ReleaseInv, Operations

LEMMA ReturnStep ==
    ASSUME Operations, NEW p \in Controller, Released!Return(p),
           UNCHANGED revoked, DOMAIN registered \subseteq DOMAIN registered'
    PROVE  Operations'
<1>1. PICK o : o = Nothing
  OBVIOUS
<1>2. doing' = [doing EXCEPT ![p] = o]
  BY <1>1 DEF Released!Return
<1> QED BY <1>1, <1>2, OperationsStep

LEMMA BeginStep ==
    ASSUME ReleaseInv, NEW p \in Controller, NEW o, Released!Begin(p, o), Operation(o)
    PROVE  ReleaseInv'
<1>1. /\ doing' = [doing EXCEPT ![p] = o] /\ UNCHANGED <<artifacts, registered, revoked, resolved>>
  BY DEF Released!Begin
<1>2. Operation(o)'
  BY <1>1, OperationStays DEF Operation
<1>3. Operations'
  BY <1>1, <1>2, OperationsStep DEF ReleaseInv
<1> QED BY <1>1, <1>3, StoreSame, ResolvedSame DEF ReleaseInv

\* What the operations walk through.
LEMMA VerifyWalkOf ==
    ASSUME NEW t, NEW r
    PROVE  /\ IsRow(Released!VerifyWalk(t, r)) /\ In(r, Released!VerifyWalk(t, r))
           /\ In(Released!Verifier(r.of), Released!VerifyWalk(t, r))
<1>1. PICK b, v : b = Released!Built(r.of) /\ v = Released!Verifier(r.of)
  OBVIOUS
<1>2. PICK s : s = IF t = Released!Built(r.of) THEN <<>> ELSE <<t>>
  OBVIOUS
<1>3. IsRow(s)
  BY <1>2, RowOf
<1>4. IsRow(<<r, b, v>>) /\ In(r, <<r, b, v>>) /\ In(v, <<r, b, v>>)
  BY RowOf
<1>5. Released!VerifyWalk(t, r) = <<r, b, v>> \o s
  BY <1>1, <1>2 DEF Released!VerifyWalk
<1> QED BY <1>1, <1>3, <1>4, <1>5, RowConcat

LEMMA TransitionWalkOf ==
    ASSUME NEW t, NEW r
    PROVE  IsRow(Released!TransitionWalk(t, r)) /\ In(t, Released!TransitionWalk(t, r))
<1>1. PICK c, b, s : /\ c = Released!Configuration(CHOOSE i \in r.by : TRUE, r.policy)
                     /\ b = Released!Built(r.of) /\ s = Released!VerifyWalk(t, r)
  OBVIOUS
<1>2. IsRow(<<t, c>>) /\ In(t, <<t, c>>) /\ IsRow(s) /\ IsRow(<<b>>)
  BY <1>1, RowOf, VerifyWalkOf
<1>3. IsRow(<<t, c>> \o s) /\ In(t, <<t, c>> \o s)
  BY <1>2, RowConcat
<1>4. IsRow((<<t, c>> \o s) \o <<b>>) /\ In(t, (<<t, c>> \o s) \o <<b>>)
  BY <1>2, <1>3, RowConcat
<1>5. Released!TransitionWalk(t, r) = (<<t, c>> \o s) \o <<b>>
  BY <1>1 DEF Released!TransitionWalk
<1> QED BY <1>4, <1>5

LEMMA ResolveWalksOf ==
    ASSUME NEW t, NEW r, NEW c, NEW d
    PROVE  LET W == {<<t, c>> \o Released!VerifyWalk(t, r) \o <<d>>,
                     <<c, t, r, d>> \o Released!VerifyWalk(t, r)} IN
           \A w \in W : IsRow(w) /\ \A a \in {t, r, Released!Verifier(r.of)} : In(a, w)
<1>1. PICK s : s = Released!VerifyWalk(t, r)
  OBVIOUS
<1>2. IsRow(s) /\ In(r, s) /\ In(Released!Verifier(r.of), s)
  BY <1>1, VerifyWalkOf
<1>3. /\ IsRow(<<t, c>>) /\ In(t, <<t, c>>) /\ IsRow(<<d>>)
      /\ IsRow(<<c, t, r, d>>) /\ In(t, <<c, t, r, d>>)
  BY RowOf
<1>4. IsRow(<<t, c>> \o s) /\ \A a \in {t, r, Released!Verifier(r.of)} : In(a, <<t, c>> \o s)
  BY <1>2, <1>3, RowConcat
<1>5. /\ IsRow((<<t, c>> \o s) \o <<d>>)
      /\ \A a \in {t, r, Released!Verifier(r.of)} : In(a, (<<t, c>> \o s) \o <<d>>)
  BY <1>3, <1>4, RowConcat
<1>6. IsRow(<<c, t, r, d>> \o s) /\ \A a \in {t, r, Released!Verifier(r.of)} : In(a, <<c, t, r, d>> \o s)
  BY <1>2, <1>3, RowConcat
<1> QED BY <1>1, <1>5, <1>6

\* A manifest of the store, and the report of one that is past "built".
LEMMA TaskOfStore ==
    ASSUME StoreInv, NEW t \in Released!Tasks
    PROVE  t \in artifacts /\ TaskShape(t)
<1>1. t \in artifacts /\ t.kind = "task"
  BY DEF Released!Tasks
<1>2. ~ReportShape(t)
  BY <1>1 DEF ReportShape
<1> QED BY <1>1, <1>2 DEF StoreInv

LEMMA ReportOfStore ==
    ASSUME StoreInv, NEW r \in Released!Reports
    PROVE  ReportShape(r)
<1>1. r \in artifacts /\ r.kind = "report"
  BY DEF Released!Reports
<1>2. ~TaskShape(r)
  BY <1>1 DEF TaskShape, Released!Manifest
<1> QED BY <1>1, <1>2 DEF StoreInv

LEMMA QualifyStep ==
    ASSUME ReleaseInv, NEW p \in Controller, Released!Qualify(p)
    PROVE  ReleaseInv'
<1>1. PICK t \in Released!Tasks, c \in PolicyId, i \in Implementation :
          Released!Begin(p, Released!Doing("validate", t, Nothing, c, {i}, <<t>>))
  BY DEF Released!Qualify
<1>2. PICK o : o = Released!Doing("validate", t, Nothing, c, {i}, <<t>>)
  OBVIOUS
<1>3. IsRow(<<t>>)
  BY RowOf
<1>4. Operation(o)
  BY <1>2, <1>3 DEF Operation, OperationShape, Released!Doing
<1> QED BY <1>1, <1>2, <1>4, BeginStep

LEMMA ReleaseTaskStep ==
    ASSUME ReleaseInv, NEW p \in Controller, Released!ReleaseTask(p)
    PROVE  ReleaseInv'
<1>1. PICK t \in Released!Tasks, r \in Released!Reports :
          /\ t.state # "released" /\ (t.state = "qualified" => t.report = r)
          /\ Released!Begin(p, Released!Doing("transition", t, r, r.policy, r.by,
                                              Released!TransitionWalk(t, r)))
  BY DEF Released!ReleaseTask
<1>2. PICK w : w = Released!TransitionWalk(t, r)
  OBVIOUS
<1>3. PICK o : o = Released!Doing("transition", t, r, r.policy, r.by, w)
  OBVIOUS
<1>4. IsRow(w) /\ In(t, w)
  BY <1>2, TransitionWalkOf
<1>5. TaskShape(t) /\ ReportShape(r) /\ t \in artifacts
  BY TaskOfStore, ReportOfStore DEF ReleaseInv
<1>6. t.state \in {"built", "qualified"}
  BY <1>1, <1>5 DEF TaskShape
<1>7. Operation(o)
  BY <1>1, <1>3, <1>4, <1>5, <1>6 DEF Operation, OperationShape, Released!Doing
<1> QED BY <1>1, <1>2, <1>3, <1>7, BeginStep

LEMMA ResolveStep ==
    ASSUME ReleaseInv, NEW p \in Controller,
           Released!ResolveByLifecycle(p) \/ Released!ResolveByResolver(p)
    PROVE  ReleaseInv'
<1>1. PICK t \in Released!Tasks : t.state = "released" /\
          \E c, by, x, d :
              \E w \in {<<t, x>> \o Released!VerifyWalk(t, t.report) \o <<d>>,
                        <<x, t, t.report, d>> \o Released!VerifyWalk(t, t.report)} :
                  Released!Begin(p, Released!Doing("resolve", t, t.report, c, by, w))
  <2>1. CASE Released!ResolveByLifecycle(p)
    BY <2>1 DEF Released!ResolveByLifecycle
  <2>2. CASE Released!ResolveByResolver(p)
    BY <2>2 DEF Released!ResolveByResolver
  <2> QED BY <2>1, <2>2
<1>2. PICK c, by, x, d, w :
          /\ w \in {<<t, x>> \o Released!VerifyWalk(t, t.report) \o <<d>>,
                    <<x, t, t.report, d>> \o Released!VerifyWalk(t, t.report)}
          /\ Released!Begin(p, Released!Doing("resolve", t, t.report, c, by, w))
  BY <1>1
<1>3. IsRow(w) /\ \A a \in {t, t.report, Released!Verifier(t.report.of)} : In(a, w)
  BY <1>2, ResolveWalksOf
<1>4. TaskShape(t)
  BY TaskOfStore DEF ReleaseInv
<1>5. ReportShape(t.report)
  BY <1>1, <1>4 DEF TaskShape, Backed
<1>6. PICK o : o = Released!Doing("resolve", t, t.report, c, by, w)
  OBVIOUS
<1>7. Operation(o)
  BY <1>1, <1>3, <1>4, <1>5, <1>6 DEF Operation, OperationShape, Released!Doing
<1> QED BY <1>2, <1>6, <1>7, BeginStep

LEMMA WalkStep ==
    ASSUME ReleaseInv, NEW p \in Controller, Released!Walk(p)
    PROVE  ReleaseInv'
<1>1. /\ doing[p] # Nothing /\ doing[p].todo # <<>> /\ Released!Usable(Head(doing[p].todo))
      /\ doing' = [doing EXCEPT ![p].todo = Tail(@)]
      /\ UNCHANGED <<artifacts, registered, revoked, resolved>>
  BY DEF Released!Walk
<1>2. PICK m : m = doing[p]
  OBVIOUS
<1>3. PICK a, rest : a = Head(m.todo) /\ rest = Tail(m.todo)
  OBVIOUS
<1>4. PICK o : o = [m EXCEPT !.todo = rest]
  OBVIOUS
<1>5. Operation(m)
  BY <1>1, <1>2 DEF ReleaseInv, Operations
<1>6. IsRow(rest) /\ \A b : In(b, m.todo) => b = a \/ In(b, rest)
  BY <1>1, <1>2, <1>3, <1>5, RowTail DEF Operation
<1>7. a \in DOMAIN registered /\ Clean(a, m.seen)
  BY <1>1, <1>2, <1>3, <1>5, FoundUsable DEF ReleaseInv, Operation
<1>8. /\ o.at = m.at /\ o.task = m.task /\ o.report = m.report /\ o.todo = rest
      /\ o.seen = m.seen /\ OperationShape(o)
  BY <1>4, <1>5 DEF Operation, OperationShape
<1>9. o.at = "transition" => In(o.task, o.todo) \/ o.task \in DOMAIN registered
  BY <1>5, <1>6, <1>7, <1>8 DEF Operation
<1>10. o.at = "resolve" => \A b \in {o.task, o.report, Released!Verifier(o.report.of)} :
                             In(b, o.todo) \/ Clean(b, o.seen)
  BY <1>5, <1>6, <1>7, <1>8 DEF Operation
<1>11. Operation(o)
  BY <1>5, <1>6, <1>8, <1>9, <1>10 DEF Operation
<1>12. Operation(o)'
  BY <1>1, <1>11, OperationStays DEF Operation
<1>13. doing' = [doing EXCEPT ![p] = o]
  BY <1>1, <1>2, <1>3, <1>4
<1>14. Operations'
  BY <1>1, <1>12, <1>13, OperationsStep DEF ReleaseInv
<1> QED BY <1>1, <1>14, StoreSame, ResolvedSame DEF ReleaseInv

LEMMA ValidateStep ==
    ASSUME ReleaseInv, NEW p \in Controller, Released!Validate(p)
    PROVE  ReleaseInv'
<1>1. PICK m : m = doing[p]
  OBVIOUS
<1>2. PICK r : /\ ReportShape(r) /\ artifacts' = artifacts \cup {r}
               /\ doing' = [doing EXCEPT ![p].at = "declare", ![p].report = r]
               /\ m # Nothing /\ UNCHANGED <<registered, revoked, resolved>>
  <2>1. PICK read \in BOOLEAN, success \in BOOLEAN :
            /\ success => read /\ m.task.of \in Sound
            /\ LET r == [kind |-> "report", of |-> m.task.of, policy |-> m.policy, by |-> m.by,
                         read |-> read, success |-> success, call |-> begun]
               IN  /\ artifacts' = artifacts \cup {r}
                   /\ doing' = [doing EXCEPT ![p].at = "declare", ![p].report = r]
    BY <1>1 DEF Released!Validate
  <2>2. m # Nothing /\ UNCHANGED <<registered, revoked, resolved>>
    BY <1>1 DEF Released!Validate, Released!Walked, Released!At
  <2>3. PICK r : r = [kind |-> "report", of |-> m.task.of, policy |-> m.policy, by |-> m.by,
                      read |-> read, success |-> success, call |-> begun]
    OBVIOUS
  <2>4. ReportShape(r)
    BY <2>1, <2>3 DEF ReportShape
  <2> QED BY <2>1, <2>2, <2>3, <2>4
<1>3. Operation(m)
  BY <1>1, <1>2 DEF ReleaseInv, Operations
<1>4. PICK o : o = [m EXCEPT !.at = "declare", !.report = r]
  OBVIOUS
<1>5. o.at = "declare" /\ o.report = r /\ o.todo = m.todo /\ o.seen = m.seen /\ OperationShape(o)
  BY <1>3, <1>4 DEF Operation, OperationShape
<1>6. Operation(o)
  BY <1>2, <1>3, <1>5 DEF Operation
<1>7. Operation(o)'
  BY <1>2, <1>6, OperationStays DEF Operation
<1>8. doing' = [doing EXCEPT ![p] = o]
  BY <1>1, <1>2, <1>4
<1>9. Operations'
  BY <1>2, <1>7, <1>8, OperationsStep DEF ReleaseInv
<1>10. StoreInv'
  BY <1>2 DEF ReleaseInv, StoreInv, Sequenced, ReportShape
<1> QED BY <1>2, <1>9, <1>10, ResolvedSame DEF ReleaseInv

LEMMA DeclareStep ==
    ASSUME ReleaseInv, NEW p \in Controller, Released!Declare(p)
    PROVE  ReleaseInv'
<1>1. PICK r : r = doing[p].report
  OBVIOUS
<1>2. /\ Released!Register(r, Released!Declared(r)) /\ Released!Return(p)
      /\ UNCHANGED <<artifacts, revoked, resolved>>
  BY <1>1 DEF Released!Declare
<1>3. DOMAIN registered \subseteq DOMAIN registered' /\ StoreInv'
  BY <1>2, RegisterStep DEF ReleaseInv
<1>4. Operations'
  BY <1>2, <1>3, ReturnStep DEF ReleaseInv
<1> QED BY <1>2, <1>3, <1>4, ResolvedSame DEF ReleaseInv

LEMMA TransitionStep ==
    ASSUME ReleaseInv, NEW p \in Controller, Released!Transition(p)
    PROVE  ReleaseInv'
<1>1. PICK m : m = doing[p]
  OBVIOUS
<1>2. PICK t : t = Released!Manifest(m.task.of, Released!After(m.task.state), m.report)
  OBVIOUS
<1>3. /\ m # Nothing /\ m.at = "transition" /\ m.todo = <<>>
      /\ Released!Accepted(m.task, m.report, m.policy, m.by)
      /\ artifacts' = artifacts \cup {t}
      /\ doing' = [doing EXCEPT ![p].at = "publish", ![p].task = t]
      /\ UNCHANGED <<registered, revoked, resolved>>
  BY <1>1, <1>2 DEF Released!Transition, Released!Walked, Released!At
<1>4. Operation(m)
  BY <1>1, <1>3 DEF ReleaseInv, Operations
<1>5. m.task \in DOMAIN registered
  BY <1>3, <1>4, RowOf DEF Operation
<1>6. /\ TaskShape(m.task) /\ ReportShape(m.report) /\ m.task.state \in {"built", "qualified"}
      /\ m.task.state = "qualified" => m.task.report = m.report
  BY <1>3, <1>4 DEF Operation
<1>7. m.report.success /\ m.report.of = m.task.of
  BY <1>3 DEF Released!Accepted
<1>8. /\ t = Released!Manifest(t.of, t.state, t.report) /\ t.of = m.task.of /\ t.report = m.report
      /\ t.state = Released!After(m.task.state) /\ t.state \in {"qualified", "released"}
      /\ t.kind = "task" /\ (t.state = "released" => m.task.state = "qualified")
  BY <1>2, <1>6 DEF Released!Manifest, Released!After
<1>9. TaskShape(t)
  BY <1>6, <1>7, <1>8 DEF TaskShape, Backed
<1>10. Sequenced(t)
  BY <1>5, <1>6, <1>8 DEF Sequenced, TaskShape
<1>11. StoreInv'
  BY <1>3, <1>9, <1>10 DEF ReleaseInv, StoreInv, Sequenced
<1>12. PICK o : o = [m EXCEPT !.at = "publish", !.task = t]
  OBVIOUS
<1>13. /\ o.at = "publish" /\ o.task = t /\ o.report = m.report /\ o.todo = m.todo /\ o.seen = m.seen
       /\ OperationShape(o)
  BY <1>4, <1>12 DEF Operation, OperationShape
<1>14. Operation(o)
  BY <1>4, <1>6, <1>8, <1>9, <1>13 DEF Operation
<1>15. Operation(o)'
  BY <1>3, <1>14, OperationStays DEF Operation
<1>16. doing' = [doing EXCEPT ![p] = o]
  BY <1>1, <1>3, <1>12
<1>17. Operations'
  BY <1>3, <1>15, <1>16, OperationsStep DEF ReleaseInv
<1> QED BY <1>3, <1>11, <1>17, ResolvedSame DEF ReleaseInv

LEMMA PublishStep ==
    ASSUME ReleaseInv, NEW p \in Controller, Released!Publish(p)
    PROVE  ReleaseInv'
<1>1. PICK m : m = doing[p]
  OBVIOUS
<1>2. PICK w : w = Released!TransitionWalk(m.task, m.report)
  OBVIOUS
<1>3. /\ m # Nothing /\ m.at = "publish" /\ Released!Register(m.task, {})
      /\ IF m.task.state = "released" THEN Released!Return(p)
         ELSE doing' = [doing EXCEPT ![p].at = "transition", ![p].todo = w]
      /\ UNCHANGED <<artifacts, revoked, resolved>>
  BY <1>1, <1>2 DEF Released!Publish, Released!At
<1>4. Operation(m)
  BY <1>1, <1>3 DEF ReleaseInv, Operations
<1>5. /\ TaskShape(m.task) /\ ReportShape(m.report) /\ m.task.report = m.report
      /\ m.task.state \in {"qualified", "released"} /\ m.task.kind # "report"
  BY <1>3, <1>4 DEF Operation, TaskShape, Released!Manifest
<1>6. DOMAIN registered \subseteq DOMAIN registered' /\ StoreInv'
  BY <1>3, <1>5, RegisterStep DEF ReleaseInv
<1>7. Operations'
  <2>1. CASE m.task.state = "released"
    BY <1>3, <1>6, <2>1, ReturnStep DEF ReleaseInv
  <2>2. CASE m.task.state # "released"
    <3>1. PICK o : o = [m EXCEPT !.at = "transition", !.todo = w]
      OBVIOUS
    <3>2. /\ o.at = "transition" /\ o.task = m.task /\ o.report = m.report /\ o.todo = w
          /\ o.seen = m.seen /\ OperationShape(o)
      BY <1>4, <3>1 DEF Operation, OperationShape
    <3>3. IsRow(w) /\ In(m.task, w)
      BY <1>2, TransitionWalkOf
    <3>4. Operation(o)
      BY <1>4, <1>5, <2>2, <3>2, <3>3 DEF Operation
    <3>5. Operation(o)'
      BY <1>3, <1>6, <3>4, OperationStays DEF Operation
    <3>6. doing' = [doing EXCEPT ![p] = o]
      BY <1>1, <1>3, <2>2, <3>1
    <3> QED BY <1>3, <1>6, <3>5, <3>6, OperationsStep DEF ReleaseInv
  <2> QED BY <2>1, <2>2
<1> QED BY <1>3, <1>6, <1>7, ResolvedSame DEF ReleaseInv

LEMMA AnswerStep ==
    ASSUME ReleaseInv, NEW p \in Controller, Released!Answer(p)
    PROVE  ReleaseInv'
<1>1. PICK m : m = doing[p]
  OBVIOUS
<1>2. /\ m # Nothing /\ m.at = "resolve" /\ m.todo = <<>>
      /\ Released!Accepted(m.task, m.report, m.policy, m.by)
      /\ resolved' = resolved \cup {[task |-> m.task, by |-> m.by, seen |-> m.seen]}
      /\ Released!Return(p) /\ UNCHANGED <<artifacts, registered, revoked>>
  BY <1>1 DEF Released!Answer, Released!Walked, Released!At
<1>3. Operation(m)
  BY <1>1, <1>2 DEF ReleaseInv, Operations
<1>4. /\ ReportShape(m.report) /\ m.task.state = "released" /\ m.task.report = m.report
      /\ \A a \in {m.task, m.report, Released!Verifier(m.report.of)} : Clean(a, m.seen)
  BY <1>2, <1>3, RowOf DEF Operation
<1>5. /\ m.report.by \subseteq m.by /\ m.report.success /\ m.report.read /\ m.task.of = m.report.of
  BY <1>2 DEF Released!Accepted
<1>6. m.report.kind = "report" /\ m.report.of \in Sound
  BY <1>4, <1>5 DEF ReportShape
<1>7. /\ {Released!Built(m.task.of), Released!PolicyRef(m.report.policy),
          Released!Validation(m.task.of)} \subseteq Released!Intrinsic(m.report)
      /\ Released!Evidence(m.task.of) \in Released!Declared(m.report)
  BY <1>5, <1>6 DEF Released!Intrinsic, Released!Declared
<1>8. m.seen \cap {m.task, m.report, Released!Built(m.task.of), Released!Verifier(m.task.of),
                   Released!Validation(m.task.of), Released!Evidence(m.task.of),
                   Released!PolicyRef(m.report.policy)} = {}
  BY <1>4, <1>5, <1>6, <1>7 DEF Clean
<1>9. Released!ResolvedStands'
  <2>1. ASSUME NEW answer \in resolved'
        PROVE  LET t == answer.task
                   r == answer.task.report
               IN  /\ t.state = "released" /\ r.success /\ r.of = t.of /\ t.of \in Sound
                   /\ r.by \subseteq answer.by
                   /\ answer.seen \cap {t, r, Released!Built(t.of), Released!Verifier(t.of),
                        Released!Validation(t.of), Released!Evidence(t.of),
                        Released!PolicyRef(r.policy)} = {}
    <3>1. CASE answer \in resolved
      BY <3>1 DEF ReleaseInv, Released!ResolvedStands
    <3>2. CASE answer = [task |-> m.task, by |-> m.by, seen |-> m.seen]
      BY <1>4, <1>5, <1>6, <1>8, <3>2
    <3> QED BY <1>2, <2>1, <3>1, <3>2
  <2> QED BY <2>1 DEF Released!ResolvedStands
<1>10. Operations'
  BY <1>2, ReturnStep DEF ReleaseInv
<1> QED BY <1>2, <1>9, <1>10, StoreSame DEF ReleaseInv

LEMMA FailStep ==
    ASSUME ReleaseInv, NEW p \in Controller, Released!Fail(p)
    PROVE  ReleaseInv'
<1>1. Released!Return(p) /\ UNCHANGED <<artifacts, registered, revoked, resolved>>
  BY DEF Released!Fail
<1> QED BY <1>1, ReturnStep, StoreSame, ResolvedSame DEF ReleaseInv

LEMMA ReleaseStutters ==
    ASSUME ReleaseInv, UNCHANGED Released!releaseVars
    PROVE  ReleaseInv'
<1>1. UNCHANGED <<artifacts, registered, revoked, doing, resolved>>
  BY DEF Released!releaseVars
<1> QED BY <1>1 DEF ReleaseInv, StoreInv, Sequenced, Operations, Operation, Released!ResolvedStands

LEMMA ReleaseNext ==
    ASSUME ReleaseInv, [Released!ReleaseNext]_Released!releaseVars
    PROVE  ReleaseInv'
<1>1. ASSUME NEW p \in Controller,
             \/ Released!Qualify(p) \/ Released!Validate(p) \/ Released!Declare(p)
             \/ Released!ReleaseTask(p) \/ Released!Transition(p) \/ Released!Publish(p)
             \/ Released!ResolveByLifecycle(p) \/ Released!ResolveByResolver(p)
             \/ Released!Answer(p) \/ Released!Walk(p) \/ Released!Fail(p)
      PROVE  ReleaseInv'
  BY <1>1, QualifyStep, ValidateStep, DeclareStep, ReleaseTaskStep, TransitionStep, PublishStep,
     ResolveStep, AnswerStep, WalkStep, FailStep
<1> QED BY <1>1, NoticeStep, LiftStep, ReleaseStutters DEF Released!ReleaseNext

LEMMA ReleaseStarted == Released!ReleaseInit => ReleaseInv
<1> SUFFICES ASSUME Released!ReleaseInit PROVE ReleaseInv
  OBVIOUS
<1>1. /\ artifacts = {Released!Built(v) : v \in TaskVersion}
      /\ doing = [p \in Controller |-> Nothing] /\ resolved = {}
  BY DEF Released!ReleaseInit
<1> DEFINE Parts == UNION {{Released!Built(v), Released!Verifier(v), Released!Validation(v),
                            Released!Evidence(v)} : v \in TaskVersion}
           Policies == {Released!PolicyRef(c) : c \in PolicyId}
           Configurations == {Released!Configuration(i, c) : i \in Implementation, c \in PolicyId}
           Resolvers == {Released!Resolver(profiles) : profiles \in (SUBSET Implementation) \ {{}}}
           A == Parts \cup Policies \cup Configurations \cup Resolvers
<1>2. registered = [a \in A |-> Released!Intrinsic(a)]
  BY DEF Released!ReleaseInit
<1>3. registered = [a \in DOMAIN registered |-> registered[a]] /\ DOMAIN registered = A
  BY <1>2
<1>4. ASSUME NEW a \in A PROVE a.kind # "report"
  <2>1. CASE a \in Parts
    <3>1. PICK v \in TaskVersion : a \in {Released!Built(v), Released!Verifier(v),
                                         Released!Validation(v), Released!Evidence(v)}
      BY <2>1
    <3> QED BY <3>1 DEF Released!Built, Released!Manifest, Released!Verifier, Released!Validation,
                        Released!Evidence
  <2>2. CASE a \in Policies
    BY <2>2 DEF Released!PolicyRef
  <2>3. CASE a \in Configurations
    BY <2>3 DEF Released!Configuration
  <2>4. CASE a \in Resolvers
    BY <2>4 DEF Released!Resolver
  <2> QED BY <1>4, <2>1, <2>2, <2>3, <2>4
<1> HIDE DEF A, Parts, Policies, Configurations, Resolvers
<1>5. \A t \in artifacts : TaskShape(t) /\ t.state = "built"
  BY <1>1 DEF TaskShape, Released!Built, Released!Manifest
<1>6. StoreInv
  BY <1>3, <1>4, <1>5 DEF StoreInv, Sequenced
<1> QED BY <1>1, <1>6 DEF ReleaseInv, Operations, Released!ResolvedStands

LEMMA ReleaseHolds == ReleaseInv => Released!ResolvedStands /\ Released!ReleasedInSequence
BY DEF ReleaseInv, StoreInv, Sequenced, Released!ReleasedInSequence, Released!Tasks

-----------------------------------------------------------------------------
(* The controllers side by side.                                           *)

LEMMA FactoryStarted == Init => FactoryInv
<1> SUFFICES ASSUME Init PROVE FactoryInv
  OBVIOUS
<1>1. CASE route = "author" /\ Authoring!Init
  BY <1>1, AuthorStarted DEF FactoryInv
<1>2. CASE route = "construct" /\ Construction!Init
  BY <1>2, ConstructStarted DEF FactoryInv
<1>3. CASE route = "grade" /\ Grade!Init
  BY <1>3, GradeStarted DEF FactoryInv
<1>4. CASE route = "audit" /\ Audit!Init
  BY <1>4, AuditStarted DEF FactoryInv
<1>5. CASE route = "release" /\ Released!ReleaseInit
  BY <1>5, ReleaseStarted DEF FactoryInv
<1> QED BY <1>1, <1>2, <1>3, <1>4, <1>5 DEF Init

\* A step is a step of the controllers the behaviour is about.
LEMMA RouteStep ==
    ASSUME [Next]_vars
    PROVE  /\ UNCHANGED route
           /\ route = "author" => [Authoring!Next]_Authoring!vars
           /\ route = "construct" => [Construction!Next]_Construction!vars
           /\ route = "grade" => [Grade!Next]_Grade!vars
           /\ route = "audit" => [Audit!Next]_Audit!vars
           /\ route = "release" => [Released!ReleaseNext]_Released!releaseVars
<1>1. CASE Next
  BY <1>1 DEF Next
<1>2. CASE UNCHANGED vars
  <2>1. /\ UNCHANGED <<rows, pc, faults, job, me, retained, calls>> /\ UNCHANGED route
        /\ UNCHANGED <<runs, outcome, stamps, verdict, executions, notice>>
        /\ UNCHANGED <<eligible, inputs, key, made, assembled>>
    BY <1>2 DEF vars, controlVars, ledgerVars, authoringVars, constructionVars, auditVars
  <2>2. UNCHANGED Authoring!vars
    BY <2>1 DEF Authoring!vars, Authoring!controlVars, Authoring!ledgerVars, Authoring!authoringVars
  <2>3. UNCHANGED Construction!vars
    BY <2>1 DEF Construction!vars, Construction!controlVars, Construction!ledgerVars, Construction!constructionVars
  <2>4. UNCHANGED Grade!vars
    BY <2>1 DEF Grade!vars, Grade!controlVars, Grade!ledgerVars, Grade!gradeVars
  <2>5. UNCHANGED Audit!vars
    BY <2>1 DEF Audit!vars, Audit!controlVars, Audit!ledgerVars, Audit!auditVars
  <2>6. UNCHANGED Released!releaseVars
    BY <1>2 DEF vars, releaseOwn, Released!releaseVars
  <2> QED BY <2>1, <2>2, <2>3, <2>4, <2>5, <2>6
<1> QED BY <1>1, <1>2

LEMMA FactoryNext ==
    ASSUME FactoryInv, [Next]_vars
    PROVE  FactoryInv'
<1>1. /\ UNCHANGED route
      /\ route = "author" => [Authoring!Next]_Authoring!vars
      /\ route = "construct" => [Construction!Next]_Construction!vars
      /\ route = "grade" => [Grade!Next]_Grade!vars
      /\ route = "audit" => [Audit!Next]_Audit!vars
      /\ route = "release" => [Released!ReleaseNext]_Released!releaseVars
  BY RouteStep
<1>2. route = "author" => AuthorInv'
  BY <1>1, AuthorNext DEF FactoryInv
<1>3. route = "construct" => ConstructInv'
  BY <1>1, ConstructNext DEF FactoryInv
<1>4. route = "grade" => GradeInv'
  BY <1>1, GradeNext DEF FactoryInv
<1>5. route = "audit" => AuditInv'
  BY <1>1, AuditNext DEF FactoryInv
<1>6. route = "release" => ReleaseInv'
  BY <1>1, ReleaseNext DEF FactoryInv
<1> QED BY <1>1, <1>2, <1>3, <1>4, <1>5, <1>6 DEF FactoryInv

\* Where every controller is and what it has behind it, what the registry has on record
\* and what was done for it stay in step: FactoryInv holds whatever the processes do,
\* fail at, or leave half done (pipeline/authoring.py, construction.py, build.py,
\* grading.py, audits/service.py).
THEOREM FactoryInvariant == Spec => []FactoryInv
<1>1. Init => FactoryInv
  BY FactoryStarted
<1>2. FactoryInv /\ [Next]_vars => FactoryInv'
  BY FactoryNext
<1> QED BY <1>1, <1>2, PTL DEF Spec

\* A call reaches the model at most once, a candidate's original costs are imported under
\* one revision of the Factory, a build assembles its package at most once, a submission
\* is graded and an audit summed up at most once, whatever fails, crashes, is recovered,
\* retried or claimed again (pipeline/authoring.py, factory.py, build.py, grading.py,
\* audits/service.py).
THEOREM EffectsStayOnce == Spec => []EffectOnce
<1>1. FactoryInv => EffectOnce
  BY AuthorHolds, ConstructHolds, GradeHolds, AuditHolds DEF FactoryInv, EffectOnce
<1> QED BY <1>1, FactoryInvariant, PTL

\* A completed job accounts the receipt, the build, the grade or the report that was
\* really made, with all it was made from (registry.complete at the end of authoring.py,
\* construction.py, build.py, grading.py and audits/service.py).
THEOREM CompletionsStayBound == Spec => []CompletionBindsEffect
<1>1. FactoryInv => CompletionBindsEffect
  BY AuthorHolds, ConstructHolds, GradeHolds, AuditHolds DEF FactoryInv, CompletionBindsEffect
<1> QED BY <1>1, FactoryInvariant, PTL

\* A candidate never has two authoring calls that are queued or running: who enqueues
\* holds the batch's lock and has looked (pipeline/authoring.py).
THEOREM OneCallStaysOpen == Spec => [](route = "author" => Authoring!OneCallOpen)
<1>1. FactoryInv => (route = "author" => Authoring!OneCallOpen)
  BY AuthorHolds DEF FactoryInv
<1> QED BY <1>1, FactoryInvariant, PTL

\* A resolved task was released in sequence on an accepted report of its own, and neither it
\* nor anything it was made from was under a notice from before its resolution to the end,
\* whatever is quarantined, lifted or registered between two reads (pipeline/lifecycle.py,
\* resolver.py, qualification/service.py).
THEOREM ReleasesStand == Spec => []ReleaseStands
<1>1. FactoryInv => ReleaseStands
  BY ReleaseHolds DEF FactoryInv, ReleaseStands
<1> QED BY <1>1, FactoryInvariant, PTL
=============================================================================

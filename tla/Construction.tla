---------------------------- MODULE Construction ----------------------------
(***************************************************************************)
(* Factory.screen_source, pipeline/construction.py and pipeline/build.py:  *)
(* the source import, the construction and the build of one candidate, by  *)
(* Factories of several revisions and by direct callers of the builder.    *)
(* A job's row has two revisions: its intent, then its frozen outcome.     *)
(* Outcomes of two executions differ (their time), numbered by made.       *)
(***************************************************************************)
EXTENDS JobControl, FiniteSets

CONSTANT Revision       \* revisions of the Factory

VARIABLES eligible,     \* what source_decision says of the candidate
          inputs,       \* "none", "other": of another candidate, "match"
          key,          \* key[j]: the claim key of j's attempt
          made,         \* made[j]: outcomes ever put together for j
          assembled     \* assembled[r]: packages assembled for the build of r

constructionVars == <<eligible, inputs, key, made, assembled>>
vars == <<controlVars, constructionVars>>

SourceJob(r) == <<"source", r>>
ConstructJob(r) == <<"construct", r>>
BuildJob(r) == <<"build", r>>
Jobs == {"source", "construct", "build"} \X Revision
Lock == "candidate"

Intent(what) == Receipt("intent", what)
Outcome(j, value) == Receipt("outcome", <<made[j] + 1, value>>)
Value(outcome) == outcome[2][2]
FrozenOf(j) == {r \in Newest(j) : r[1] = "outcome"}

\* goal: where the call is bound for; builder: the claim key its build is called with.
Working(r, goal, holds) == [rev |-> r, goal |-> goal, holds |-> holds, receipt |-> Nothing,
                            builder |-> Nothing, nonce |-> 0]

Init ==
    /\ rows = [j \in Jobs |-> <<>>]
    /\ pc = [p \in Process |-> "idle"]
    /\ faults = 0
    /\ job = [j \in Jobs |-> Absent]
    /\ me = [p \in Process |-> Nothing]
    /\ retained = [p \in Process |-> Nothing]
    /\ calls = 0
    /\ eligible \in BOOLEAN
    /\ inputs \in {"none", "other", "match"}
    /\ key = [j \in Jobs |-> Nothing]
    /\ made = [j \in Jobs |-> 0]
    /\ assembled = [r \in Revision |-> 0]

Rev(p) == me[p].rev
Pending(j, outcome) == [job |-> j, receipt |-> outcome]

--------------------------------------------------------------------------
(* The steps a source import and a construction have in common. *)

ClaimJob(p, j, ok) ==
    /\ Claimed(p, j, ok)
    /\ key' = IF job'[j] = job[j] THEN key ELSE [key EXCEPT ![j] = "fresh"]
    /\ UNCHANGED <<rows, me, retained, calls, eligible, inputs, made, assembled>>

ObserveIntent(p, j, ok) ==
    /\ Observe(p, j, 1, {Intent(0)}, ok, "idle")
    /\ UNCHANGED <<job, me, retained, calls, constructionVars>>

\* The outcome of j is put together in memory.
Make(p, j, value, next) ==
    /\ Goto(p, next)
    /\ me' = [me EXCEPT ![p].receipt = Outcome(j, value)]
    /\ made' = [made EXCEPT ![j] = @ + 1]
    /\ UNCHANGED <<rows, faults, job, retained, calls, eligible, inputs, key, assembled>>

\* Revision 2 is the intent and this outcome; failing that the outcome is retained.
FreezeOutcome(p, j, intent, ok) ==
    /\ Observe(p, j, 2, {intent, me[p].receipt}, ok, "idle")
    /\ Retains(p, Pending(j, me[p].receipt))
    /\ UNCHANGED <<job, me, calls, constructionVars>>

Completes(j, outcome) == Len(rows[j]) = 2 /\ outcome \in Newest(j)

FinishJob(p, j, ok) ==
    /\ IF job[j].state # "completed" /\ Completes(j, me[p].receipt)
       THEN Completed(p, j, j, 2, me[p].receipt, ok)
       ELSE /\ Goto(p, IF job[j].state = "completed" THEN ok ELSE "idle")
            /\ UNCHANGED <<job, faults>>
    /\ UNCHANGED <<rows, me, retained, calls, constructionVars>>

--------------------------------------------------------------------------
(* Factory.screen_source: the original costs of the candidate are imported. *)

Screen(p, r, goal) ==
    /\ Free(p, Lock)
    /\ Begin(p, "source look up", Working(r, goal, {Lock}))
    /\ UNCHANGED <<rows, faults, job, retained, constructionVars>>

\* Mutant: the import is looked for under the Factory's own revision only.
ImportsOfRevision(r) == {SourceJob(r)} \cap {j \in Jobs : job[j].state # "absent"}

\* The candidate's import under any revision; a job of this revision that is queued
\* never had an attempt.
Imports(r) == {j \in Jobs : j[1] = "source" /\ job[j].state # "absent"}
                 \ {j \in {SourceJob(r)} : job[j].state = "queued"}

\* Mutant: whatever the import decided, the construction goes on.
AfterAnySource(p) == IF me[p].goal = "construct" THEN "construct enqueue" ELSE "idle"

\* An eligible source lets the construction go on; anything else is its result.
AfterSource(p) == IF me[p].goal = "construct" /\ eligible THEN "construct enqueue" ELSE "idle"

SourceLookUp(p) ==
    LET prior == Imports(Rev(p)) IN
    /\ At(p, "source look up")
    /\ Goto(p, IF prior = {} THEN "source enqueue"
               ELSE IF Cardinality(prior) = 1 /\ \A j \in prior : job[j].state = "completed"
                    THEN AfterSource(p)
               ELSE "idle")
    /\ UNCHANGED <<rows, faults, job, me, retained, calls, constructionVars>>

SourceEnqueue(p) ==
    /\ At(p, "source enqueue")
    /\ Enqueued(p, SourceJob(Rev(p)), "source claim")
    /\ UNCHANGED <<rows, me, retained, calls, constructionVars>>

SourceClaim(p) == At(p, "source claim") /\ ClaimJob(p, SourceJob(Rev(p)), "source intent")
SourceIntent(p) ==
    At(p, "source intent") /\ ObserveIntent(p, SourceJob(Rev(p)), "source decide")
SourceDecide(p) ==
    At(p, "source decide") /\ Make(p, SourceJob(Rev(p)), Receipt("decision", 0), "source publish")
SourcePublish(p) ==
    /\ At(p, "source publish")
    /\ FreezeOutcome(p, SourceJob(Rev(p)), Intent(0), "source finish")

SourceFinish(p) ==
    At(p, "source finish") /\ FinishJob(p, SourceJob(Rev(p)), AfterSource(p))

--------------------------------------------------------------------------
(* construction.construct: its child is the builder's job. *)

ConstructEnqueue(p) ==
    /\ At(p, "construct enqueue")
    /\ Enqueued(p, ConstructJob(Rev(p)), "construct claim")
    /\ UNCHANGED <<rows, me, retained, calls, constructionVars>>

ConstructClaim(p) ==
    At(p, "construct claim") /\ ClaimJob(p, ConstructJob(Rev(p)), "construct intent")
ConstructIntent(p) ==
    At(p, "construct intent") /\ ObserveIntent(p, ConstructJob(Rev(p)), "execute")

Blocked == inputs = "none"
Foreign == inputs = "other"

\* execute: no inputs, inputs of another candidate, or the build of these inputs,
\* taken, recovered or made by what its job is.
Execute(p) ==
    LET r == Rev(p)
        child == BuildJob(r) IN
    /\ At(p, "execute")
    /\ IF Blocked \/ Foreign
       THEN Make(p, ConstructJob(r), Receipt("refusal", 0), "construct publish")
       ELSE /\ Goto(p, CASE job[child].state = "completed" -> "take"
                         [] job[child].state = "running" -> "build recover"
                         [] OTHER -> "build enqueue")
            /\ me' = [me EXCEPT ![p].builder = "construct"]
            /\ UNCHANGED <<rows, faults, job, retained, calls, constructionVars>>

Take(p) ==
    /\ At(p, "take")
    /\ Make(p, ConstructJob(Rev(p)), job[BuildJob(Rev(p))].result, "construct publish")

\* validate_result: the outcome is the one the builder's job completed with.
ConstructPublish(p) ==
    LET j == ConstructJob(Rev(p))
        child == job[BuildJob(Rev(p))] IN
    /\ At(p, "construct publish")
    /\ IF /\ job[j].state # "completed"
          /\ inputs = "match" => child.state = "completed" /\ child.result = Value(me[p].receipt)
       THEN FreezeOutcome(p, j, Intent(0), "construct finish")
       ELSE Ends(p) /\ UNCHANGED <<me, retained, calls, constructionVars>>

ConstructFinish(p) == At(p, "construct finish") /\ FinishJob(p, ConstructJob(Rev(p)), "idle")

--------------------------------------------------------------------------
(* TaskBuilder.build, called by the construction or directly. *)

BuildDirectly(p, r) ==
    /\ inputs = "match"
    /\ Begin(p, "build enqueue", [Working(r, "build", {}) EXCEPT !.builder = "direct"])
    /\ UNCHANGED <<rows, faults, job, retained, constructionVars>>

\* Where the builder's answer takes its caller.
Answered(p) == IF me[p].goal = "build" THEN "idle" ELSE "take"

\* enqueue: the job it returns was queued, running or completed at that moment.
BuildEnqueue(p) ==
    LET j == BuildJob(Rev(p)) IN
    /\ At(p, "build enqueue")
    /\ IF job[j].state \in {"absent", "queued"}
       THEN Enqueued(p, j, "build claim")
       ELSE /\ Goto(p, IF job[j].state = "completed" THEN Answered(p) ELSE "build claim again")
            /\ UNCHANGED <<job, faults>>
    /\ UNCHANGED <<rows, me, retained, calls, constructionVars>>

\* claim is idempotent under its key, whatever became of the attempt.
BuildClaim(p) ==
    LET j == BuildJob(Rev(p)) IN
    /\ At(p, "build claim")
    /\ \/ /\ job[j].state = "queued"
          /\ Call(p, /\ job' = [job EXCEPT ![j].state = "running"]
                     /\ key' = [key EXCEPT ![j] = me[p].builder],
                  UNCHANGED <<job, key>>, "build intent", "idle")
       \/ /\ job[j].state # "queued"
          /\ Goto(p, IF key[j] = me[p].builder THEN "build intent" ELSE "idle")
          /\ UNCHANGED <<job, key, faults>>
    /\ UNCHANGED <<rows, me, retained, calls, eligible, inputs, made, assembled>>

BuildClaimAgain(p) ==
    /\ At(p, "build claim again")
    /\ Goto(p, IF key[BuildJob(Rev(p))] = me[p].builder THEN "build recover" ELSE "idle")
    /\ UNCHANGED <<rows, faults, job, me, retained, calls, constructionVars>>

\* Mutant: replays of a claim have the same intent.
SameNonce(j) == 1

Nonce(j) == made[j] + 1

BuildDraw(p) ==
    LET j == BuildJob(Rev(p)) IN
    /\ At(p, "build intent")
    /\ Goto(p, "build observe")
    /\ me' = [me EXCEPT ![p].nonce = Nonce(j)]
    /\ made' = [made EXCEPT ![j] = @ + 1]
    /\ UNCHANGED <<rows, faults, job, retained, calls, eligible, inputs, key, assembled>>

BuildObserve(p) ==
    /\ At(p, "build observe")
    /\ Observe(p, BuildJob(Rev(p)), 1, {Intent(me[p].nonce)}, "assemble", "idle")
    /\ UNCHANGED <<job, me, retained, calls, constructionVars>>

\* packaging.assemble, or what kept it from assembling, is frozen.
Assemble(p) ==
    LET j == BuildJob(Rev(p)) IN
    /\ At(p, "assemble")
    /\ Goto(p, "build publish")
    /\ \E kind \in {"built", "failed"} : me' = [me EXCEPT ![p].receipt = Outcome(j, Receipt(kind, 0))]
    /\ made' = [made EXCEPT ![j] = @ + 1]
    /\ assembled' = [assembled EXCEPT ![Rev(p)] = @ + 1]
    /\ UNCHANGED <<rows, faults, job, retained, calls, eligible, inputs, key>>

BuildPublish(p) ==
    /\ At(p, "build publish")
    /\ Observe(p, BuildJob(Rev(p)), 2, {Intent(me[p].nonce), me[p].receipt}, "build finish", "idle")
    /\ Retains(p, [job |-> BuildJob(Rev(p)), receipt |-> me[p].receipt, nonce |-> me[p].nonce])
    /\ UNCHANGED <<job, me, calls, constructionVars>>

\* _finish: the answer goes to the construction, if one waits for it.
BuildFinish(p) ==
    LET j == BuildJob(Rev(p)) IN
    /\ At(p, "build finish")
    /\ IF job[j].state = "completed"
       THEN Goto(p, Answered(p)) /\ UNCHANGED <<job, faults>>
       ELSE Call(p, job' = [job EXCEPT ![j] = [state |-> "completed", result |-> me[p].receipt,
                                               bound |-> Newest(j)]],
                 UNCHANGED job, Answered(p), "idle")
    /\ UNCHANGED <<rows, me, retained, calls, constructionVars>>

\* recover: nothing but a frozen outcome is completed.
BuildRecover(p) ==
    LET j == BuildJob(Rev(p)) IN
    /\ At(p, "build recover")
    /\ IF job[j].state = "completed" \/ FrozenOf(j) = {}
       THEN /\ Goto(p, IF job[j].state = "completed" THEN Answered(p) ELSE "idle")
            /\ UNCHANGED me
       ELSE /\ Goto(p, "build finish")
            /\ \E o \in FrozenOf(j) : me' = [me EXCEPT ![p].receipt = o]
    /\ UNCHANGED <<rows, faults, job, retained, calls, constructionVars>>

--------------------------------------------------------------------------
(* recover and retry_publication. *)

\* A source import is completed from its frozen receipt, without a lock.
RecoverSource(p, r) ==
    LET j == SourceJob(r) IN
    /\ job[j].state = "running" /\ FrozenOf(j) # {}
    /\ \E o \in FrozenOf(j) :
          Begin(p, "source finish", [Working(r, "screen", {}) EXCEPT !.receipt = o])
    /\ UNCHANGED <<rows, faults, job, retained, constructionVars>>

\* Under the lock: a frozen result is published, an intent alone is executed again.
RecoverConstruct(p, r) ==
    LET j == ConstructJob(r)
        memory == Working(r, "recover", {Lock}) IN
    /\ job[j].state = "running" /\ rows[j] # <<>>
    /\ Free(p, Lock)
    /\ IF FrozenOf(j) = {} THEN Begin(p, "execute", memory)
       ELSE \E o \in FrozenOf(j) :
               Begin(p, "construct publish", [memory EXCEPT !.receipt = o])
    /\ UNCHANGED <<rows, faults, job, retained, constructionVars>>

\* A retained source or construction outcome is published as it is, without a lock.
RetryPublication(p) ==
    /\ retained[p] # Nothing /\ retained[p].job[1] # "build"
    /\ LET j == retained[p].job IN
       Begin(p, IF j[1] = "source" THEN "source publish" ELSE "construct publish",
             [Working(j[2], "retry", {}) EXCEPT !.receipt = retained[p].receipt])
    /\ UNCHANGED <<rows, faults, job, retained, constructionVars>>

\* retry_build: the builder's publication first, by its caller or for the construction.
RetryBuild(p) ==
    /\ retained[p] # Nothing /\ retained[p].job[1] = "build"
    /\ Begin(p, "build publish",
             [Working(retained[p].job[2], "build", {}) EXCEPT
                 !.receipt = retained[p].receipt, !.nonce = retained[p].nonce])
    /\ UNCHANGED <<rows, faults, job, retained, constructionVars>>

--------------------------------------------------------------------------

Next == \E p \in Process :
    \/ \E r \in Revision : \/ \E goal \in {"screen", "construct"} : Screen(p, r, goal)
                           \/ BuildDirectly(p, r) \/ RecoverSource(p, r) \/ RecoverConstruct(p, r)
    \/ SourceLookUp(p) \/ SourceEnqueue(p) \/ SourceClaim(p) \/ SourceIntent(p)
    \/ SourceDecide(p) \/ SourcePublish(p) \/ SourceFinish(p)
    \/ ConstructEnqueue(p) \/ ConstructClaim(p) \/ ConstructIntent(p) \/ Execute(p)
    \/ Take(p) \/ ConstructPublish(p) \/ ConstructFinish(p)
    \/ BuildEnqueue(p) \/ BuildClaim(p) \/ BuildClaimAgain(p) \/ BuildDraw(p) \/ BuildObserve(p)
    \/ Assemble(p) \/ BuildPublish(p) \/ BuildFinish(p) \/ BuildRecover(p)
    \/ RetryPublication(p) \/ RetryBuild(p)
    \/ Crash(p) /\ UNCHANGED constructionVars

Spec == Init /\ [][Next]_vars

--------------------------------------------------------------------------

\* The original costs of a candidate are imported once, whatever revisions of the
\* Factory screen it.
ImportedOnce == Cardinality({r \in Revision : rows[SourceJob(r)] # <<>>}) <= 1

\* A build assembles its package at most once, however often its claim is replayed.
AssembledOnce == \A r \in Revision : assembled[r] <= 1

\* A completed construction accounts its own outcome, which is the result its builder's
\* job completed with, and that job accounts it too.
ConstructionBindsBuild == \A r \in Revision :
    LET construction == job[ConstructJob(r)]
        build == job[BuildJob(r)] IN
    construction.state = "completed" =>
        /\ construction.result \in construction.bound
        /\ eligible
        /\ inputs = "match" => /\ build.state = "completed"
                               /\ build.result = Value(construction.result)
                               /\ build.result \in build.bound
=============================================================================

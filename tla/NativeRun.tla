----------------------------- MODULE NativeRun -----------------------------
(***************************************************************************)
(* agents/native_service.py, NativeRunService: the outer run job of an     *)
(* assigned episode.  It owns a native session, activates the policy in    *)
(* it, runs one AgentRunner episode as a child job, closes the session and *)
(* completes with the child's result.  recover finishes what is frozen or  *)
(* retained, never starting a session or an episode.                       *)
(*                                                                         *)
(* Processes are commands or services given the same request; the claim's  *)
(* key is the job's, so they all get the same claim.  A process that dies  *)
(* loses its session and everything retained.                              *)
(***************************************************************************)
EXTENDS NativeSession, AgentRun, TLC

CONSTANT MaxRecoveries

VARIABLES
    job,        \* the outer job
    parent,     \* what the service of a process remembers of it, self._states
    recoveries

parentVars == <<job, parent, recoveries>>
vars == <<ledgerVars, sessionVars, runVars, parentVars>>

Request == <<"parent", 0>>
Activation == <<"activation", 0>>
Child == <<"child", 0>>
Rows == RunRows \cup SessionRows \cup {Request, Activation, Child}

\* then: what follows the close of the session.
Unknown == [known |-> FALSE, intent |-> Nothing, child |-> Nothing, pending |-> Nothing,
            then |-> "raise"]

Init ==
    /\ rows = [r \in Rows |-> <<>>]
    /\ pc = [p \in Process |-> "idle"]
    /\ faults = 0
    /\ SessionInit
    /\ RunInit
    /\ job = [state |-> "absent", result |-> Nothing]
    /\ parent = [p \in Process |-> Unknown]
    /\ recoveries = 0

\* The call of p is over.
Return(p) == Goto(p, "idle")

Remember(p, field, value) == parent' = [parent EXCEPT ![p][field] = value]

\* An error inside run: close the session, then raise.
Unwind(p) == Goto(p, "close") /\ Remember(p, "then", "raise")

--------------------------------------------------------------------------
(* run. *)

Run(p) ==
    /\ At(p, "idle")
    /\ job.state \in {"absent", "queued"}
    /\ session[p] # "live"
    /\ Call(p, job' = [job EXCEPT !.state = "queued"], UNCHANGED job, "claim", "idle")
    /\ UNCHANGED <<rows, sessionVars, runVars, parent, recoveries>>

\* The key is the job's: a second process is given the claim of the first.
Claim(p) ==
    /\ At(p, "claim")
    /\ IF job.state = "completed"
       THEN Return(p) /\ UNCHANGED <<job, faults>>
       ELSE Call(p, job' = [job EXCEPT !.state = "running"], UNCHANGED job, "parent", "idle")
    /\ parent' = [parent EXCEPT ![p].known = pc'[p] = "parent"]
    /\ UNCHANGED <<rows, sessionVars, runVars, recoveries>>

\* The first row of the claim, outside the try block.
AnnounceParent(p) ==
    /\ At(p, "parent")
    /\ Observe(p, Request, 1, {Receipt("request", 0)}, "create", "idle")
    /\ UNCHANGED <<sessionVars, runVars, parentVars>>

StartupFailed(p) ==
    /\ At(p, "startup failed")
    /\ Unwind(p)
    /\ UNCHANGED <<rows, faults, sessionVars, runVars, job, recoveries>>

AnnounceActivation(p) ==
    /\ At(p, "startup done")
    /\ Observe(p, Activation, 1, {Receipt("startup", p)}, "activate", "unwind")
    /\ UNCHANGED <<sessionVars, runVars, parentVars>>

\* The policy is loaded and probed, or not.
Activate(p) ==
    /\ At(p, "activate")
    /\ \E label \in {"publish activation", "unwind"} : Goto(p, label)
    /\ UNCHANGED <<rows, faults, sessionVars, runVars, parentVars>>

PublishActivation(p) ==
    /\ At(p, "publish activation")
    /\ Observe(p, Activation, 2, {Receipt("startup", p), Receipt("activation", p)}, "assign", "unwind")
    /\ UNCHANGED <<sessionVars, runVars, parentVars>>

\* The child's assignment names the activation.
Assign(p) ==
    /\ At(p, "assign")
    /\ Observe(p, Child, 1, {Receipt("intent", p)}, "assigned", "unwind")
    /\ Remember(p, "intent", Receipt("intent", p))
    /\ UNCHANGED <<sessionVars, runVars, job, recoveries>>

\* The activation still holds and the task is still released, or not.
StartChild(p) ==
    /\ At(p, "assigned")
    /\ \E label \in {"run", "unwind"} : Goto(p, label)
    /\ UNCHANGED <<rows, faults, sessionVars, runVars, parentVars>>

UnwindRun(p) ==
    /\ At(p, "unwind")
    /\ Unwind(p)
    /\ UNCHANGED <<rows, faults, sessionVars, runVars, job, recoveries>>

--------------------------------------------------------------------------
(* The child's answer, in run and in recover. *)

ChildReturned(p) ==
    /\ At(p, "run returned")
    /\ Goto(p, "publish child")
    /\ Remember(p, "child", run.result)
    /\ UNCHANGED <<rows, faults, sessionVars, runVars, job, recoveries>>

\* Mutant: what could not be published is taken for the child's result.
ChildRaisedTakesPayload(p) ==
    /\ At(p, "run raised")
    /\ IF parent[p].then = "recover"
       THEN Return(p) /\ UNCHANGED parent
       ELSE /\ Goto(p, "close")
            /\ Remember(p, "child", me[p].payload)
    /\ UNCHANGED <<rows, faults, sessionVars, runVars, job, recoveries>>

\* run keeps the pending publication it is raised, recover does not.
ChildRaised(p) ==
    /\ At(p, "run raised")
    /\ IF parent[p].then = "recover"
       THEN Return(p) /\ UNCHANGED parent
       ELSE /\ Goto(p, "close")
            /\ Remember(p, "pending", IF held[p] = <<>> THEN Nothing ELSE Head(held[p]))
    /\ UNCHANGED <<rows, faults, sessionVars, runVars, job, recoveries>>

PublishChild(p) ==
    /\ At(p, "publish child")
    /\ Observe(p, Child, 2, {parent[p].intent, Receipt("outcome", parent[p].child)},
               IF parent[p].then = "recover" THEN "finish" ELSE "close and finish",
               IF parent[p].then = "recover" THEN "idle" ELSE "unwind")
    /\ UNCHANGED <<sessionVars, runVars, parentVars>>

CloseAndFinish(p) ==
    /\ At(p, "close and finish")
    /\ Goto(p, "close")
    /\ Remember(p, "then", "finish")
    /\ UNCHANGED <<rows, faults, sessionVars, runVars, job, recoveries>>

CloseFailed(p) ==
    /\ At(p, "close failed")
    /\ Return(p)
    /\ UNCHANGED <<rows, faults, sessionVars, runVars, parentVars>>

CloseDone(p) ==
    /\ At(p, "close done")
    /\ Goto(p, CASE parent[p].then = "finish"  -> "finish"
                 [] parent[p].then = "recover" -> "recover"
                 [] OTHER                      -> "idle")
    /\ UNCHANGED <<rows, faults, sessionVars, runVars, parentVars>>

\* Mutant: the shutdown is not asked for.
FinishRegardless(p) ==
    /\ At(p, "finish")
    /\ LET completed == [state |-> "completed", result |-> parent[p].child] IN
       IF job.state = "completed"
       THEN Return(p) /\ UNCHANGED <<job, faults>>
       ELSE Call(p, job' = completed, UNCHANGED job, "idle", "idle")
    /\ UNCHANGED <<rows, sessionVars, runVars, parent, recoveries>>

\* _finish: one confirmed shutdown, then completion with the child's result.
Finish(p) ==
    /\ At(p, "finish")
    /\ LET completed == [state |-> "completed", result |-> parent[p].child] IN
       IF Cardinality(Shutdowns) = 1 /\ job.state # "completed"
       THEN Call(p, job' = completed, UNCHANGED job, "idle", "idle")
       ELSE Return(p) /\ UNCHANGED <<job, faults>>
    /\ UNCHANGED <<rows, sessionVars, runVars, parent, recoveries>>

--------------------------------------------------------------------------
(* recover. *)

\* What the service still owns is closed first.
Recover(p) ==
    /\ At(p, "idle")
    /\ job.state \in {"running", "completed"}
    /\ recoveries < MaxRecoveries
    /\ recoveries' = recoveries + 1
    /\ Goto(p, IF parent[p].known THEN "close" ELSE "recover")
    /\ Remember(p, "then", "recover")
    /\ UNCHANGED <<rows, faults, sessionVars, runVars, job>>

\* Without memory of the job: the assigned child's outcome, frozen or completed.
RecoverDurable(p) ==
    /\ At(p, "recover") /\ job.state # "completed"
    /\ ~parent[p].known
    /\ \E intent \in Newest(Child) :
          /\ intent[1] = "intent"
          /\ \E result \in IF Len(rows[Child]) = 2
                           THEN {r[2] : r \in {x \in Newest(Child) : x[1] = "outcome"}}
                           ELSE {r \in {run.result} : run.state = "completed"} :
                parent' = [parent EXCEPT ![p].known = TRUE, ![p].intent = intent, ![p].child = result]
    /\ Goto(p, "publish child")
    /\ UNCHANGED <<rows, faults, sessionVars, runVars, job, recoveries>>

\* With memory: the child's result, or its pending publication.
RecoverChild(p) ==
    /\ At(p, "recover") /\ job.state # "completed"
    /\ parent[p].known /\ parent[p].child # Nothing
    /\ Goto(p, "publish child")
    /\ UNCHANGED <<rows, faults, sessionVars, runVars, parentVars>>

RetryChild(p) ==
    /\ At(p, "recover") /\ job.state # "completed"
    /\ parent[p].known /\ parent[p].child = Nothing /\ parent[p].pending # Nothing
    /\ \/ RetryPublication(p, parent[p].pending)
       \/ parent[p].pending.kind \notin Pendings /\ RecoverRun(p)
    /\ UNCHANGED <<sessionVars, parentVars>>

NothingToRecover(p) ==
    /\ At(p, "recover")
    /\ \/ job.state = "completed"
       \/ parent[p].known /\ parent[p].child = Nothing /\ parent[p].pending = Nothing
       \/ ~parent[p].known /\ (rows[Child] = <<>> \/ (Len(rows[Child]) = 1 /\ run.state # "completed"))
    /\ Return(p)
    /\ UNCHANGED <<rows, faults, sessionVars, runVars, parentVars>>

\* The process dies, with its session and everything it kept.
Crash(p) ==
    /\ ~At(p, "idle") \/ parent[p] # Unknown
    /\ faults < MaxFaults
    /\ faults' = faults + 1
    /\ Return(p)
    /\ parent' = [parent EXCEPT ![p] = Unknown]
    /\ session' = [session EXCEPT ![p] = "none"]
    /\ noted' = [noted EXCEPT ![p] = FALSE]
    /\ aborting' = [aborting EXCEPT ![p] = FALSE]
    /\ me' = [me EXCEPT ![p] = Fresh]
    /\ held' = [held EXCEPT ![p] = <<>>]
    /\ UNCHANGED <<rows, started, run, calls, verdicts, retries, job, recoveries>>

SessionStep(p) ==
    \/ CheckKey(p) \/ AnnounceStartup(p) \/ Construct(p) \/ PublishStartup(p)
    \/ Close(p) \/ AnnounceShutdown(p) \/ CloseSession(p) \/ PublishShutdown(p)

RunStep(p) ==
    \/ EnterRun(p) \/ ClaimRun(p) \/ AnnounceRun(p) \/ Turn(p) \/ Announce(p)
    \/ DispatchEpisode(p) \/ DispatchGrade(p) \/ Record(p)
    \/ AfterGeneration(p) \/ AfterAction(p) \/ CloseWorkspace(p) \/ Submit(p)
    \/ StartGrade(p) \/ RecordRecovered(p) \/ AfterGrade(p)
    \/ Undecided(p) \/ Freeze(p) \/ Gather(p) \/ Publish(p) \/ FinishRun(p) \/ Raise(p)

ParentStep(p) ==
    \/ Run(p) \/ Claim(p) \/ AnnounceParent(p) \/ StartupFailed(p)
    \/ AnnounceActivation(p) \/ Activate(p) \/ PublishActivation(p)
    \/ Assign(p) \/ StartChild(p) \/ UnwindRun(p)
    \/ ChildReturned(p) \/ ChildRaised(p) \/ PublishChild(p) \/ CloseAndFinish(p)
    \/ CloseFailed(p) \/ CloseDone(p) \/ Finish(p)
    \/ Recover(p) \/ RecoverDurable(p) \/ RecoverChild(p) \/ RetryChild(p) \/ NothingToRecover(p)
    \/ Crash(p)

Next == \E p \in Process :
    \/ SessionStep(p) /\ UNCHANGED <<runVars, parentVars>>
    \/ RunStep(p) /\ UNCHANGED <<sessionVars, parentVars>>
    \/ ParentStep(p)

Spec == Init /\ [][Next]_vars

--------------------------------------------------------------------------
(* Properties. *)

\* No policy call, action or grading is executed twice, by whatever process and however
\* often its publication is retried (runner.py:180, "Exactly once").
CalledOnce == \A ph \in Phase : calls[ph] <= 1

\* A submission is graded again only after a recorded infrastructure verdict.
GradedAgainOnInfrastructure ==
    \A i \in 1..Gradings - 1 :
        calls[<<"grade", i>>] > 0 =>
            \E r \in Newest(<<"grade", i - 1>>) : r[1] = "result" /\ r[2].verdict = "infrastructure"

\* The result recorded for a grading is what the grader decided in that grading.
GradeAttributed ==
    \A i \in 0..Gradings - 1 : \A r \in Newest(<<"grade", i>>) :
        r[1] = "result" => r[2] = Grade(i, verdicts[i])

\* It is what the grader decided in that grading or, in a second retry, in one before: the
\* service still holds the exception of the first (native_service.py:124).
GradeTraced ==
    \A i \in 0..Gradings - 1 : \A r \in Newest(<<"grade", i>>) :
        r[1] = "result" =>
            \E k \in 0..i : r[2] = Grade(k, verdicts[k]) /\ (retries <= 1 => k = i)

\* A completed run that was measured has recorded every phase it announced, and its reward
\* is the last grading's.
RewardAccounted ==
    run.state = "completed" /\ run.result.outcome.verdict \in Rewarded =>
        /\ \A ph \in Phase : Len(rows[ph]) # 1
        /\ \E i \in 0..Gradings - 1 :
              /\ run.result.outcome = Grade(i, verdicts[i])
              /\ \A k \in i + 1..Gradings - 1 : calls[<<"grade", k>>] = 0

\* Policy calls happen only in a process with a live session that the job's accounting names.
EpisodeInSession ==
    \A p \in Process :
        At(p, "turn") \/ (At(p, "dispatched") /\ me[p].phase[1] # "grade") =>
            session[p] = "live" /\ Receipt("startup", p) \in Newest(Startup)

\* The outer job's result is its assigned child's, as frozen.
ParentBindsChild ==
    job.state = "completed" =>
        /\ run.state = "completed" /\ job.result = run.result
        /\ Newest(Frozen) = {Receipt("frozen", job.result)}
        /\ Receipt("outcome", job.result) \in Newest(Child)

\* The outer job completes only when no process holds a session for it ("Native ownership
\* closes before parent completion", docs/interfaces-M7.md).
OwnershipClosed == job.state = "completed" => Holders = {}

\* So it is whenever only one session was ever started.
SoleOwnerClosed == started <= 1 => OwnershipClosed

\* The gradings and the reward, whoever published them (runner.py:361-405): graded again only
\* for cause, each result its own grading's, the reward the last one's.
GradeAccounted == GradedAgainOnInfrastructure /\ GradeTraced /\ RewardAccounted

\* The episode and its parent (native_service.py:75-220): sampled in a session on record,
\* completed with the child's result, and with no session left.
SessionBound == EpisodeInSession /\ ParentBindsChild /\ SoleOwnerClosed

\* Nothing tells one process from another.
Symmetry == Permutations(Process)
=============================================================================

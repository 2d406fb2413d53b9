------------------------------ MODULE AgentRun ------------------------------
(***************************************************************************)
(* agents/runner.py, AgentRunner: one agent episode and its grading as a   *)
(* registry job of a single attempt.  Every policy call, worker action and *)
(* grading is announced in the job's accounting, called exactly once and   *)
(* recorded with its result; the outcome is frozen before the job is       *)
(* completed.  What fails after the workspace was closed is kept in memory *)
(* as a publication that can be tried again; what fails before is decided  *)
(* as an infrastructure outcome, or left for reconciliation.               *)
(*                                                                         *)
(* Abstracted: contexts, tokens, budgets and costs.  A turn is a policy    *)
(* call and perhaps an action; limits end the episode at any turn.  The    *)
(* grader (grading/service.py) is what it answers: a verdict, or a verdict *)
(* whose publication failed.                                               *)
(***************************************************************************)
EXTENDS JobLedger, FiniteSets

CONSTANTS MaxTurns,     \* policy calls of an episode
          Gradings,     \* gradings of a submission; 3 in the code
          Nothing

ASSUME CountsAssumption == MaxTurns \in Nat /\ Gradings \in Nat \ {0}

Verdict == {"success", "rejected", "invalid", "infrastructure"}
Rewarded == {"success", "rejected"}     \* rewards 1 and 0; the others have none

Phase == {"generation", "action"} \X (0..MaxTurns - 1) \cup {"grade"} \X (0..Gradings - 1)
Controller == <<"controller", 0>>
Frozen == <<"freeze", 0>>
RunRows == Phase \cup {Controller, Frozen}

VARIABLES
    run,        \* [state, result] of the run job
    me,         \* the state a process keeps of the episode it runs
    held,       \* pending publications raised in a process, oldest first
    calls,      \* per phase: how often it was executed
    verdicts,   \* per grading: what the grader decided
    retries     \* calls of retry_publication so far

runVars == <<run, me, held, calls, verdicts, retries>>

\* turn and index count the episode's turns and gradings; stamp tells one announcement
\* from another (they are dated); intent is state['grade_intent']; recovered is a grade
\* whose publication was retried; outcome what is to be frozen; payload what is frozen.
Fresh == [phase |-> Nothing, turn |-> 0, index |-> 0, stamp |-> 0, intent |-> 0,
          result |-> Nothing, recovered |-> Nothing, outcome |-> Nothing, payload |-> Nothing,
          entry |-> "run"]

RunInit ==
    /\ run = [state |-> "absent", result |-> Nothing]
    /\ me = [p \in Process |-> Fresh]
    /\ held = [p \in Process |-> <<>>]
    /\ calls = [ph \in Phase |-> 0]
    /\ verdicts = [i \in 0..Gradings - 1 |-> Nothing]
    /\ retries = 0

\* A grading's verdict; grade 0 of the rest is an episode that was never graded.
Grade(i, v) == [grading |-> i, verdict |-> v]
Ungraded(v) == [grading |-> Nothing, verdict |-> v]

Mine(p, field, value) == me' = [me EXCEPT ![p][field] = value]

--------------------------------------------------------------------------
(* run: the job and its one claim. *)

EnterRun(p) ==
    /\ At(p, "run")
    /\ CASE run.state = "completed" -> Goto(p, "run returned") /\ UNCHANGED <<run, faults>>
         [] run.state = "running"   -> Goto(p, "elsewhere") /\ UNCHANGED <<run, faults>>
         [] OTHER -> Call(p, run' = [run EXCEPT !.state = "queued"], UNCHANGED run, "claim run", "run raised")
    /\ me' = [me EXCEPT ![p] = Fresh]
    /\ UNCHANGED <<rows, held, calls, verdicts, retries>>

\* The claim's key is new, so of two processes one is refused.
ClaimRun(p) ==
    /\ At(p, "claim run")
    /\ IF run.state = "queued"
       THEN Call(p, run' = [run EXCEPT !.state = "running"], UNCHANGED run, "controller", "run raised")
       ELSE Goto(p, "run raised") /\ UNCHANGED <<run, faults>>
    /\ UNCHANGED <<rows, me, held, calls, verdicts, retries>>

AnnounceRun(p) ==
    /\ At(p, "controller")
    /\ Observe(p, Controller, 1, {Receipt("request", 0)}, "turn", "run raised")
    /\ UNCHANGED runVars

--------------------------------------------------------------------------
(* The episode. *)

\* The loop's head: refused (admission, policy), out of a limit, or another policy call.
Turn(p) ==
    /\ At(p, "turn")
    /\ \/ \E label \in {"invalid", "infrastructure", "close workspace"} :
             Goto(p, label) /\ UNCHANGED me
       \/ /\ me[p].turn < MaxTurns
          /\ Goto(p, "announce")
          /\ Mine(p, "phase", <<"generation", me[p].turn>>)
    /\ UNCHANGED <<rows, faults, run, held, calls, verdicts, retries>>

\* Mutant: the call is made whether or not it could be announced.
AnnounceBestEffort(p) ==
    /\ At(p, "announce")
    /\ Observe(p, me[p].phase, 1, {Receipt("intent", me[p].stamp)}, "dispatched", "dispatched")
    /\ UNCHANGED runVars

\* _phase: the announcement, whose refusal in run is an infrastructure outcome.
Announce(p) ==
    /\ At(p, "announce")
    /\ Observe(p, me[p].phase, 1, {Receipt("intent", me[p].stamp)}, "dispatched",
               IF me[p].entry = "run" THEN "infrastructure" ELSE "run raised")
    /\ UNCHANGED runVars

\* _phase: the call itself.
DispatchEpisode(p) ==
    /\ At(p, "dispatched") /\ me[p].phase[1] # "grade"
    /\ calls' = [calls EXCEPT ![me[p].phase] = @ + 1]
    /\ \/ Goto(p, "record") /\ \E r \in {"good", "bad"} : Mine(p, "result", r)
       \/ Goto(p, "infrastructure") /\ UNCHANGED me
    /\ UNCHANGED <<rows, faults, run, held, verdicts, retries>>

\* Mutant: the retained receipt is made before the workspace is closed.
DispatchGradeEarlyReceipt(p) ==
    /\ At(p, "dispatched") /\ me[p].phase[1] = "grade"
    /\ calls' = [calls EXCEPT ![me[p].phase] = @ + 1]
    /\ \E v \in Verdict : verdicts' = [verdicts EXCEPT ![me[p].index] = v]
    /\ \/ /\ me' = [me EXCEPT ![p].result = Grade(me[p].index, verdicts'[me[p].index])]
          /\ Goto(p, "record") /\ UNCHANGED faults
       \/ /\ faults < MaxFaults /\ faults' = faults + 1
          /\ me' = [me EXCEPT ![p].result = Grade(me[p].index, "success"), ![p].intent = me[p].stamp]
          /\ Goto(p, "grade pending")
    /\ UNCHANGED <<rows, run, held, retries>>

\* The grader decides; its receipt is published, or retained by GradePublicationFailed.
DispatchGrade(p) ==
    /\ At(p, "dispatched") /\ me[p].phase[1] = "grade"
    /\ calls' = [calls EXCEPT ![me[p].phase] = @ + 1]
    /\ \E v \in Verdict : verdicts' = [verdicts EXCEPT ![me[p].index] = v]
    /\ LET g == Grade(me[p].index, verdicts'[me[p].index]) IN
          \/ /\ me' = [me EXCEPT ![p].result = g]
             /\ Goto(p, "record") /\ UNCHANGED faults
          \/ /\ faults < MaxFaults /\ faults' = faults + 1
             /\ me' = [me EXCEPT ![p].result = g, ![p].intent = me[p].stamp]
             /\ Goto(p, "grade pending")
    /\ UNCHANGED <<rows, run, held, retries>>

\* Mutant: the episode goes on though its accounting is behind.
RecordBestEffort(p) ==
    /\ At(p, "record")
    /\ Observe(p, me[p].phase, 2, {Receipt("intent", me[p].stamp), Receipt("result", me[p].result)},
               "recorded", "recorded")
    /\ UNCHANGED runVars

\* _phase: the result; if it cannot be recorded the work is left for reconciliation.
Record(p) ==
    /\ At(p, "record")
    /\ Observe(p, me[p].phase, 2, {Receipt("intent", me[p].stamp), Receipt("result", me[p].result)},
               "recorded", "unconfirmed")
    /\ UNCHANGED runVars

\* A returned policy call is an action, the end of the episode or no valid sample.
AfterGeneration(p) ==
    /\ At(p, "recorded") /\ me[p].phase[1] = "generation"
    /\ IF me[p].result = "bad"
       THEN (\E label \in {"invalid", "infrastructure"} : Goto(p, label)) /\ UNCHANGED me
       ELSE \/ Goto(p, "close workspace") /\ UNCHANGED me
            \/ Goto(p, "announce") /\ Mine(p, "phase", <<"action", me[p].turn>>)
    /\ UNCHANGED <<rows, faults, run, held, calls, verdicts, retries>>

\* An action whose worker failed, or was not cleaned up, ends the episode.
AfterAction(p) ==
    /\ At(p, "recorded") /\ me[p].phase[1] = "action"
    /\ IF me[p].result = "bad"
       THEN Goto(p, "infrastructure") /\ UNCHANGED me
       ELSE Goto(p, "turn") /\ Mine(p, "turn", me[p].turn + 1)
    /\ UNCHANGED <<rows, faults, run, held, calls, verdicts, retries>>

\* The workspace is closed, its source saved and the submission made from it.
CloseWorkspace(p) ==
    /\ At(p, "close workspace")
    /\ \E label \in {"submit", "infrastructure"} : Goto(p, label)
    /\ UNCHANGED <<rows, faults, runVars>>

\* A task no longer released, or a call that failed: decided in run, raised in a retry.
Refused(p) == Goto(p, IF me[p].entry = "run" THEN "invalid" ELSE "run raised")
Failed(p) ==
    /\ faults < MaxFaults
    /\ faults' = faults + 1
    /\ Goto(p, IF me[p].entry = "run" THEN "infrastructure" ELSE "run raised")

Submit(p) ==
    /\ At(p, "submit")
    /\ \/ Refused(p) /\ UNCHANGED faults
       \/ Call(p, TRUE, TRUE, "grade", "submission pending")
    /\ UNCHANGED <<rows, runVars>>

--------------------------------------------------------------------------
(* _after_saved: grading, from index grade_index on. *)

StartGrade(p) ==
    /\ At(p, "grade")
    /\ \/ Refused(p) /\ UNCHANGED me
       \/ /\ me[p].recovered = Nothing
          /\ Goto(p, "announce")
          /\ Mine(p, "phase", <<"grade", me[p].index>>)
       \/ /\ me[p].recovered # Nothing
          /\ Goto(p, "record recovered")
          /\ me' = [me EXCEPT ![p].phase = <<"grade", me[p].index>>,
                              ![p].result = me[p].recovered, ![p].recovered = Nothing]
    /\ UNCHANGED <<rows, faults, run, held, calls, verdicts, retries>>

\* A grade whose publication was retried is recorded with the announcement kept for it.
RecordRecovered(p) ==
    /\ At(p, "record recovered")
    /\ Observe(p, me[p].phase, 2, {Receipt("intent", me[p].intent), Receipt("result", me[p].result)},
               "recorded", "run raised")
    /\ UNCHANGED runVars

\* Mutant: a grade without a reward is tried again.
GradeAgainWithoutReward(p) ==
    me[p].result.verdict \notin Rewarded /\ me[p].index < Gradings - 1

\* An infrastructure verdict is tried again, the same source and seed; any other decides.
GradeAgain(p) ==
    me[p].result.verdict = "infrastructure" /\ me[p].index < Gradings - 1

\* The recorded grade is read back, and the task looked at once more before a decision.
AfterGrade(p) ==
    /\ At(p, "recorded") /\ me[p].phase[1] = "grade"
    /\ \/ Failed(p) /\ UNCHANGED me
       \/ /\ GradeAgain(p)
          /\ Goto(p, "grade") /\ UNCHANGED faults
          /\ Mine(p, "index", me[p].index + 1)
       \/ /\ ~GradeAgain(p) /\ UNCHANGED faults
          /\ \/ Refused(p) /\ UNCHANGED me
             \/ Goto(p, "freeze") /\ Mine(p, "outcome", me[p].result)
    /\ UNCHANGED <<rows, run, held, calls, verdicts, retries>>

--------------------------------------------------------------------------
(* _freeze, _publish and _finish. *)

\* No measured outcome.
Undecided(p) ==
    /\ pc[p] \in {"invalid", "infrastructure"}
    /\ Goto(p, "freeze")
    /\ Mine(p, "outcome", Ungraded(pc[p]))
    /\ UNCHANGED <<rows, faults, run, held, calls, verdicts, retries>>

Freeze(p) ==
    /\ At(p, "freeze")
    /\ Observe(p, Controller, 2, {Receipt("request", 0), Receipt("outcome", me[p].outcome)}, "gather", "freeze pending")
    /\ UNCHANGED runVars

\* The frozen run binds the outcome and the snapshots of all rows at this moment.
Gather(p) ==
    /\ At(p, "gather")
    /\ Goto(p, "publish")
    /\ Mine(p, "payload", [outcome |-> me[p].outcome, snapshots |-> [r \in RunRows |-> Len(rows[r])]])
    /\ UNCHANGED <<rows, faults, run, held, calls, verdicts, retries>>

Publish(p) ==
    /\ At(p, "publish")
    /\ Observe(p, Frozen, 1, {Receipt("frozen", me[p].payload)}, "finish run", "publication pending")
    /\ UNCHANGED runVars

\* Registry.complete, once; in recover a failure is raised as it is.
FinishRun(p) ==
    /\ At(p, "finish run")
    /\ LET completed == [state |-> "completed", result |-> me[p].payload] IN
       IF run.state = "completed"
       THEN Goto(p, "run returned") /\ UNCHANGED <<run, faults>>
       ELSE Call(p, run' = completed, UNCHANGED run, "run returned",
                 IF me[p].entry = "recover" THEN "run raised" ELSE "publication pending")
    /\ UNCHANGED <<rows, me, held, calls, verdicts, retries>>

--------------------------------------------------------------------------
(* What a failed call leaves behind, and what takes it up. *)

Pendings == {"submission pending", "grade pending", "freeze pending", "publication pending"}

\* RunRecoveryRequired and its kinds.  The episode's state goes with the exception; it is
\* one object, which later calls go on changing.
Raise(p) ==
    /\ pc[p] \in Pendings \cup {"unconfirmed", "elsewhere"}
    /\ held' = [held EXCEPT ![p] = Append(@,
                   [kind |-> pc[p], grade |-> me[p].result, outcome |-> me[p].outcome,
                    payload |-> me[p].payload])]
    /\ Goto(p, "run raised")
    /\ UNCHANGED <<rows, faults, run, me, calls, verdicts, retries>>

\* retry_publication of a pending publication of this process.
RetryPublication(p, pending) ==
    /\ pending.kind \in Pendings
    /\ retries' = retries + 1
    /\ LET again == [me[p] EXCEPT !.entry = "retry", !.stamp = retries'] IN
       CASE run.state = "completed" -> Goto(p, "run returned") /\ UNCHANGED <<me, faults>>
         [] pending.kind = "submission pending" /\ run.state # "completed" ->
              Goto(p, "submit") /\ me' = [me EXCEPT ![p] = again] /\ UNCHANGED faults
         [] pending.kind = "freeze pending" /\ run.state # "completed" ->
              /\ Goto(p, "freeze") /\ UNCHANGED faults
              /\ me' = [me EXCEPT ![p] = [again EXCEPT !.outcome = pending.outcome]]
         [] pending.kind = "publication pending" /\ run.state # "completed" ->
              /\ Goto(p, "publish") /\ UNCHANGED faults
              /\ me' = [me EXCEPT ![p] = [again EXCEPT !.payload = pending.payload]]
         [] OTHER ->
              /\ Call(p, TRUE, TRUE, "grade", "run raised")
              /\ me' = [me EXCEPT ![p] = [again EXCEPT !.recovered =
                           IF pc'[p] = "grade" THEN pending.grade ELSE Nothing]]
    /\ UNCHANGED <<rows, run, held, calls, verdicts>>

\* recover: only what was frozen.
RecoverRun(p) ==
    /\ \/ run.state = "completed" /\ Goto(p, "run returned") /\ UNCHANGED me
       \/ /\ run.state # "completed" /\ rows[Frozen] # <<>>
          /\ Goto(p, "finish run")
          /\ \E receipt \in Newest(Frozen) :
                me' = [me EXCEPT ![p].payload = receipt[2], ![p].entry = "recover"]
       \/ /\ run.state # "completed" /\ rows[Frozen] = <<>>
          /\ Goto(p, "run raised") /\ UNCHANGED me
    /\ UNCHANGED <<rows, faults, run, held, calls, verdicts, retries>>
=============================================================================

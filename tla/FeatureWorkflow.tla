-------------------------- MODULE FeatureWorkflow --------------------------
(***************************************************************************)
(* pipeline/workflow.py: the automatic construction of one feature         *)
(* request.  The job runs a fixed list of phases; each is announced in the *)
(* job's accounting before it runs and selected there afterwards, so that  *)
(* any later controller can go on from what is selected.  A phase is       *)
(* either external work, never repeated once announced, or a child job     *)
(* that recovers itself.                                                   *)
(*                                                                         *)
(* Controllers are CLI commands (construct, recover, retry-publication) in *)
(* processes of their own.  construct and recover hold the request's lock; *)
(* retry-publication does not.  The registry's own operations are atomic   *)
(* (RegistryStorage); between two of them anything may happen.             *)
(*                                                                         *)
(* Abstracted: an outcome is what decides the next phase and, for external *)
(* work, which execution made it.  Costs are left out: they are a function *)
(* of the outcome.  Quarantine of an input is one of the faults.           *)
(***************************************************************************)
EXTENDS Naturals, Sequences, FiniteSets

CONSTANTS Controller, None,
          Attempts,     \* authoring attempts of a contract; 3 in the code
          Refusals,     \* texts with which the authoring budget may refuse
          MaxCrashes, MaxFaults,
          MaxRevisions  \* a row this long is not published to again

ASSUME WorkflowAssumption ==
    /\ None \notin Controller
    /\ Attempts \in Nat \ {0}
    /\ MaxCrashes \in Nat
    /\ MaxFaults \in Nat
    /\ MaxRevisions \in Nat

Intake == 1
Source == 2
Preparation == 3
Author(i) == 3 + i
Reference == 4 + Attempts
Construction == 5 + Attempts
Phases == 1..Construction
Completion == Construction + 1      \* the row of the frozen result

External == {Intake, Preparation, Reference}
Authoring == {Author(i) : i \in 1..Attempts}
Children == Phases \ External

VARIABLES
    lock,       \* controller inside candidate_lock of the request
    job,        \* [state, result] of the construct job
    rows,       \* the job's accounting: per phase, the receipts of each revision
    child,      \* per child phase: its job's result, "pending" or "none"
    runs,       \* per external phase: how often its work was started
    me,         \* what each controller is doing
    retained,   \* payloads printed by failed publications
    crashes, faults

vars == <<lock, job, rows, child, runs, me, retained, crashes, faults>>

Idle == [pc |-> "idle", at |-> 0, out |-> None, row |-> <<>>, retry |-> FALSE]

\* What work of a phase may decide.  "success" goes on, "rejected" authors again,
\* "stop" ends the job.
Values(p) ==
    CASE p \in {Intake, Preparation} -> {"success"}
      [] p \in Authoring -> {"success", "rejected", "stop"}
      [] OTHER -> {"success", "stop"}

\* Outcomes of a phase; run is 0 unless the work is external.  A refusal has no artifacts.
Out(v, n) == [value |-> v, run |-> n]

\* The phase _execute takes up after phase p ended with value v.
After(p, v) ==
    CASE p = Intake -> Source
      [] p = Preparation -> Author(1)
      [] p \in Authoring /\ v = "success" -> Reference
      [] p \in Authoring /\ v = "rejected" /\ p # Author(Attempts) -> p + 1
      [] p = Source /\ v = "success" -> Preparation
      [] p = Reference /\ v = "success" -> Construction
      [] OTHER -> Completion

Receipts(row) == IF row = <<>> THEN {} ELSE row[Len(row)]
Selected(p) == Receipts(rows[p])
Announced == {p \in Phases : rows[p] # <<>>}
Steps == {<<p, o>> : p \in Phases, o \in UNION {Selected(q) : q \in Phases}}
SelectedSteps == {s \in Steps : s[2] \in Selected(s[1])}
Revisions == [p \in 1..Completion |-> Len(rows[p])]

Init ==
    /\ lock = None
    /\ job = [state |-> "absent", result |-> None]
    /\ rows = [p \in 1..Completion |-> <<>>]
    /\ child = [p \in Children |-> "none"]
    /\ runs = [p \in External |-> 0]
    /\ me = [c \in Controller |-> Idle]
    /\ retained = {}
    /\ crashes = 0
    /\ faults = 0

--------------------------------------------------------------------------
(* How a controller's call goes on or ends. *)

At(c, pc) == me[c].pc = pc
Goto(c, pc) == me' = [me EXCEPT ![c].pc = pc]

\* The call returns or raises; either way it leaves the lock if it held it.
End(c) ==
    /\ me' = [me EXCEPT ![c] = Idle]
    /\ lock' = IF lock = c THEN None ELSE lock

\* FactoryPublicationFailed: the payload is printed for retry-publication.
Pending(c) ==
    /\ retained' = retained \cup {[at |-> me[c].at, out |-> me[c].out]}
    /\ End(c)

\* Mutant: the outcome's disposition is not looked at.
GoOnRegardless(c, p, o) ==
    IF After(p, "success") = Completion
    THEN me' = [me EXCEPT ![c] = [Idle EXCEPT !.pc = "finish", !.at = p, !.out = o]]
    ELSE me' = [me EXCEPT ![c] = [Idle EXCEPT !.pc = "look", !.at = After(p, "success")]]

\* The call goes on with the phase after p, or has to publish the result o.
GoOn(c, p, o) ==
    IF After(p, o.value) = Completion
    THEN me' = [me EXCEPT ![c] = [Idle EXCEPT !.pc = "finish", !.at = p, !.out = o]]
    ELSE me' = [me EXCEPT ![c] = [Idle EXCEPT !.pc = "look", !.at = After(p, o.value)]]

--------------------------------------------------------------------------
(* construct and recover: the job and its claim. *)

Construct(c) ==
    /\ At(c, "idle") /\ lock = None
    /\ lock' = c
    /\ Goto(c, "enter")
    /\ UNCHANGED <<job, rows, child, runs, retained, crashes, faults>>

\* recover: the claim it is given exists.
Recover(c) ==
    /\ At(c, "idle") /\ lock = None
    /\ job.state = "running"
    /\ lock' = c
    /\ me' = [me EXCEPT ![c].pc = "look", ![c].at = Intake]
    /\ UNCHANGED <<job, rows, child, runs, retained, crashes, faults>>

Enqueue(c) ==
    /\ At(c, "enter") /\ job.state = "absent"
    /\ job' = [job EXCEPT !.state = "queued"]
    /\ UNCHANGED <<lock, rows, child, runs, me, retained, crashes, faults>>

\* The claim's key names the job, so a second controller gets the same claim.
Claim(c) ==
    /\ At(c, "enter") /\ job.state = "queued"
    /\ job' = [job EXCEPT !.state = "running"]
    /\ UNCHANGED <<lock, rows, child, runs, me, retained, crashes, faults>>

Enter(c) ==
    /\ At(c, "enter") /\ job.state = "running"
    /\ me' = [me EXCEPT ![c].pc = "look", ![c].at = Intake]
    /\ UNCHANGED <<lock, job, rows, child, runs, retained, crashes, faults>>

AlreadyCompleted(c) ==
    /\ job.state = "completed"
    /\ \/ At(c, "enter")
       \/ At(c, "look") /\ me[c].at = Intake
    /\ End(c)
    /\ UNCHANGED <<job, rows, child, runs, retained, crashes, faults>>

--------------------------------------------------------------------------
(* _step: one phase. *)

\* _check_step: a child's outcome is the result of its job.
Sound(p, o) == p \in Children /\ o.value \notin Refusals => o.value = child[p]

Replayable(p) == \E o \in Selected(p) : Selected(p) = {o} /\ Sound(p, o)

\* A selected phase is replayed.
Replay(c) ==
    LET p == me[c].at IN
    /\ At(c, "look")
    /\ p = Intake => job.state # "completed"
    /\ Replayable(p)
    /\ \E o \in Selected(p) : GoOn(c, p, o)
    /\ UNCHANGED <<lock, job, rows, child, runs, retained, crashes, faults>>

\* Mutant: the phase is called again whatever it is.
ResumeAny(c) ==
    LET p == me[c].at IN
    /\ At(c, "look")
    /\ rows[p] # <<>> /\ Selected(p) = {}
    /\ Goto(c, "call")
    /\ UNCHANGED <<lock, job, rows, child, runs, retained, crashes, faults>>

\* Announced and unresolved: a child is called again, external work never is.
Resume(c) ==
    LET p == me[c].at IN
    /\ At(c, "look")
    /\ rows[p] # <<>> /\ Selected(p) = {}
    /\ p \in Children
    /\ Goto(c, "call")
    /\ UNCHANGED <<lock, job, rows, child, runs, retained, crashes, faults>>

\* FeatureRecoveryRequired: external work without an outcome, or a selection in doubt.
Unresolved(c) ==
    LET p == me[c].at IN
    /\ At(c, "look")
    /\ rows[p] # <<>> /\ ~Replayable(p)
    /\ p \in External \/ Selected(p) # {}
    /\ End(c)
    /\ UNCHANGED <<job, rows, child, runs, retained, crashes, faults>>

\* Registry.reconcile of revision n of row p: contiguous, cumulative, and the same
\* call again returns what it recorded.
Reconciled(p, n, receipts) == n <= Len(rows[p]) /\ rows[p][n] = receipts
\* Mutant: the registry takes any revision.
AcceptableAny(p, n, receipts) == n > 0

Acceptable(p, n, receipts) == n = Len(rows[p]) + 1 /\ Selected(p) \subseteq receipts

Announce(c) ==
    LET p == me[c].at IN
    /\ At(c, "look")
    /\ rows[p] = <<>>
    /\ p = Intake => job.state # "completed"
    /\ rows' = [rows EXCEPT ![p] = <<{}>>]
    /\ Goto(c, "call")
    /\ UNCHANGED <<lock, job, child, runs, retained, crashes, faults>>

--------------------------------------------------------------------------
(* The work of a phase. *)

Decide(c, o) == me' = [me EXCEPT ![c].pc = "check", ![c].out = o]

\* External work ends with an outcome or with an exception.
RunExternal(c) ==
    LET p == me[c].at IN
    /\ At(c, "call") /\ p \in External
    /\ runs' = [runs EXCEPT ![p] = @ + 1]
    /\ \/ \E v \in Values(p) : Decide(c, Out(v, runs'[p])) /\ UNCHANGED lock
       \/ End(c)
    /\ UNCHANGED <<job, rows, child, retained, crashes, faults>>

\* The child's job is completed now or was before.
ChildAnswers(c) ==
    LET p == me[c].at IN
    /\ At(c, "call") /\ p \in Children
    /\ \E v \in (IF child[p] \in Values(p) THEN {child[p]} ELSE Values(p)) :
          /\ child' = [child EXCEPT ![p] = v]
          /\ Decide(c, Out(v, 0))
    /\ UNCHANGED <<lock, job, rows, runs, retained, crashes, faults>>

\* The child stays open, also after one recover of its claim.
ChildPending(c) ==
    LET p == me[c].at IN
    /\ At(c, "call") /\ p \in Children
    /\ child[p] \in {"none", "pending"}
    /\ child' = [child EXCEPT ![p] = "pending"]
    /\ End(c)
    /\ UNCHANGED <<job, rows, runs, retained, crashes, faults>>

\* AuthoringBudgetExceeded or AuthoringBudgetUnverified, before there is a job.
BudgetRefuses(c) ==
    LET p == me[c].at IN
    /\ At(c, "call") /\ p \in Authoring
    /\ child[p] = "none"
    /\ \E r \in Refusals : Decide(c, Out(r, 0))
    /\ UNCHANGED <<lock, job, rows, child, runs, retained, crashes, faults>>

\* Someone recovers a child's job directly.
Settle(p) ==
    /\ child[p] = "pending"
    /\ \E v \in Values(p) : child' = [child EXCEPT ![p] = v]
    /\ UNCHANGED <<lock, job, rows, runs, me, retained, crashes, faults>>

--------------------------------------------------------------------------
(* _publish_step: select the outcome.  The row is looked at first and then  *)
(* extended twice, each time from a reading of its own.                     *)

\* The row holds this very outcome already, or will.
Published(c) ==
    IF me[c].retry \/ me[c].at = Completion
    THEN End(c)
    ELSE GoOn(c, me[c].at, me[c].out) /\ UNCHANGED lock

CheckStep(c) ==
    LET p == me[c].at
        o == me[c].out
    IN
    /\ At(c, "check")
    /\ CASE Sound(p, o) /\ Selected(p) = {}  -> Goto(c, "read costs") /\ UNCHANGED lock
         [] Sound(p, o) /\ Selected(p) = {o} -> Published(c)
         [] OTHER                            -> End(c)
    /\ UNCHANGED <<job, rows, child, runs, retained, crashes, faults>>

\* _observe reads the row it is about to extend.
ReadRow(c) ==
    /\ \/ At(c, "read costs") /\ me' = [me EXCEPT ![c].pc = "costs", ![c].row = rows[me[c].at]]
       \/ At(c, "read step") /\ me' = [me EXCEPT ![c].pc = "step", ![c].row = rows[me[c].at]]
    /\ UNCHANGED <<lock, job, rows, child, runs, retained, crashes, faults>>

\* _observe extends what it read; the registry refuses what another extended meanwhile.
Extend(c, receipts, next) ==
    LET p == me[c].at
        n == Len(me[c].row) + 1
    IN
    /\ \/ /\ Reconciled(p, n, receipts)
          /\ me' = [me EXCEPT ![c].pc = next, ![c].row = <<>>]
          /\ UNCHANGED <<lock, rows, retained>>
       \/ /\ Acceptable(p, n, receipts)
          /\ rows' = [rows EXCEPT ![p] = Append(@, receipts)]
          /\ me' = [me EXCEPT ![c].pc = next, ![c].row = <<>>]
          /\ UNCHANGED <<lock, retained>>
       \/ /\ ~Reconciled(p, n, receipts) /\ ~Acceptable(p, n, receipts)
          /\ Pending(c)
          /\ UNCHANGED rows
    /\ UNCHANGED <<job, child, runs, crashes, faults>>

ExtendCosts(c) == At(c, "costs") /\ Extend(c, Receipts(me[c].row), "read step")

ExtendStep(c) ==
    /\ At(c, "step")
    /\ Extend(c, Receipts(me[c].row) \cup {me[c].out},
              IF me[c].at = Completion THEN "gather" ELSE "written")

Written(c) ==
    /\ At(c, "written")
    /\ Published(c)
    /\ UNCHANGED <<job, rows, child, runs, retained, crashes, faults>>

--------------------------------------------------------------------------
(* _finish and _publish_outcome: freeze the result, then complete the job.  *)

Finish(c) ==
    LET built == [selected |-> me[c].out, steps |-> SelectedSteps]
        frozen == Receipts(rows[Completion])
    IN
    /\ At(c, "finish")
    /\ IF rows[Completion] # <<>> /\ Cardinality(frozen) # 1
       THEN End(c)
       ELSE /\ \E outcome \in (IF rows[Completion] = <<>> THEN {built} ELSE frozen) :
                  me' = [me EXCEPT ![c].pc = "audit", ![c].at = Completion, ![c].out = outcome]
            /\ UNCHANGED lock
    /\ UNCHANGED <<job, rows, child, runs, retained, crashes, faults>>

\* Every announced phase has one outcome, the result binds them all, and it is the
\* outcome of the construction or of a phase that ended the job.
Presentable(outcome) ==
    /\ outcome.steps = SelectedSteps
    /\ \A p \in Announced : Cardinality(Selected(p)) = 1
    /\ \A s \in outcome.steps : Sound(s[1], s[2])
    /\ \E s \in outcome.steps :
          /\ s[2] = outcome.selected
          /\ s[1] = Construction \/ s[2].value # "success"

Audit(c) ==
    /\ At(c, "audit")
    /\ IF job.state # "completed" /\ Presentable(me[c].out)
       THEN Goto(c, "freeze") /\ UNCHANGED lock
       ELSE End(c)
    /\ UNCHANGED <<job, rows, child, runs, retained, crashes, faults>>

Freeze(c) ==
    LET frozen == Receipts(rows[Completion]) IN
    /\ At(c, "freeze")
    /\ CASE rows[Completion] = <<>>    -> Goto(c, "read step") /\ UNCHANGED <<lock, retained>>
         [] frozen = {me[c].out}       -> Goto(c, "gather") /\ UNCHANGED <<lock, retained>>
         [] OTHER                      -> Pending(c)
    /\ UNCHANGED <<job, rows, child, runs, crashes, faults>>

\* The current snapshot of every row, which the completion has to name.
Gather(c) ==
    /\ At(c, "gather")
    /\ me' = [me EXCEPT ![c].pc = "complete", ![c].row = Revisions]
    /\ UNCHANGED <<lock, job, rows, child, runs, retained, crashes, faults>>

\* Registry.complete: all current snapshots, once; the same call again returns.
Complete(c) ==
    LET result == [outcome |-> me[c].out, revisions |-> me[c].row] IN
    /\ At(c, "complete")
    /\ \/ /\ job.state = "running" /\ me[c].row = Revisions
          /\ job' = [state |-> "completed", result |-> result]
          /\ me' = [me EXCEPT ![c].pc = "written", ![c].row = <<>>]
          /\ UNCHANGED <<lock, retained>>
       \/ /\ job.state = "completed" /\ job.result = result
          /\ me' = [me EXCEPT ![c].pc = "written", ![c].row = <<>>]
          /\ UNCHANGED <<lock, job, retained>>
       \/ /\ IF job.state = "completed" THEN job.result # result ELSE me[c].row # Revisions
          /\ Pending(c)
          /\ UNCHANGED job
    /\ UNCHANGED <<rows, child, runs, crashes, faults>>

\* retry_publication: any printed payload, at any time, without the lock.
RetryPublication(c) ==
    /\ At(c, "idle")
    /\ \E payload \in {m \in retained : Len(rows[m.at]) < MaxRevisions} :
          me' = [me EXCEPT ![c] = [pc |-> IF payload.at = Completion THEN "audit" ELSE "check",
                                   at |-> payload.at, out |-> payload.out,
                                   row |-> <<>>, retry |-> TRUE]]
    /\ UNCHANGED <<lock, job, rows, child, runs, retained, crashes, faults>>

--------------------------------------------------------------------------
(* What may go wrong. *)

Publishing == {"read costs", "costs", "read step", "step", "written", "freeze", "gather", "complete"}

\* A registry or store call fails, or its answer is lost (the step before took effect).
\* Only publication keeps the payload.
Fault(c) ==
    /\ ~At(c, "idle")
    /\ faults < MaxFaults
    /\ faults' = faults + 1
    /\ IF me[c].pc \in Publishing THEN Pending(c) ELSE End(c) /\ UNCHANGED retained
    /\ UNCHANGED <<job, rows, child, runs, crashes>>

\* The process dies; what it printed stays.
Crash(c) ==
    /\ ~At(c, "idle")
    /\ crashes < MaxCrashes
    /\ crashes' = crashes + 1
    /\ End(c)
    /\ UNCHANGED <<job, rows, child, runs, retained, faults>>

Next ==
    \/ \E p \in Children : Settle(p)
    \/ \E c \in Controller :
          \/ Construct(c) \/ Recover(c) \/ Enqueue(c) \/ Claim(c) \/ Enter(c) \/ AlreadyCompleted(c)
          \/ Replay(c) \/ Resume(c) \/ Unresolved(c) \/ Announce(c)
          \/ RunExternal(c) \/ ChildAnswers(c) \/ ChildPending(c) \/ BudgetRefuses(c)
          \/ CheckStep(c) \/ ReadRow(c) \/ ExtendCosts(c) \/ ExtendStep(c) \/ Written(c)
          \/ Finish(c) \/ Audit(c) \/ Freeze(c) \/ Gather(c) \/ Complete(c)
          \/ RetryPublication(c) \/ Fault(c) \/ Crash(c)

Spec == Init /\ [][Next]_vars

--------------------------------------------------------------------------
(* Properties. *)

Outcomes == [value : {"success", "rejected", "stop"} \cup Refusals, run : {0, 1}]

ASSUME OutcomeAssumption == None \notin Outcomes

\* External work is started at most once for a request, whatever crashes, is retried
\* or runs beside it: _step refuses to repeat a phase that was announced (lines 137-138).
ExternalOnce == \A p \in External : runs[p] <= 1

\* A phase never has two selected outcomes (the code raises when it meets them,
\* line 133, and can then neither go on nor complete the job).
OneStep == \A p \in Phases : Cardinality(Selected(p)) <= 1

\* A budget refusal is the one outcome that another command may decide otherwise.
RefusalRetained == \E payload \in retained : payload.at \in Authoring /\ payload.out.value \in Refusals

\* As long as no refusal waits to be published, a recovery under the lock and any number of
\* retry-publications outside it never select two outcomes of a phase.
OneStepUnlessRefused == RefusalRetained \/ OneStep

\* No phase is announced before the selected outcomes of the earlier phases lead to it,
\* whoever wrote them.
PhasesInOrder ==
    \A p \in Announced \ {Intake} :
        \E q \in Announced : \E o \in Selected(q) : After(q, o.value) = p

\* An external outcome kept for retry-publication is the one that gets selected: a later
\* run of the workflow cannot put another in its place (_publish_step, lines 251-253).
PayloadStands ==
    \A payload \in retained :
        payload.at \in External => Selected(payload.at) \subseteq {payload.out}

\* A completed job's result binds every announced phase's one outcome, and so it stays,
\* whatever is published late (_publish_outcome, lines 459-470); unless it is a refusal.
ResultComplete ==
    job.state = "completed" /\ ~RefusalRetained =>
        /\ job.result.outcome.steps = SelectedSteps
        /\ \A p \in Announced : Cardinality(Selected(p)) = 1
        /\ Selected(Completion) = {job.result.outcome}

\* The selected outcomes at any time (workflow.py _step, _publish_step, _publish_outcome):
\* one for each phase, in the phases' order, of what was retained, and all in the result.
OutcomesStand == OneStepUnlessRefused /\ PhasesInOrder /\ PayloadStands /\ ResultComplete

\* The job implements the promise of every resumable job, until a refusal is retained.
Promise == INSTANCE SelectedOutcome WITH
    Phase <- Phases, Outcome <- Outcomes, Nothing <- None,
    announced <- Announced,
    selected <- [p \in Phases |-> IF Selected(p) = {} THEN None ELSE CHOOSE o \in Selected(p) : TRUE],
    result <- IF job.state # "completed" THEN None
              ELSE [p \in Phases |->
                      IF \E s \in job.result.outcome.steps : s[1] = p
                      THEN (CHOOSE s \in job.result.outcome.steps : s[1] = p)[2] ELSE None]

Implements == Promise!Init /\ [][Promise!Next \/ RefusalRetained']_Promise!vars
=============================================================================

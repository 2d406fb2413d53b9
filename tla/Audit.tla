-------------------------------- MODULE Audit --------------------------------
(***************************************************************************)
(* audits/service.py: the audit of one frozen selection is a job of one    *)
(* attempt.  People's findings are turned once into a report, or into what *)
(* kept it from being one; the bytes are frozen in the job's row; then the *)
(* verifiers and sources found defective are quarantined, and the job is   *)
(* completed.  Notices are the registry's and others lift them meanwhile.  *)
(***************************************************************************)
EXTENDS JobControl

CONSTANT Root           \* verifiers and sources that the selection is about

VARIABLES executions,   \* times the adjudications were verified and summed up
          notice        \* notice[r]: the notice of this report's finding on r

auditVars == <<executions, notice>>
vars == <<controlVars, auditVars>>

AuditJob == <<"audit", 0>>
Report(defects) == Receipt("report", defects)
Failure == Receipt("failure", {})
Outcomes == {r \in Newest(AuditJob) : r[1] \in {"report", "failure"}}
Configuration == Receipt("configuration", 0)

Working(outcome) == [holds |-> {}, outcome |-> outcome,
                     todo |-> IF outcome = Nothing THEN {} ELSE outcome[2]]

Init ==
    /\ rows = [j \in {AuditJob} |-> <<>>]
    /\ pc = [p \in Process |-> "idle"]
    /\ faults = 0
    /\ job = [j \in {AuditJob} |-> Absent]
    /\ me = [p \in Process |-> Nothing]
    /\ retained = [p \in Process |-> Nothing]
    /\ calls = 0
    /\ executions = 0
    /\ notice = [r \in Root |-> "absent"]

--------------------------------------------------------------------------
(* audit *)

StartAudit(p) ==
    /\ Begin(p, "enqueue", Working(Nothing))
    /\ UNCHANGED <<rows, faults, job, retained, auditVars>>

Enqueue(p) ==
    /\ At(p, "enqueue")
    /\ Enqueued(p, AuditJob, "claim")
    /\ UNCHANGED <<rows, me, retained, calls, auditVars>>

Claim(p) ==
    /\ At(p, "claim")
    /\ Claimed(p, AuditJob, "execute")
    /\ UNCHANGED <<rows, me, retained, calls, auditVars>>

\* _execute: a report with the roots found defective, a failure of the adjudications,
\* or an exception that freezes nothing (what the external enrollment refuses is one).
Execute(p) ==
    /\ At(p, "execute")
    /\ executions' = executions + 1
    /\ \/ \E outcome \in {Report(D) : D \in SUBSET Root} \cup {Failure} :
             Goto(p, "publish") /\ me' = [me EXCEPT ![p] = Working(outcome)]
       \/ Goto(p, "idle") /\ UNCHANGED me
    /\ UNCHANGED <<rows, faults, job, retained, calls, notice>>

\* _publish: the one revision of the row; failing that the bytes are retained.
Publish(p) ==
    /\ At(p, "publish")
    /\ Observe(p, AuditJob, 1, {Configuration, me[p].outcome}, "effects", "idle")
    /\ Retains(p, me[p].outcome)
    /\ UNCHANGED <<job, me, calls, auditVars>>

--------------------------------------------------------------------------
(* _apply_effects, and the completion after it. *)

\* A notice that is there must be this action's and active; a missing one is set.
Quarantine(p) ==
    /\ At(p, "effects") /\ me[p].todo # {}
    /\ \E r \in me[p].todo :
          /\ me' = [me EXCEPT ![p].todo = @ \ {r}]
          /\ \/ /\ notice[r] = "absent"
                /\ Call(p, notice' = [notice EXCEPT ![r] = "active"], UNCHANGED notice,
                        "effects", "idle")
             \/ /\ notice[r] # "absent"
                /\ Goto(p, IF notice[r] = "active" THEN "effects" ELSE "idle")
                /\ UNCHANGED <<notice, faults>>
    /\ UNCHANGED <<rows, job, retained, calls, executions>>

\* Mutant: the completion does not wait for the effects.
SettledAtOnce(p) == TRUE

Settled(p) == me[p].todo = {}

Complete(p) ==
    /\ At(p, "effects") /\ Settled(p)
    /\ Completed(p, AuditJob, AuditJob, 1, me[p].outcome, "idle")
    /\ UNCHANGED <<rows, me, retained, calls, auditVars>>

--------------------------------------------------------------------------
(* recover, retry_publication *)

\* Mutant: what was not frozen is audited again.
RecoverAtExecution == IF Outcomes = {} THEN "execute" ELSE "effects"

RecoverAt == IF Outcomes = {} THEN "idle" ELSE "effects"

Recover(p) ==
    /\ job[AuditJob].state = "running" /\ RecoverAt # "idle"
    /\ \E outcome \in IF Outcomes = {} THEN {Nothing} ELSE Outcomes :
          Begin(p, RecoverAt, Working(outcome))
    /\ UNCHANGED <<rows, faults, job, retained, auditVars>>

RetryPublication(p) ==
    /\ retained[p] # Nothing
    /\ Begin(p, "publish", Working(retained[p]))
    /\ UNCHANGED <<rows, faults, job, retained, auditVars>>

\* External: an operator lifts a notice.
Lift(r) ==
    /\ notice[r] = "active"
    /\ notice' = [notice EXCEPT ![r] = "lifted"]
    /\ UNCHANGED <<controlVars, executions>>

Next ==
    \/ \E p \in Process :
          \/ StartAudit(p) \/ Enqueue(p) \/ Claim(p) \/ Execute(p) \/ Publish(p)
          \/ Quarantine(p) \/ Complete(p) \/ Recover(p) \/ RetryPublication(p)
          \/ Crash(p) /\ UNCHANGED auditVars
    \/ \E r \in Root : Lift(r)

Spec == Init /\ [][Next]_vars

--------------------------------------------------------------------------

\* The adjudications are verified and summed up once, whatever has to be recovered.
AuditedOnce == executions <= 1

\* A completed audit accounts the very report that was frozen, and every root that
\* report found defective has been quarantined by then.
EffectsBeforeCompletion ==
    job[AuditJob].state = "completed" =>
        /\ Outcomes = {job[AuditJob].result}
        /\ \A r \in job[AuditJob].result[2] : notice[r] # "absent"

\* What the code says of a frozen report: that its effects and completion can be
\* recovered.
FrozenCompletable ==
    job[AuditJob].state = "running" =>
        \A outcome \in Outcomes : \A r \in outcome[2] : notice[r] # "lifted"
=============================================================================

----------------------------- MODULE MCFactory -----------------------------
(***************************************************************************)
(* The controllers of one command line share a registry and never a job:   *)
(* authoring calls, a candidate's construction, grades and audits.  Their  *)
(* modules are put side by side over the same control state; which of them *)
(* a behaviour is about is chosen at the start.  Two controllers; two      *)
(* authoring calls of one candidate and one of another, or a candidate of  *)
(* two revisions of the Factory, or one grade, or one audit of two roots.  *)
(* The release of what was built has no jobs; its operations are a         *)
(* controller's own, and it reads the registry while notices come and go.  *)
(***************************************************************************)
EXTENDS JobControl, TLC

CONSTANTS Batch, Caps, AttemptsPerRole, Overrun, Revision, MaxRecords, Root,
          TaskVersion, Sound, PolicyId, Implementation, Controller, MaxOperations, MaxNotices,
          p1, p2, c1, c2, c3, k1, k2, r1, r2

MCProcess == {p1, p2}
MCRevision == {r1, r2}

\* Two calls of one candidate and one of another, each of which may use a unit more than
\* its limit; the batch holds two limits, a candidate that unit too.
MCBatch == [c \in {c1, c2, c3} |-> [candidate |-> IF c = c3 THEN k2 ELSE k1, lane |-> 0, limit |-> 1]]
MCCaps == [candidate |-> 3, batch |-> 2]

MCSymmetry == Permutations(MCProcess) \cup Permutations(MCRevision)

VARIABLES route,
          runs, outcome, stamps,                        \* Authoring, GradePipeline
          eligible, inputs, key, made, assembled,       \* Construction
          verdict,                                      \* GradePipeline
          executions, notice,                           \* Audit
          artifacts, registered, revoked, doing, begun, notices, resolved      \* Release

authoringVars == <<outcome, stamps>>
constructionVars == <<eligible, inputs, key, made, assembled>>
auditVars == <<executions, notice>>
releaseOwn == <<artifacts, registered, revoked, doing, begun, notices, resolved>>

Authoring == INSTANCE Authoring
Construction == INSTANCE Construction
Grade == INSTANCE GradePipeline
Audit == INSTANCE Audit
Released == INSTANCE Release WITH None <- Nothing

\* What is not there is told from a report.
ASSUME NothingAssumption == \A D \in SUBSET Root : Nothing # Audit!Report(D)

\* What the other modules keep while one of them is at work.
NoAuthoring == outcome = 0 /\ stamps = 0
NoConstruction == eligible = 0 /\ inputs = 0 /\ key = 0 /\ made = 0 /\ assembled = 0
NoAudit == executions = 0 /\ notice = 0
NoRelease == artifacts = 0 /\ registered = 0 /\ revoked = 0 /\ doing = 0 /\ begun = 0 /\ notices = 0
             /\ resolved = 0
NoJobs == rows = 0 /\ pc = 0 /\ faults = 0 /\ job = 0 /\ me = 0 /\ retained = 0 /\ calls = 0

Init ==
    \/ /\ route = "author" /\ Authoring!Init
       /\ NoConstruction /\ verdict = 0 /\ NoAudit /\ NoRelease
    \/ /\ route = "construct" /\ Construction!Init
       /\ runs = 0 /\ NoAuthoring /\ verdict = 0 /\ NoAudit /\ NoRelease
    \/ /\ route = "grade" /\ Grade!Init
       /\ NoAuthoring /\ NoConstruction /\ NoAudit /\ NoRelease
    \/ /\ route = "audit" /\ Audit!Init
       /\ runs = 0 /\ NoAuthoring /\ NoConstruction /\ verdict = 0 /\ NoRelease
    \/ /\ route = "release" /\ Released!ReleaseInit
       /\ NoJobs /\ runs = 0 /\ NoAuthoring /\ NoConstruction /\ verdict = 0 /\ NoAudit

Next ==
    /\ UNCHANGED route
    /\ \/ /\ route = "author" /\ Authoring!Next
          /\ UNCHANGED <<constructionVars, verdict, auditVars, releaseOwn>>
       \/ /\ route = "construct" /\ Construction!Next
          /\ UNCHANGED <<runs, authoringVars, verdict, auditVars, releaseOwn>>
       \/ /\ route = "grade" /\ Grade!Next
          /\ UNCHANGED <<authoringVars, constructionVars, auditVars, releaseOwn>>
       \/ /\ route = "audit" /\ Audit!Next
          /\ UNCHANGED <<runs, authoringVars, constructionVars, verdict, releaseOwn>>
       \/ /\ route = "release" /\ Released!ReleaseNext
          /\ UNCHANGED <<controlVars, runs, authoringVars, constructionVars, verdict, auditVars>>

vars == <<controlVars, route, runs, verdict, authoringVars, constructionVars, auditVars,
          releaseOwn>>

Spec == Init /\ [][Next]_vars

--------------------------------------------------------------------------
(* What each of them promises. *)

\* What happens once, however often its job is recovered, retried or run anew by another
\* process: a call reaches the model (pipeline/authoring.py), a candidate's costs are
\* imported (factory.py), its package is assembled (build.py), its submission graded
\* (grading.py), its adjudications verified and summed up (audits/service.py).
EffectOnce ==
    /\ route = "author" => Authoring!DispatchedOnce
    /\ route = "construct" => Construction!ImportedOnce /\ Construction!AssembledOnce
    /\ route = "grade" => Grade!GradedOnce
    /\ route = "audit" => Audit!AuditedOnce

\* What a completed job says is what was done: a call's receipt and the status it was made
\* from, the build that the builder's own job completed with, the worker's verdict with its
\* original result, an audit whose roots are all quarantined.
CompletionBindsEffect ==
    /\ route = "author" => Authoring!CompletionBindsReceipt
    /\ route = "construct" => Construction!ConstructionBindsBuild
    /\ route = "grade" => Grade!GradeBindsOriginal
    /\ route = "audit" => Audit!EffectsBeforeCompletion

\* Whole ceilings are reserved before a call is queued, whoever admitted it, and a
\* candidate has at most one call that is not reconciled (pipeline/authoring.py).
CallsReserved ==
    route = "author" => Authoring!BudgetReserved /\ Authoring!OneCallOpen

\* pipeline/lifecycle.py, resolver.py, qualification: a task is resolved only while all it
\* was made from stands.
ReleaseStands == route = "release" => Released!ResolvedStands /\ Released!ReleasedInSequence
=============================================================================

----------------------------- MODULE GradeWorker -----------------------------
(***************************************************************************)
(* GradingService.grade: the cases of one submission, run one after the    *)
(* other in a candidate's workspace, and the reward they are worth.        *)
(***************************************************************************)
EXTENDS Naturals

CONSTANT Cases          \* cases of the verifier: 1..Cases

VARIABLES mandatory,    \* the mandatory cases
          at,           \* what the worker does next
          next,         \* the case it runs next
          status,       \* status[c]: what became of case c
          grade,        \* disposition and reward so far
          cleanup,      \* the last cleanup was verified
          unpublished   \* a runtime record that could not be published

workerVars == <<mandatory, at, next, status, grade, cleanup, unpublished>>

CaseIds == 1..Cases
Ended(disposition, reward) == [disposition |-> disposition, reward |-> reward]
NoReward(disposition) == Ended(disposition, {})
Accepted == Ended("success", {1})
Rejected == Ended("rejected", {0})

WorkerInit ==
    /\ mandatory \in SUBSET CaseIds
    /\ at = "load"
    /\ next = 1
    /\ status = [c \in CaseIds |-> "not_run"]
    /\ grade = NoReward("invalid")
    /\ cleanup = TRUE
    /\ unpublished = FALSE

\* An exception of a call: the dependency is missing, the declarations of the candidate
\* are refused, the store or the runtime fails, or the verifier is not supported.
Raised(kinds, then) ==
    /\ at' = then
    /\ grade' \in kinds
    /\ UNCHANGED <<mandatory, next, status, cleanup, unpublished>>

\* load_verifier, the manifest and the source: a source that does not resolve is the
\* candidate's fault, a verifier that does not load is not.
Load ==
    /\ at = "load"
    /\ \/ at' = "open" /\ UNCHANGED <<mandatory, next, status, grade, cleanup, unpublished>>
       \/ Raised({Rejected, NoReward("unsupported"), NoReward("infrastructure")}, "publish")

\* open_workspace; a handle that was not returned is not closed.
Open ==
    /\ at = "open"
    /\ \/ at' = "build" /\ UNCHANGED <<mandatory, next, status, grade, cleanup, unpublished>>
       \/ Raised({Rejected, NoReward("invalid"), NoReward("infrastructure")}, "publish")

\* build_snapshot: a build that fails is the candidate's fault only if it is known to be
\* and if its container is known to be gone.
Build ==
    /\ at = "build"
    /\ UNCHANGED <<mandatory, next, status>>
    /\ \/ at' = "cases" /\ grade' = Accepted /\ UNCHANGED <<cleanup, unpublished>>
       \/ /\ at' = "close" /\ UNCHANGED unpublished
          /\ \E fault \in {"candidate", "infrastructure", "unresolved"} :
                /\ cleanup' \in BOOLEAN
                /\ grade' = IF ~cleanup' THEN NoReward("infrastructure")
                            ELSE IF fault = "candidate" THEN Rejected
                            ELSE IF fault = "unresolved" THEN NoReward("invalid")
                            ELSE NoReward("infrastructure")
       \/ /\ at' = "close" /\ UNCHANGED <<cleanup, unpublished>>
          /\ grade' \in {Rejected, NoReward("invalid"), NoReward("infrastructure")}

\* Mutant: what an execution found is used though its container may still be running.
Undecided(failure, clean) == failure \in {"infrastructure", "unresolved"}

\* An execution whose cleanup is not verified decides nothing.
Inconclusive(failure, clean) == ~clean \/ failure \in {"infrastructure", "unresolved"}

\* The rest of the cases is not run.
Stop(c, result, end) ==
    /\ at' = "close" /\ next' = c
    /\ status' = [status EXCEPT ![c] = result]
    /\ grade' = end

\* The case counts and the next one is run; a candidate's failure is never taken back.
Count(c, result, failed) ==
    /\ next' = c + 1 /\ at' = at
    /\ status' = [status EXCEPT ![c] = result]
    /\ grade' = IF failed THEN Rejected ELSE grade

RunCase ==
    LET c == next IN
    /\ at = "cases" /\ c <= Cases
    /\ UNCHANGED <<mandatory, unpublished>>
    /\ \E failure \in {"none", "candidate", "infrastructure", "unresolved"}, clean \in BOOLEAN :
          /\ cleanup' = clean
          /\ IF Inconclusive(failure, clean)
             THEN Stop(c, "infrastructure_failure",
                       NoReward(IF clean /\ failure = "unresolved" THEN "invalid"
                                ELSE "infrastructure"))
             ELSE IF failure = "candidate" THEN Count(c, "candidate_failure", TRUE)
             ELSE \/ Count(c, "passed", FALSE)
                  \/ Count(c, "failed", c \in mandatory)
                  \/ Count(c, "protocol_failure", TRUE)

\* The declared wall budget is the candidate's.
OutOfTime ==
    /\ at = "cases" /\ next <= Cases
    /\ at' = "close" /\ grade' = Rejected
    /\ UNCHANGED <<mandatory, next, status, cleanup, unpublished>>

\* execute raises: an unpublished record is published again, or stays with the grade.
CallFails ==
    /\ at = "cases" /\ next <= Cases
    /\ at' = "close"
    /\ \/ grade' = NoReward("infrastructure") /\ unpublished' \in BOOLEAN
       \/ grade' = NoReward("unsupported") /\ UNCHANGED unpublished
    /\ UNCHANGED <<mandatory, next, status, cleanup>>

AllRun ==
    /\ at = "cases" /\ next > Cases
    /\ at' = "close"
    /\ UNCHANGED <<mandatory, next, status, grade, cleanup, unpublished>>

\* Mutant: a workspace that would not close leaves the reward as it was.
ClosedAnyway == Ended("infrastructure", grade.reward)

CloseFailed == NoReward("infrastructure")

Close ==
    /\ at = "close"
    /\ at' = "publish"
    /\ \/ UNCHANGED <<grade, cleanup>>
       \/ cleanup' = FALSE /\ grade' = CloseFailed
    /\ UNCHANGED <<mandatory, next, status, unpublished>>

\* The receipt is published, or retained with the records that are not.
Publish ==
    /\ at = "publish"
    /\ at' \in IF unpublished THEN {"pending"} ELSE {"published", "pending"}
    /\ UNCHANGED <<mandatory, next, status, grade, cleanup, unpublished>>

\* retry_publication: the records in their order, then the receipt, nothing run again.
Republish ==
    /\ at = "pending"
    /\ \/ unpublished' = FALSE /\ at' \in {"published", "pending"}
       \/ UNCHANGED <<unpublished, at>>
    /\ UNCHANGED <<mandatory, next, status, grade, cleanup>>

WorkerNext ==
    \/ Load \/ Open \/ Build \/ RunCase \/ OutOfTime \/ CallFails \/ AllRun
    \/ Close \/ Publish \/ Republish

Spec == WorkerInit /\ [][WorkerNext]_workerVars /\ WF_workerVars(WorkerNext)

--------------------------------------------------------------------------

\* What a published grade may say: a reward of one means that every case ran to its
\* end, the mandatory ones as their reference does, and a reward of zero that the
\* candidate failed; and of neither while a container may still be running or a case
\* could not be decided.
RewardSound ==
    at = "published" =>
        /\ grade.reward = {1} => /\ \A c \in CaseIds : status[c] \in {"passed", "failed"}
                               /\ \A c \in mandatory : status[c] = "passed"
        /\ grade.reward # {} => /\ cleanup
                                    /\ \A c \in CaseIds : status[c] # "infrastructure_failure"
        /\ (grade.reward = {1}) = (grade.disposition = "success")
        /\ (grade.reward = {0}) = (grade.disposition = "rejected")
=============================================================================

----------------------------- MODULE CandidateRun -----------------------------
(***************************************************************************)
(* One build or execution of a candidate in its container: the commands of *)
(* a session one after the other, in a Python runtime                      *)
(* (environments/runtime.py) or that of another toolchain                  *)
(* (command_runtime.py); who is charged for what went wrong, and which     *)
(* source the result says is saved.                                        *)
(***************************************************************************)
EXTENDS Naturals, Sequences

CONSTANT Nothing, MaxPolls      \* readiness polls of one service

VARIABLES operation,    \* [runtime, kind, saves]
          step,         \* what the session does next
          receipts,     \* what it did so far, and how each ended
          error,        \* the exception it holds, as reason and category
          ran,          \* how the requested command ended
          version,      \* the version of the source the workspace's record holds
          reported,     \* [source, status] the result will say
          clean,        \* the cleanup is verified
          result        \* what the caller was given

runVars == <<operation, step, receipts, error, ran, version, reported, clean, result>>

\* How a command of the session ends (DockerSession.execute).
Ends == {"ok", "nonzero", "timeout", "output_limit", "cpu_limit", "memory_limit",
         "monitor_failure"}
Operations == [runtime : {"python", "command"}, kind : {"build", "development", "execute"},
               saves : BOOLEAN]

RunInit ==
    /\ operation \in {o \in Operations : o.kind = "build" => ~o.saves}
    /\ step = "stage"
    /\ receipts = << >>
    /\ error = Nothing /\ ran = Nothing /\ result = Nothing
    /\ version = 0
    /\ reported = [source |-> 0, status |-> "last_confirmed"]
    /\ clean = FALSE

--------------------------------------------------------------------------
(* failure(): what an exception is charged to. *)

Error(reason, category) == [reason |-> reason, category |-> category]
Infrastructure == Error("infrastructure_failure", "infrastructure")
OutOfBudget == Error("cpu_limit", "candidate")
Refused == Error("source_rejected", "candidate")
Unresolved == Error("source_unavailable", "unresolved")
SetupFailed == Error("setup_failed", "infrastructure")

\* Staging of source and dependencies; the setup of an execution; a trusted setup that
\* does not look at the budget (the build's, a service's, the product's).
StageError == [end \in Ends |-> IF end = "cpu_limit" THEN OutOfBudget ELSE Infrastructure]
SetupError == [end \in Ends |-> IF end = "cpu_limit" THEN OutOfBudget
                               ELSE IF end = "monitor_failure" /\ operation.runtime = "python"
                               THEN Infrastructure ELSE SetupFailed]
TrustedError == [end \in Ends |-> SetupFailed]
InstallError == [end \in Ends |-> IF end = "monitor_failure" THEN Infrastructure ELSE SetupFailed]
ReadyError == [end \in Ends |-> Error(IF end = "monitor_failure" THEN "infrastructure_failure"
                                     ELSE end, "infrastructure")]

\* The candidate's own build.
BuildError == [end \in Ends |-> IF end = "monitor_failure" THEN Infrastructure
                               ELSE Error(IF end = "nonzero" THEN "command_failed" ELSE end, "candidate")]

\* Mutant: a capture that did not end well is the candidate's fault.
CaptureErrorUnwatched == [end \in Ends |-> Refused]

\* What the container is asked to show: the installed closure, the built product.
CaptureError == [end \in Ends |-> IF end = "monitor_failure" THEN Infrastructure ELSE Refused]

\* export_source; a capture cut short is nobody's fault.
ExportError == [end \in Ends |-> IF end = "cpu_limit" THEN OutOfBudget
                                ELSE IF end = "monitor_failure" THEN Infrastructure
                                ELSE IF end = "output_limit" THEN Refused ELSE Unresolved]

--------------------------------------------------------------------------
(* The commands. *)

Receipt(end) == receipts' = Append(receipts, [step |-> step, end |-> end])

\* A command that has to exit with 0; anything else is an exception, and the session is
\* cleaned up.
Command(name, errorOf, then) ==
    /\ step = name
    /\ \E end \in Ends :
          /\ Receipt(end)
          /\ IF end = "ok" THEN step' = then /\ UNCHANGED error
             ELSE step' = "cleanup" /\ error' = errorOf[end]
    /\ UNCHANGED <<operation, ran, version, reported, clean, result>>

\* stage and what comes after it, in either runtime.
Staged == IF operation.runtime = "python"
          THEN IF operation.kind = "build" THEN "install" ELSE "setup"
          ELSE IF operation.kind = "build" THEN "toolchain"
          ELSE IF operation.kind = "execute" THEN "product" ELSE "setup"
SetUp == IF operation.runtime = "python" THEN "command" ELSE "services"

Stage == Command("stage", StageError, Staged)
Install == Command("install", InstallError, "build")
Toolchain == Command("toolchain", InstallError, "services")
Product == Command("product", TrustedError, "setup")
Setup == Command("setup", SetupError, SetUp)

\* start_services: fresh state, launch, and polls until it is ready, the process alive
\* each time; the profile may declare none.
Started == IF operation.kind = "build" THEN "build" ELSE "command"
NoService == /\ step = "services" /\ step' = Started
             /\ UNCHANGED <<operation, receipts, error, ran, version, reported, clean, result>>
Launch == Command("services", TrustedError, "alive")
Alive == Command("alive", TrustedError, "ready")
Polls == Len(SelectSeq(receipts, LAMBDA r : r.step = "ready"))

\* Not ready yet is no failure before the deadline.
Ready ==
    /\ step = "ready"
    /\ \E end \in Ends :
          /\ Receipt(end)
          /\ \/ end = "ok" /\ step' = "still alive" /\ UNCHANGED error
             \/ end \in {"ok", "nonzero"} /\ Polls < MaxPolls /\ step' = "alive" /\ UNCHANGED error
             \/ end \in {"ok", "nonzero"} /\ step' = "cleanup" /\ error' = SetupFailed
             \/ end \notin {"ok", "nonzero"} /\ step' = "cleanup" /\ error' = ReadyError[end]
    /\ UNCHANGED <<operation, ran, version, reported, clean, result>>
StillAlive == Command("still alive", TrustedError, Started)

Build == Command("build", BuildError, IF operation.runtime = "python" THEN "check" ELSE "capture")
Check == Command("check", CaptureError, "capture")
Capture == Command("capture", CaptureError, "validate")

\* What was captured is read by the controller: the built wheel or product has to be what
\* was asked for, the source a source, changed within its rules.
Accept(kinds, then) ==
    /\ step = "validate" /\ operation.kind \in kinds
    /\ \/ step' = "cleanup" /\ error' = Refused
       \/ step' = then /\ UNCHANGED error
    /\ UNCHANGED <<operation, receipts, ran, version, reported, clean, result>>

ReadWheel == operation.runtime = "python" /\ Accept({"build"}, "cleanup")
ReadProduct == operation.runtime = "command" /\ Accept({"build"}, "cleanup")
ReadSource == Accept({"development", "execute"}, "compare")

\* A source that is the one it was is not saved.
Compare ==
    /\ step = "compare"
    /\ \/ step' = "save" /\ UNCHANGED reported
       \/ step' = "cleanup" /\ reported' = [reported EXCEPT !.status = "unchanged"]
    /\ UNCHANGED <<operation, receipts, error, ran, version, clean, result>>

\* The requested command, whatever it ends with; only one that exited is exported.
Requested ==
    /\ step = "command"
    /\ \E end \in Ends :
          /\ Receipt(end) /\ ran' = end
          /\ step' = IF operation.saves /\ end \in {"ok", "nonzero"} THEN "export" ELSE "cleanup"
    /\ UNCHANGED <<operation, error, version, reported, clean, result>>

\* The exporter itself may find that what it met is no source.
Export == Command("export", ExportError, "validate")
NoSource ==
    /\ step = "export" /\ Receipt("nonzero")
    /\ step' = "cleanup" /\ error' = Refused
    /\ UNCHANGED <<operation, ran, version, reported, clean, result>>

--------------------------------------------------------------------------
(* The save. *)

\* What a result may say is saved when the write of the record raises: the Python runtime
\* assigns it after the write, that of the other toolchains before.
Proposed == IF operation.runtime = "command" THEN [reported EXCEPT !.source = version + 1]
            ELSE reported

\* Mutant: assigned before the write in both.
ProposedFirst == [reported EXCEPT !.source = version + 1]

\* The source is put into the store, then recorded; either may fail, the record after it
\* was written.
Save ==
    /\ step = "save"
    /\ step' = "cleanup"
    /\ \/ /\ version' = version + 1 /\ UNCHANGED error
          /\ reported' = [source |-> version + 1, status |-> "saved"]
          /\ Receipt("ok")
       \/ /\ error' \in {Infrastructure, Refused} /\ UNCHANGED <<version, reported>>
          /\ Receipt(IF error' = Refused THEN "nonzero" ELSE "storage")
       \/ /\ error' = Infrastructure /\ version' \in {version, version + 1}
          /\ reported' = Proposed
          /\ Receipt("storage")
    /\ UNCHANGED <<operation, ran, clean, result>>

--------------------------------------------------------------------------
(* Cleanup, evidence, and the result. *)

\* An exception of the cleanup takes the place of the one it met; it may come after the
\* absence was seen.
Cleanup ==
    /\ step = "cleanup"
    /\ step' = "evidence"
    /\ clean' \in BOOLEAN
    /\ error' \in (IF clean' THEN {error, Infrastructure} ELSE {Infrastructure})
    /\ Receipt(IF clean' /\ error' = error THEN "ok" ELSE "cleanup")
    /\ UNCHANGED <<operation, ran, version, reported, result>>

Outcome ==
    IF error # Nothing THEN error
    ELSE IF ran = "monitor_failure" THEN Infrastructure
    ELSE IF ran \in {Nothing, "ok"} THEN Error("completed", "none")
    ELSE Error(IF ran = "nonzero" THEN "command_failed" ELSE ran, "candidate")

\* The record is published, or kept with its bytes for a retry, which runs nothing; the
\* result of the operation is then lost.
Publish ==
    /\ step \in {"evidence", "unpublished"}
    /\ UNCHANGED <<operation, receipts, error, ran, version, reported, clean>>
    /\ \/ /\ step' = "unpublished" /\ UNCHANGED result
       \/ /\ step' = "published" /\ step = "unpublished" /\ UNCHANGED result
       \/ /\ step' = "answered" /\ step = "evidence"
          /\ result' = [outcome |-> Outcome, clean |-> clean, saved |-> reported]

RunNext ==
    \/ Stage \/ Install \/ Toolchain \/ Product \/ Setup
    \/ NoService \/ Launch \/ Alive \/ Ready \/ StillAlive
    \/ Build \/ Check \/ Capture \/ ReadWheel \/ ReadProduct
    \/ ReadSource \/ Compare \/ Requested \/ Export \/ NoSource \/ Save
    \/ Cleanup \/ Publish

RunSpec == RunInit /\ [][RunNext]_runVars

--------------------------------------------------------------------------

Met(ends) == \E i \in DOMAIN receipts : receipts[i].end \in ends
Charged(category) == result # Nothing /\ result.outcome.category = category

\* docs/interfaces-M3.md: setup, monitor, daemon, storage and cleanup faults are never the
\* candidate's, and neither is a failure before its own code ran, its budget excepted.
InfrastructureIsNotCharged ==
    Charged("candidate") =>
        /\ result.clean
        /\ ~Met({"monitor_failure", "storage", "cleanup"})
        /\ \/ result.outcome = OutOfBudget
           \/ \E i \in DOMAIN receipts : receipts[i].step \in {"build", "command"}

\* Nothing is complete but what ended well, was cleaned up and saved if it was to be.
CompletedIsWhole ==
    Charged("none") =>
        /\ result.clean
        /\ \A i \in DOMAIN receipts : receipts[i].end = "ok" \/ receipts[i].step = "ready"
        /\ operation.saves => result.saved.status \in {"saved", "unchanged"}

\* A result says the workspace holds no source its record does not hold.
SavedIsRecorded ==
    result # Nothing /\ (result.saved.status = "saved" \/ operation.runtime = "python")
        => result.saved.source <= version

ChargedRight == InfrastructureIsNotCharged /\ CompletedIsWhole /\ SavedIsRecorded

\* docs/interfaces-M3.md:49, "durably records it before calling the new version saved".  Does
\* not hold of the command runtime: a failed write leaves the source in the result.
ReportedIsRecorded == result # Nothing => result.saved.source <= version

\* docs/interfaces-M3.md:41, of an execution: exhaustion "during staging/setup/export returns
\* cpu_limit / candidate".  Does not hold when it is the product's staging or a service's start.
ExhaustionIsCandidates ==
    result # Nothing /\ operation.kind # "build" /\ Met({"cpu_limit"})
    /\ ~Met({"monitor_failure", "storage", "cleanup"}) => result.outcome = OutOfBudget
=============================================================================

# Feature RL: specifications, model checking and proofs

TLA+ modules of the `feature_rl` package (`src/src/feature_rl`; paths below are
relative to it, `docs/` is `src/docs`), TLC configurations that check them on
small instances, and theorems checked by TLAPS.

1. [The system](#1-the-system)
2. [What makes each part correct](#2-what-makes-each-part-correct)
3. [Modules and the code they model](#3-modules-and-the-code-they-model)
4. [Runs, bounds and results](#4-runs-bounds-and-results)
5. [Disagreements between code and documents](#5-disagreements-between-code-and-documents)
6. [Proofs](#6-proofs)
7. [Not modelled](#7-not-modelled)
8. [Plan](#8-plan)

To repeat a check: `tlc -config MCRegistryWork.cfg MCRegistry`, and
`tlapm RegistryProofs.tla`. `PROJECT.json` maps every definition to the lines
it translates and lists, for every property, a bug in a mapped definition
(a `Mutant:` operator of the module) that breaks it.

## 1. The system

Feature RL builds immutable coding tasks from source evidence, grades programs in
Docker, runs agents on the tasks, trains a policy with GRPO and evaluates and
audits the results. Every command (`cli.py`) is a process of its own; several
commands may work on one request. There is no server: the processes share a
**registry** directory, a content-addressed **artifact store** and private work
directories. An operation is a **job** of the registry; the claim on it is
idempotent under a key, so that a second command that is given the same request
gets the same claim. Nothing but a few file locks keeps two commands apart.

All controllers are written in one style, and it is this style that the models
are about:

* work is *announced* as revision 1 of an accounting row, *done*, and *confirmed*
  as revision 2 (3 for a checkpoint). A row is cumulative: a revision contains
  the receipts of the one before, and the same revision given twice is a no-op;
* work that was announced and not confirmed is never done again;
* an outcome that cannot be recorded is kept in the memory of the process as a
  pending publication, and can be tried again;
* a result is *frozen* together with the accounting it is computed from, and the
  registry completes the job only if that accounting is still the newest.

| Component | State | Operations | Talks to |
|---|---|---|---|
| Registry (`registry/state.py`, `core.py`, `historical.py`) | artifacts with their dependencies, jobs, attempts, accounting revisions, quarantine notices, limits | register, enqueue, claim, abandon, retry, reconcile, complete, quarantine, lift, expand_limits | storage, artifact store |
| Registry storage (`registry/storage.py`) | lock file, SQLite log, JSONL journal, a cached snapshot per process | one call: open, recover, commit, project, answer | every controller |
| Artifact store (`artifacts/store.py`) | files named by their content | put (create if absent), get (verified) | everybody |
| Feature workflow (`pipeline/workflow.py`) | rows of the construct-feature job, pending publications in memory | construct, recover, retry_publication | child jobs of intake, source, preparation, authoring, reference, construction |
| Factory (`pipeline/authoring.py`, `construction.py`, `build.py`, `grading.py`, `factory.py`) | rows of their jobs, budgets, file locks, what an exception retained | author, screen, construct, build, grade; recover and retry_publication of each | generation provider, requirements, environments, grader |
| Grader (`grading/service.py`) | the grade of one submission, a workspace, a pending receipt | grade, retry_publication | environments |
| Qualification and release (`pipeline/lifecycle.py`, `qualification/`, `pipeline/resolver.py`) | registered evidence, decisions, releases | qualify, release, resolve_released | registry |
| Agent runner (`agents/runner.py`) | rows of a run job, pending publications | run, retry_publication, recover | policy backend, worker, grader |
| Native run service (`agents/native_service.py`) | what it remembers of each job | run, recover, close | session factory, agent runner |
| Native session factory (`training/factory.py`) | GPU sessions, startup and shutdown rows | create, close, close_startup | SkyRL session |
| Native backend (`training/native.py`, `skyrl_bridge.py`, `torch_backend.py`, `state.py`) | policy tensors, inference workers, the barrier between them, exports and checkpoints | construct, update, save_reload, resume, activate_checkpoint, close | SkyRL, Ray, vLLM |
| Training (`training/service.py`) | journal file per job, controller lock, retained session and startup | train, close; explicit resume | session factory, sampler, data gate, optimizer |
| Evaluation (`evaluation/service.py`) | rows of a job, retained session and startup, trials as child jobs, frozen execution | evaluate, recover, close | agent runner, session factory |
| Audit (`audits/service.py`) | frozen report, notices to set | publish, recover | registry quarantine |
| Generation (`generation/`) | a bounded subprocess, an archive of attempts, costs and status | generate, recover | Codex CLI |
| Environments: runtimes (`docker.py`, `runtime.py`, `command_runtime.py`, `services.py`, `workers.py`) | one workspace record and its containers, a lock | open, run, save, close, recover_owned | Docker |
| Environments: resolution (`inference.py`, `candidates.py`, `catalog.py`, `resolution.py`, `images.py`, `command_resolution.py`) | captured pages and wheels, a record per declarations, image tags | infer, solve, freeze, build, publish | package index, Docker |
| Intake and history (`intake/`, `history/`, `splits/`) | a directory of captured responses | capture, verify, reference, assign | GitHub, git |
| Requirements (`requirements/`, `pipeline/context.py`) | a journal of the model's call | excerpt, retrieve, discover, finalise, recover | generation |
| Submission, verifiers, packaging (`submission/`, `verifiers/`, `pipeline/packaging.py`) | none of their own | functions from trees of files to trees of files | – |
| Study (`evaluation/freeze.py`, `statistics.py`, `audits/selection.py`) | none of their own | roster, plan, pairing, sample | – |
| Contracts | none | data models and validators | – |

Hard behaviours: a controller that dies between any two durable steps; registry
calls that fail, or that take effect and then raise; two commands of one request
side by side, only one of which takes the lock; a claim used after its attempt
was abandoned; late and repeated receipts; memory (retained sessions, pending
publications, snapshots) that outlives what it was derived from; quarantine that
arrives after the results were used. `PROJECT.json` lists them as hazards, each
at its line with the properties about it.

## 2. What makes each part correct

*Registry.* One running attempt per job, whatever claims are still around; the
attempt limit neither strands a job nor leaks an attempt; a job is not
dispatched again without a diagnosis; paused jobs count towards the cap; the
accounting never loses what was incurred, and a completion binds the newest of
it; the artifact graph stays acyclic; nothing derived from a quarantined
artifact is admitted, except the scoped historical audit, which never reaches
protected evidence.

*Storage.* One writer; the journal is what was committed, up to a torn last line,
and a call that answered "ok" is in it; a call is never refused for damage
nobody did; altogether it is a log of events with unique keys, in spite of
crashes, and every call is answered. *Artifact store*: a name shows its whole
content or nothing, for good, and only to whom it may concern.

*Workflow.* External work runs once; phases are selected in order; a selected
outcome stands and the result binds exactly the selected ones.

*Factory.* A model call, an import, an assembly, a grading and an audit are done
once, whoever recovers or retries them; a completed job says what was done;
whole ceilings are reserved before a call is dispatched; a task is resolved only
while all it was made from stands.

*Grader and candidate runs.* A reward stands only for a grade that was measured
whole; what went wrong is charged to who did it; a source is called saved when
it is.

*Agent and native run.* Policy, action and grader are called once per
announcement; only an infrastructure verdict is graded again; a reward is
recorded only with complete accounting; an episode lives inside a live, published
session; the outer result is the child's; the session is closed at the end.

*Native backend.* Every completion is of the weights its policy names; a
confirmed checkpoint holds what its policy names, for good; policy and engine
take the GPUs in turn; minibatches are whole groups, each row once.

*Training.* A lineage (a job and those that continue it) never exceeds its update
budget, trains on a sampler position once and on policy; a checkpoint contains
confirmed updates only; success selects the job's own last checkpoint; sessions
are shut down on record.

*Evaluation.* A trial is sampled once, and under the policy of its own arm; one
execution is frozen and reported, with the startup, activations and shutdown of
its session in the accounting; a session that is not closed on record is still
in the hands of a process.

*Host.* A container runs only while its record says so, a generation of a
workspace is saved once, a command is accepted only when it is whole, whatever
was begun ends; processes that build one image resolve it once.

*Preparation.* The capture of a pull request is of one moment of it; the
reference is what the request did; the author sees nothing later than the
request; a setup script that hides no call (`Quiet`) is read as Python runs it; the dependency
search is exact and reproduced from what it froze; related sources stay on one
side of a split; a sample represents its population; contracts and references
rest on what the store shows.

## 3. Modules and the code they model

`PROJECT.json` ("map") gives the source lines of each operation, step and state, with
the lines of its whole translation: a helper that stands for a part of those lines and
says nothing of its own (a row, a tuple of variables, one guard of one step) is read
with the operation that uses it and has no entry.

| Module | Models | Built on |
|---|---|---|
| `Registry` | registry/state.py, core.py, historical.py: one action per operation; guards are the `_require`s in their order, a rejected call stutters | – |
| `EventLog` | abstract: one log, unique keys, answers that saw a prefix | – |
| `RegistryStorage` | registry/storage.py: the life of one call, step by step, in several processes | refines `EventLog` (`Implements`) |
| `ArtifactStore` | artifacts/store.py: put and get of several writers; temporary file, fsync, link, directory | – |
| `SelectedOutcome` | abstract: announce, select once, result binds the selection | – |
| `FeatureWorkflow` | pipeline/workflow.py | refines `SelectedOutcome` until a refusal is retained (`Implements`) |
| `JobLedger` | how a controller records a row and how a registry or store call may end | – |
| `JobControl` | what the Factory's controllers share: jobs of one attempt, file locks, what an exception retained | `JobLedger` |
| `Authoring` | pipeline/authoring.py over the provider's archive and the requirements journal, with its budgets | `JobControl` |
| `Construction` | Factory.screen_source, pipeline/construction.py, build.py, by Factories of several revisions | `JobControl` |
| `GradePipeline` | pipeline/grading.py: linking, freezing and retrying one grade | `JobControl` |
| `Audit` | audits/service.py: report, notices, completion | `JobControl` |
| `MCFactory` | the four side by side over one control state, and the release | the four, `Release` |
| `GradeWorker` | grading/service.py: the cases of one grade and its reward | – |
| `AgentRun` | agents/runner.py, and the grader as an answer | `JobLedger` |
| `NativeSession` | training/factory.py: sessions of one claim | `JobLedger` |
| `NativeRun` | agents/native_service.py; composes the two | `AgentRun`, `NativeSession` |
| `NativeBackend` | training/native.py, skyrl_bridge.py, state.py, torch_backend.py, agents/backend.py: what a session does on the GPUs | – |
| `Training` | training/service.py, checkpoints.py, the parts of core.py, data.py and native.py it drives, factory.py with several startups of a claim | `JobLedger` |
| `Evaluation` | evaluation/service.py with a native session, factory.py and native.py as it uses them, the trials of runner.py as child jobs | `JobLedger` |
| `DockerRuntime` | environments/docker.py, runtime.py: workspace operations in containers whose daemon answers late | – |
| `CandidateRun` | one build or execution in runtime.py or command_runtime.py, with services.py and workers.py: commands, charging, save, cleanup | – |
| `BoundedProcess` | the watched command of generation/runner.py, docker.py, history/git.py | – |
| `ImageResolution` | resolution.py, command_resolution.py, images.py: one image for one set of declarations | – |
| `DependencySolver` | candidates.py, catalog.py: the search over a changing index, the freeze, the second use | – |
| `StaticMetadata` | inference.py: what setup.py, requirement files and layout settings declare | – |
| `Capture` | intake/prepare.py, sources.py; github.py, request_document.py | – |
| `History` | history/git.py: baseline and reference of a request | – |
| `TaskSource` | environments/archive.py, submission/, pipeline/packaging.py, verifiers/: the trees of a task | – |
| `Grounding` | pipeline/context.py, requirements/: excerpts, evidence, contract, recovery of an answer | – |
| `Study` | splits/closure.py, evaluation/freeze.py, statistics.py, audits/selection.py, statistics.py | – |
| `Release` | pipeline/lifecycle.py, qualification.py, resolver.py, qualification/ | – |
| `RegistryProofs`, `RegistryStorageProofs`, `FeatureWorkflowProofs`, `EvaluationProofs`, `NativeRunProofs`, `TrainingProofs`, `FactoryProofs`, `HostProofs` | theorems | `Registry`, `RegistryStorage`, `FeatureWorkflow`, `TaskSource`, `Grounding`, `Evaluation`, `NativeRun`, `MCTraining`, `MCFactory`, `MCHost` |
| `MC...` | model values, symmetry and inputs for TLC | |

**Composition.** `NativeRun` interleaves the steps of an outer job, its session
and its child episode over one control state; `MCFactory` puts four controllers
over one registry, and the release of what was built, beside one another. `MCHost`, `MCPreparation` and `MCTraining` put parts side by
side that share no state in the code: which of them a behaviour is about is
chosen at the start (`route`, `part`), the others' variables are constant, and
each property is stated of its own part. Those runs are unions of instances, not
interleavings; they keep the time of a check in bounds.

**Correspondence.** In the controllers a label `pc[p]` is a place between two calls
of the source that change shared or durable state. `Observe` of `JobLedger` is
`registry.reconcile` with a cumulative revision; it succeeds, is refused by the
row, fails before its effect, or fails after it (the last two use up one of
`MaxFaults`). `Call` is any other registry or store call. An exception goes to
the label of the `except` or `finally` that catches it. What a process holds only
in memory (`me`, `held`, `live`, `opening`, `parent`) is lost by `Crash`.

**Registry.** An artifact is a model value; its embedded references are the constant
`Intrinsic`, what may be declared in addition `Explicit`. Job specifications are
the constants `Inputs`, `Configuration` and `AttemptLimit`. `Damage` corrupts a
stored object. A claim is its key.

**RegistryStorage.** `committed`/`ack` are the two tables of the database, `lines`
and `tail` the journal, `lock` the file lock, `local` and `cache` what a process
read; `files` and `hot` are what is in the directory, sqlite's own journal
included. `DamageJournal` removes, shortens or garbles the journal.

**FeatureWorkflow.** `rows[p]` is the accounting row of phase `p`, a sequence of
revisions; `me[c]` the controller, `pending[c]` its retained publications,
`child[p]` the outcome of a child job (which recovers by itself, so that the
phase may be entered again), `runs[p]` how often external work ran.

**Factory.** A receipt is its kind and a number that tells executions apart (a
receipt is dated, so two executions differ). `Authoring` keeps of the provider's
archive the attempt, the cost and the status that names all others; `Construction`
the two revisions of each job and the nonces; `GradePipeline` knows a pending
publication by the records left before its own receipt. A process retains what
its exception carried (`held`) until it retries.

**NativeBackend.** Contents of tensors are numbers. An operation is the sequence
`todo` of its steps, each of which may fail and leave its effect whole, half done
or undone; `Raised` is what the owner of the session does then. `barrier` is the
stamp and the acknowledgments of `PolicyBarrier`; `engine` what each worker serves
and which are awake, since a broadcast that misses one worker and a sleep that is
ignored are answers too; `disk` the directories of a step, which outlive the
session. A completion records the weights its policy names and those that made it.

**Training.** The weights of a session are the sequence of updates applied to them,
so that it can be asked which updates a checkpoint contains. A group of episodes
is its sampler position and the weights it was sampled from; its episodes are
one child job. `dispatches` records what the optimizer was given, in order. The
wall-clock budget may end at any turn of the loop. Whether an update had a
gradient is a choice; only whether there was one so far matters. A train job is
either a first invocation or resumes one checkpoint (`First`), since the resumed
checkpoint is part of its JobSpec. The controller lock is the guard `Free`:
retained sessions outlive it, exactly as in the code.

**Evaluation.** `Plan` gives each trial its group (arm and sampling seed), in the
order of execution. A session is the index of its startup key and the process
that owns it; `ray[p]` is the process's single Ray connection, so that a second
session cannot be constructed beside a live one. `handle[p]` and `opening[p]` are
`self._handles` and `self._opening` of the service, `loaded[p]` the group whose
policy the session holds, `trial[t]` the child job, with the session and arm it
was sampled under. Each process makes one call at a time; nothing keeps two
processes apart, as `recover` takes no lock. A confirmed startup abort is a
shutdown row whose key is no startup's (service.py:618, 643), so that
`Settled` refuses such an evaluation for good.

**Host.** `DockerRuntime` keeps per operation a record (`phase`), a container and
what the daemon was asked and has not done (`asked`, carried out by `Late`);
`workspace` is the one record of generations. `CandidateRun` is one call: its
`step` goes through the commands, and `error` is who is charged. `BoundedProcess`
separates the leader, the rest of its group, what was written and what was read.
`ArtifactStore` separates what a file holds from what of it and of its name is
durable.

**Release.** A controller's operation reads the registry artifact by artifact (`Walk`),
and notices are set and lifted between two reads; `seen` are the notices that have been
in force all the while. What an artifact was made from is at most four steps away
(`Ancestors`).

**Preparation.** `DependencySolver` and `Capture` are processes; the other modules are functions, and an input is drawn by `MCPreparation`. A setup.py is a
sequence of statements, a text a sequence of lines or words, a tree of files a
function from paths; each function is compared with a definition that says what
it is for (`InferredIsPassed` runs the script, `RequirementsAreReached` reads as pip does, `RelatedTogether` is reachability,
`SearchExact` quantifies over all sets of wheels).

## 4. Runs, bounds and results

All passing runs are exhaustive within their bounds, and between them every
action and every disjunct of every next-state relation is taken.

| Run | Checks | Bounds | States |
|---|---|---|---|
| `registry_work` | `OneOwner NeverStranded ActiveCap LedgerCumulative CompletionBindsNewest` | 2 artifacts, 2 jobs (1 and 2 attempts), 3 claim keys, 1 active place, 8 events expandable to 10, 2 upstream calls of 2 revisions, unknown/known/two-channel costs, 1 damaged object | 781,803 |
| `registry_quarantine` | `GraphSound QuarantineContained AdmissionClean ProtectedScopeBlocks` | 7 artifacts with an audit policy, subjects and protected evidence; an ordinary job, an audit job and a consumer; 1 notice set and lifted; 7 events | 32,210 |
| `storage` | `Recoverable LogKept` | 2 processes, 2 keys with 3 contents (one key with two), 2 events, 1 crash, 1 damage, 1 I/O fault | 2,935,533 |
| `workflow` | `ExternalOnce OutcomesStand Implements` | 2 commands, 2 authoring attempts, a budget that may refuse, 1 crash, 1 fault, rows of 3 revisions | 2,179,403 |
| `native_run` | `CalledOnce GradeAccounted SessionBound` | 2 commands, 1 turn, 2 gradings, 2 faults or crashes, 2 recoveries | 3,168,614 |
| `training` | `UpdatesAccounted CheckpointsStand BackendSound` | 2 processes, a first job and 2 that resume it or one another, 3 updates, 7 groups, 2 per update, 3 calls, 1 fault or crash; for the backend 2 workers, 2 sessions, 3 contents, 2 failures | 1,853,122 |
| `evaluation` | `SampledOnce SampledUnderItsArm SessionsAccounted` | 2 processes, 3 trials in 2 groups, 3 calls, 1 fault or crash | 5,368,443 |
| `factory` | `EffectOnce CompletionBindsEffect CallsReserved ReleaseStands` | 2 commands; 3 calls of 2 candidates, or a candidate of 2 revisions, or a grade, or an audit of 2 roots; 3 calls, 2 faults or crashes; for the release 2 task versions and implementations, 3 operations, 1 notice | 1,584,541 |
| `host` | `RewardSound ChargedRight AcceptedIsWhole StoreKept ResolvedOnce WorkspaceKept WhatBeganEnds` | 2 processes, 1 workspace generation, 3 cases, 3 artifacts, 2 bases, 2 faults; for the registry 1 event, 1 crash | 808,127 |
| `preparation` | `ResolutionExact HistoryIsFair DeclarationsRead StudyIsSound SourceStands ContractGrounded` | 3 packages of 2 wheels, 1 change of the index; 3 events on a pull request of 2 pages; 4 commits, 3 statements, 3 requirement files, 4 sources, trees of 4 paths, 24-line files | 466,641 |

Two more runs are expected to fail, see section 5. Properties are conjunctions of
named parts; the comment at each part says what it is about. A type invariant
(`TypeOK`) is proved of the registry and left out of the runs.

*Why the bounds are enough.* The registry's guards compare a job with its own
attempts, a claim with its attempt, a row with its last revision and the counts
with the limits: two jobs of different limits, one place and three claims reach
every one of them on both sides (a third claim is needed for an attempt after the
limit; ten events for an expansion that is used). Quarantine is a reachability
question; the seven artifacts contain a direct, a transitive, a job-mediated and
a declared path. Storage has at most one event between database and journal at a
time, so two events and one crash show a recovery, a repeated call, a stale
snapshot and a conflicting key; the second process supplies every interleaving.
In the workflow two commands, one of them without the lock, one fault and one
crash give every pair of a lost answer and a second writer; phases after the
second authoring attempt repeat the behaviour of the first. A native run needs
two faults: only then are two gradings left unpublished, and the second retry,
which goes wrong, is reached (section 5). In training seven
groups allow one dispatch more than the budget of three (the last of a short
batch), and three jobs a recovery of a recovery and two competing ones; two updates would not do, as a
budget of two is used up by the first unknown dispatch. In the backend two
workers are told apart by one broadcast that misses one of them; three contents
are those of before, of an update and of a save that is not exact; two sessions
one that fails and one that finds what it left, and two failures one in the
operation and one in what is done about it. In evaluation two groups,
one of two trials, give a resumption before, inside and after a group; three calls
give a first evaluation, a recovery beside it and a recovery after both. Child
episodes, session construction and activation may fail any number of times; the
one fault is for a registry call, a close or a death. In the factory the batch
holds two calls' ceilings and there are three, one of which may overrun; two
revisions of a build are an outcome and one that differs; two faults a lost
publication and a lost recovery. On the host one generation is one that can be
saved twice; the cap of two bytes is below, at and above; two bases are a tag that
moved. In preparation the inputs were chosen so that each guard has
both answers: the packages hold a conflict met after a choice, an extra asked for
late and a pre-release; four commits hold a merge, a squash and a rebase with a
foreign commit between; three statements a definition, a change and a use; the
contracts, sources of another baseline, place and text.

*Deadlock* is off where the system stops by design: commands end and are not
called again beyond the bound, a function has no step.

*Liveness and fairness.* `WhatBeganEnds` states that what is under way ends: a
container left by a crash is removed, a watched command returns, a call of the
registry is answered. It assumes weak fairness of a controller's own steps
(`Step`, `Watcher`, `Work`): each is straight-line code whose only waits are the
polls of a lock or of a process under a deadline (storage.py:119,
generation/runner.py, docker.py:106); of the clock (`Time`), which the deadlines
are measured by; and, for containers, that operations on the workspace are asked
for again (`Asks`), since it is the next operation that recovers what a crash
left. Nothing is assumed of the watched command, which may ignore its signals, of
the daemon, of crashes or of the other process. The controllers of jobs state
no liveness property: they progress only when a person or supervisor calls them
again.

*Symmetry* is used over processes and interchangeable model values in the safety
runs only; a run with a temporal property over processes (`host`) uses none.

*Mutants.* Each property is broken by a change of one mapped definition that a
slip in that code could make: an attempt limit off by one, a call made though it
could not be announced, an update that writes over retained outputs.

## 5. Disagreements between code and documents

Two are runs that TLC must find violated:

* `workflow_race` (`OneStep`, pipeline/workflow.py:257). `retry_publication` does not take
  the candidate lock. It looks up the selected outcome and then records its own;
  a command that recovers in between selects another one, and both are accepted:
  a phase with two outcomes.
* `setup_script` (`ScriptIsInferred`, environments/inference.py:358). A call in a part of
  an expression, in the value of an assignment, or inside a loop, `with` or `try`, changes
  a list, which is still inferred as it was written.

The others are stated in the modules; each is violated when it is put into the
named configuration as an `INVARIANT` (`PROPERTY` for `RetainedIsRetried`), for a
module that is instantiated through a definition such as
`route = "..." => Name!Property`.

| Property | Module | Configuration | Code | What happens |
|---|---|---|---|---|
| `GradeAttributed` | `NativeRun` | `NativeRun` | agents/native_service.py:213 | the retained exception and the episode's state belong to different gradings: the verdict of one is recorded as that of another |
| `ShutdownRecorded` | `Training` | `MCTraining` | training/service.py:124 | the key of a failure's shutdown names only the attempt; the second session of it is closed without a record, and the job cannot be continued from its checkpoint |
| `SampledAsNamed` | `NativeBackend` | `MCTraining`, with `Doing("compare")` taken out of `Raised` | training/native.py:509 | a reload that is refused has been acknowledged: who goes on with the session samples weights that are not the policy's |
| `RetainedUntilClosed` | `Evaluation` | `MCEvaluation` | evaluation/service.py:543 | a recovery puts another session in the place of one whose close failed; nobody can confirm the first shutdown any more |
| `FrozenRecoverable` | `Authoring` | `MCFactory` | pipeline/authoring.py:358 | a late retry archives another status, with which the frozen receipt no longer agrees; it can never be completed |
| `RetainedIsRetried` | `GradePipeline` | `MCFactory` | pipeline/factory.py:348 | the retry of a grade that could not be linked looks for the link; the measured grade is lost |
| `FrozenCompletable` | `Audit` | `MCFactory` | audits/service.py:537 | a notice lifted between freeze and recovery keeps the report from completing |
| `BaseIsTheImages` | `ImageResolution` | `MCHost` | environments/command_resolution.py:141 | two builds outside the lock: the evidence names another base than the image's |
| `ReportedIsRecorded` | `CandidateRun` | `MCHost` | environments/command_runtime.py:258 | a version is named as saved that the record does not hold |
| `ExhaustionIsCandidates` | `CandidateRun` | `MCHost` | environments/command_runtime.py:240 | the candidate's exhausted budget is charged to the infrastructure |
| `NamedIsWhole` | `Grounding` | `MCPreparation`, without the condition on `feeds` in `ContractGrounded` | pipeline/context.py:128 | a form feed shifts the excerpt of a method |
| `HiddenIsRefused` | `StaticMetadata` | `MCPreparation`, of the inputs `setup.py` | environments/inference.py:380 | `setuptools.setup(...)` in a loop, `with`, `try` or `def`, where a setup call is looked for by its name only, is neither rejected nor counted: a later call is taken for the only one |

`PROJECT.json` quotes the sentence each of them contradicts. In the passing runs
the related properties are stated so that they hold, and say what they leave out:
`OneStepUnlessRefused` (of `OutcomesStand`) and `Implements` until a budget refusal
is retained; `GradeTraced` (of `GradeAccounted`) until a second retry;
`ShutdownRecordedOrRefused` (of `CheckpointsStand`) unless the key was taken;
`RetainedUntilReplaced` (of `SessionsAccounted`); `BackendSound` for owners that
close a session whose reload or activation failed, as the services do. (An owner
that did not close after a failed activation would also find that the initial arm,
activated next, is not loaded again: native.py:380 compares the policy the session
was at, which a failure leaves unchanged.) `DeclarationsRead` runs scripts that are
`Quiet`: calls are statements, blocks do nothing but assign, there is no `match`, and a
setup call is counted or refused. pip reads `-r` in a constraint file as requirements,
where inference.py:142 makes constraints of them; no document speaks of it, so
`RequirementsAreReached` asks for agreement with pip where no `-r` is below a `-c`, and
elsewhere that no line and no constraint is lost and nothing more is required.

`SoleOwnerClosed` of `NativeRun` is stated for a single session for a reason: two
commands of one request look up the startup key (training/factory.py:60) and may both
find it unused; the second announcement is taken for a repetition and both
construct a session. The job completes with the first one's shutdown while the
other is alive (docs/interfaces-M7.md:103: "Native ownership closes before parent
completion"). `OwnershipClosed` without the premise is violated by `native_run`'s
configuration.

## 6. Proofs

Every theorem holds for all values of the constants, under the named assumptions
of the modules: the types of the constants, and that a marker such as `None` or
`Nothing` is not one of the values it stands beside. The two theorems on checkpoints and
shutdowns of `TrainingProofs` have one hypothesis more, `NothingIsApart`: the process that
holds no session holds `Nothing`, and that is no record with the fields of a session (a
service's `self._live` is a session or `None`). It is stated with `DOMAIN`, which TLC
does not evaluate for a model value, so it is a hypothesis and not an `ASSUME`.
`RejectionIsApart` says likewise that an exception, which `TaskSource` shows as
`Rejection`, is none of the functions returned instead of it.

| Module | Theorem | Property |
|---|---|---|
| `RegistryProofs` | `TypeCorrect` | `TypeOK` |
| | `Ownership` | `OneOwner` |
| | `AttemptsBounded` | `NeverStranded` |
| | `TerminalStable` | `TerminalJobs` |
| | `Diagnosed` | `RetryDiagnosed` |
| | `ActiveBounded` | `ActiveCap` |
| | `LedgerMonotone` | `LedgerCumulative` |
| | `CompletionExact` | `CompletionBindsNewest` |
| | `GraphStaysSound` | `GraphSound` |
| | `AdmissionStaysClean` | `AdmissionClean` |
| | `ScopeStaysProtected` | `ProtectedScopeBlocks` |
| | `QuarantineStaysContained` | `QuarantineContained` |
| `RegistryStorageProofs` | `StaysRecoverable` | `Recoverable` |
| | `LogStaysKept` | `LogKept` (the refinement of `EventLog`) |
| `FeatureWorkflowProofs` | `StartedOnce` | `ExternalOnce` |
| | `OutcomesStay` | `OutcomesStand` |
| | `PromiseKept` | `Implements` (the refinement of `SelectedOutcome`) |
| | `SubmissionsAreSaved` | the session's part of `SourceStands` |
| | `ReferencesDecide` | the reference's part of `SourceStands` |
| | `ContractsAreGrounded` | the contract's part of `ContractGrounded` |
| | `OutcomesAreTheCalls` | the recovery's part of `ContractGrounded` |
| `EvaluationProofs` | `SampledAtMostOnce` | `SampledOnce` |
| | `SampledUnderOwnArm` | `SampledUnderItsArm` |
| | `SessionsStayAccounted` | `SessionsAccounted` |
| `NativeRunProofs` | `ExecutedOnce` | `CalledOnce` |
| | `SessionStaysBound` | `SessionBound` |
| | `GradesStayAccounted` | `GradeAccounted` |
| `TrainingProofs` | `TrainInvariant` | the invariant itself |
| | `UpdatesStayAccounted` | `UpdatesAccounted` |
| | `ShutdownsStayRecorded` | the third part of `CheckpointsStand` |
| | `CheckpointsStayConfirmed` | `CheckpointsStand` |
| | `BackendStaysSound` | `BackendSound` |
| `FactoryProofs` | `FactoryInvariant` | the invariant itself |
| | `EffectsStayOnce` | `EffectOnce` |
| | `CompletionsStayBound` | `CompletionBindsEffect` |
| | `OneCallStaysOpen` | the second half of `CallsReserved` |
| | `ReleasesStand` | `ReleaseStands` |
| `HostProofs` | `WorkspaceStaysKept` | `WorkspaceKept` |
| | `RewardStaysSound` | `RewardSound` |
| | `ChargesStayRight` | `ChargedRight` |
| | `AcceptedStaysWhole` | `AcceptedIsWhole` |
| | `StoreStaysKept` | `StoreKept` |
| | `ResolutionStaysOne` | `ResolvedOnce` |

**Registry.** `TypeOK` is inductive. `OneOwner` is not: that a job is running
exactly when its last attempt is, that the earlier ones are over, and that every
attempt appears in one job's list only (`Owners`) is what a claim, an
abandonment or a completion preserves. With `Owners` every step changes the
attempt list of a job by appending one claimed attempt or not at all
(`JobStep`), which gives the bound on attempts, the stability of completed jobs
and, with the evidence of each abandonment, `Diagnosed`. `ActiveBounded` counts:
only `Enqueue` adds to the active jobs, and a retried job was active while
paused; it needs that the set of jobs is finite and a lemma on the cardinality
of a set with one element more. `LedgerMonotone` strengthens the property to all
pairs of revisions (`LedgerInv`), because `CostKept` between neighbours is
transitive (`CostKeptTransitive`), and the new revision is compared with its
neighbour only. `CompletionExact` is a property of one step: the observations of a
completion are the newest of its attempt, by the guard, and stay so.

The four theorems on the graph and on quarantine rest on `GraphInv`: the index is
closed under dependencies, has no cycle, and jobs and notices name registered
artifacts only. A closure is the least closed set, so what `Closure` and `Affected`
yield is bounded by exhibiting closed sets (lemmas on `Closure`), without an
induction over paths. `GraphStep` sums up what a step may do: the index grows by
artifacts whose dependencies were there or come with them, old entries keep their
dependencies, and at most one job is admitted, with a clean closure under the
state before. That state and the next are then compared (`AffectedIn`): a step that
admits only clean artifacts adds nothing to what a notice affects.

**Storage.** `StorageInv` has a part for the disk (`Disk`: an undamaged journal lags as
`JournalSound` says, tables are created before anything is committed) and one for each
session (`Session`: a session past the lock is its holder; one that has loaded knows
exactly what is committed; one that builds or answers sees a whole journal; an
acknowledgement under way is of a whole journal; a row that was inserted is of a new key
within the capacity). A remembered snapshot is of a whole journal (`Verified`), so
`Reuse` is as good as `Load`. What one session does leaves the others alone
(`OthersKeep`), because only the holder of the lock touches the files (`Exclusive`). The
refinement needs `Calls`, the type of `call`, for the crash of a process that was asked
nothing: it is a stutter of the log.

**FeatureWorkflow.** `OnceInv` adds what makes the counter of external work
safe: whoever looks at phases or calls their work is inside the request's lock,
and `retry_publication` never gets there (`Exclusive`); rows never shrink
(`Grows`); work whose row is empty, and work that the controller at `call` is about
to start, has not run (`Unstarted`). `StandInv` says what anybody may know of a
phase: whatever a controller, a retained publication, a child job or a row holds as
the outcome of a phase is the selected outcome or the only one there is (`Recorded`,
`ExternalAgreed`), and phases are announced in order (`Ordered`), as long as no
refusal is retained. Every action is summed up by what it adds to the rows and to
what is known (`Frame`, `NoNews`, `Monotone`), and the refinement step is read off the
same summary. `OutcomeAssumption` keeps `None` apart from the outcomes.

**Preparation.** The functions that make a submission, a reference, a contract and a
recovered call are proved right for all inputs, where `MCPreparation` draws from small
sets. A submission is what was saved because an archive is read as it was written
(`ReadAgain`, on `Listed`: `SetToSeq` lists a finite set), a file that two saves changed
was changed by one of them (`ChangedOnce`), and no file that may change is dropped as a
cache (`NoCacheChanges`). A contract is grounded because each source that the store
confirms comes from it (`SourceIs`). The hypotheses are the types of the inputs: a tree
is finite and no path of it lies below another file (`Tree`); a call that its limits
refused left nothing (`IsOperation`).

**Evaluation.** `SampleInv` adds that a trial whose child was never dispatched has
not been sampled, and that a running episode is of a dispatched trial: a crash
or an error in the middle of an episode cannot make its trial assignable again.
`SessionInv` follows the sessions. `Retaining` relates the handle and the opening a
process holds, and the sessions of its life, to the rows: a session that left its hands
has its shutdown on record or was followed by a later one. `Trials` says that up to its
place in the plan every trial is completed and activated in this session, and that what
is loaded is the group of the trial; `Reporting` and `Frozen` that an execution is frozen
once, of a session that ran the whole plan; `Bound` counts the sessions that started or
may still start against the calls. It uses that a plan is a sequence, that the bound
on calls is a number (`PlanAssumption`), and that `Nothing` is no handle and no opening
(`NothingAssumption`).

**NativeRun.** `CalledOnce` is not inductive: `reconcile`
accepts a revision that is already recorded, so a process that announced a phase
under the date it had used before would be told that its announcement went
through, and would call again. `CallInv` says why that cannot happen. Phases have a
rank in the order an episode takes them; a process in an episode has announced
nothing under its stamp from its own place on (`Mark`, `Behind`); two processes in an
episode have different stamps, because the job is claimed once and each
`retry_publication` dates anew; nobody is at stamp 0 while the job can still be
claimed, and stamps to come have announced nothing (`Unused`); a process about to
call has announced that phase and nobody has executed it (`Executed`). Most steps
move one process out of the episode or onward in it (`OnwardKeeps`); the steps that
need the argument are the claim, the announcement, the call and the retry.

`SessionBound` takes two more invariants. `OwnInv` says how far the session of a process
is at each of its places (`Along`), that a live session is on record (`OnRecord`), and,
for the closed ownership, that one session started leaves one process with it until a
shutdown is confirmed (`Sole`). `BindInv` follows the child's result: the frozen row is
empty or of one receipt, which a completed run's result is; an outcome in the child's row,
a result that a service remembers and a completed job's result are the run's
(`Keeping`). Three facts carry it: rows are of at most two revisions, a service remembers a
result only after the run was completed, and a completed run never changes.

`GradeAccounted` takes three more. `SampleInv` separates the episode from its grading:
at most one process samples, it has at most the phase it is in announced and not
recorded, and once anybody submits, grades, or still owes the publication of either, the
episode is over and every announced phase of it is recorded (`Over`). `HeldInv` says of
the exceptions the service keeps that the one it retries is the oldest (`PendingInv`), and
that a first run owes none. `GradeInv` follows a grade from the grader to the frozen
outcome: what a process knows at each place (`Knows`), what it and the publications it
still owes remember (`Remembers`: every grading before its own is recorded without a
verdict), that a grading is announced only after the ones before it were so recorded and
recorded with what it, or an earlier one without a verdict, decided (`RowsTraced`,
`Traced`), and that a measured frozen outcome is the recorded one of its own grading
(`Backed`). `Later` is what all steps but a grading's own have in common: what was graded
and recorded stays.

**Training.** The budget is one of a lineage, not of a job: a job that resumes a checkpoint
starts with a journal of its own, in which the dispatches without an outcome are counted.
`TrainInv` places every dispatch. Of a lineage at most one journal may still go on
(`Ongoing`, `Lineages`): superseding the old one and starting the new one are two writes,
and between them the old journal says who takes over. There is a choice of an index below
`MaxUpdates` for each dispatch, different for two of one lineage, so that every dispatch
came before the journal that may go on (`Placing`, `Before`): its index is below what the
journal has spent, or is the next one, whose row is then written and whose batch is not
dispatched again (`Settled`); its positions are below the sampler's and not among the
groups that wait. That is what makes the estimate of a recovery right: the dispatches that
came after the checkpoint all have rows, so `Later` counts enough of them
(`BeforeRestored`). `Along` follows a call: what it knows of its journal at each place, that
its session holds the weights the batch was sampled from (`Fits`), and that the checkpoint
it resumes is where the old journal ends (`Bound`). One call is under way at a time
(`Alone`); the others are idle or close a session, and know nothing that a step of it can
disturb (`Bystanders`). Each action falls under one of a few steps: one that leaves jobs and
journals alone (`QuietStep`), one that writes its own journal (`OwnWrite`), superseding,
the first journal of a job (`NewJournal`), a change in the registry (`JobStep`). That the
indices of a lineage are different gives the budget, by the pigeonhole principle.

`CheckpointsStand` takes two invariants beside `TrainInv`. `StandInv` follows the tensors.
`Confirmed` says of a sequence of weights that it has as many updates as it is said to have,
that each has a second revision in its row, and that none is there twice; it is preserved
because rows of updates only grow, to three revisions (`RowsGrow`). A journal has confirmed
weights, and a checkpoint of its own job stands for exactly where it is (`JournalStands`);
every checkpoint on record is of the third revision of its row and confirmed (`RowStands`).
What the session holds may be ahead of the journal, by the dispatched update, at
four places only (`Follows`): there it is the journal's weights and that update, and from
the confirmation on the update's row has its second revision. While a journal is at a
position without weights, a session of its job was given none (`Untrained`), so `Restore`,
which then loads nothing, continues with the right ones.
Success is decided where the budget is spent, so nothing remains to be dispatched after the
selected checkpoint (`ResultStands`); a recovered job starts from a checkpoint of another
job (`ResumesWell`), which is therefore not mistaken for its own. `ShutInv` follows the
sessions: the row of a shutdown key is of one session, announced and then shut
(`IsShutdown`); a startup is published by a process that has no session (`Publishing`); and
while nothing has failed, a session that could not be announced is of a key that another
has taken (`Unannounced`).

**NativeBackend.** `BackendSound` is about sessions whose steps may stop anywhere, so
`BackendInv` says of every point of an operation what has been done. `Place` lists the
operations by what is left of them (`Sync4` to `Save8` are the tails of the sequences
`todo`): on each, what the trainer holds, whether a worker has been told of it, and whether
an export is on disk. `LiveInv` is the promise: while acknowledgments stand, the session is
at the policy they are for, and the trainer and all workers hold its weights; the
exception is a reload under comparison, or one that was refused, whose session is being
given up. Steps that change weights are therefore to be behind a `begin`, which takes the
acknowledgments away (`Silent`), or leave a session that only closes. `ConfirmedHolds` adds
to `CheckpointsHold` that the step of a confirmed checkpoint is one of the bound and holds
its tensors, which no later operation touches, because an update looks for the outputs of
its step first; `Losses` that the project's loss is registered before any training.
That minibatches are whole is an arithmetic fact of `Boundaries` (`BoundariesWhole`) for
batches of up to three groups with any number of rows, which is what `Batches` offers; for
longer ones it would be an induction. `UpdaterInv` says that a kept
model is whole and has the steps it is counted by. `BackendAssumption` (there is a worker,
contents are positive numbers, `Nothing` is none) is evaluated by TLC in `training`.

**Factory.** `FactoryInv` has one part for each of the controllers that `MCFactory`
puts side by side, and of the four that have jobs it says three things. What a job is for was done at most
once, and not before its attempt began: a job has one attempt, so who is between the
claim and the call is alone there (`Once`). Because the call is counted and not the row,
a process that fails after the call, or dies, cannot make it happen again: the attempt
is spent. A place in the code, and an exception that is retained across calls, has its
evidence on record (`AuthorPlace`, `AuthorRetained`, `GradePlace`, `AuditPlace`): a
receipt is drawn from the request, the cost and the status that its own row holds
(`Drawn`), a notice is there for each root the audit is done with. A completed job's
result is among what its completion bound.

Construction needs more, because its jobs are keyed by what they are made from and not by
the attempt. `Importing`: who may enqueue the import of a candidate's costs holds the
candidate's lock and has seen that no other revision of the Factory has done it.
`Assembling`: nothing keeps two processes from recovering one build, and it is assembled
only by the process whose nonce was the first announced; nonces are drawn once
(`made`), so the row that names one names one process. `Building` carries the build's
result into the construction that completes with it. `OneCallStaysOpen` rests on the batch's
lock in the same way (`AuthorLocked`). What a step may do to its jobs, rows, counts and
places is stated once (`JobAllowed`, `RowsAllowed`, `CountsAllowed`, `PlaceAllowed`) and each
action is shown to be such a step. That `Nothing` is no report (`NothingAssumption`) is
evaluated by TLC in `factory`.

The release is a part of its own. `ReleaseStands` holds because of what a walk leaves
behind: an artifact found usable, and a report with all it names and declares, is clear of
the notices in force since the operation began, and stays so, as these only shrink
(`Clean`). What is still to be found usable is in the rest of the walk (`Operation`), so an
answer has all of it behind it. Of the store it needs that a report is registered with what
it declared, and that a task past "built" has an accepted report of its own (`StoreInv`).
That a released task was qualified by the same report (`Sequenced`) follows from the walk
too: the predecessor was found in the registry.

**Host.** The parts share no state, so there is one invariant for each, under its route.
`HostAssumption` says that the bounds are numbers, that there is a base to build on, and
that `None`, `Nothing` and `Nobody` are none of the values they stand beside; TLC evaluates
it in `host`.

`DockerInv` is the one with many actors. Who is at a place under the lock holds it
(`Holding`), so what it does to the records, the workspace and the containers leaves
what the others know alone (`OthersKnow`). A container cannot be judged by its state
alone, because the daemon may still do what was given up: it is `Dead` when it does
not run and, if a start of it is still on its way, it is gone and nothing is left that
creates it. Nothing is asked for before the intent is on record, a start is asked for
only of a container whose creation was answered (`RecordsHold`), and a
result says that a cleanup is verified only where the container is dead (`Knows`); dead
containers stay dead whatever is carried out late (`LateStep`). An identifier that a
result has named may not be drawn again: `DockerInv` is not inductive otherwise, a
record that could not be written being the one of an operation already reported. The
code draws a `uuid4` (docker.py:271), and `Fresh` says the same. `Admitted` is the
reason why a generation is saved once: between the admission and the save the lock is
held, so that the generation that was read is still the one there.

`WorkerInv` says of a grade that is still an acceptance that every case before the next
one was decided, and the mandatory ones passed, up to its publication. `RunInv` says of a
build or an execution where it can be, what each receipt and the error mean there, and what
of the source is on record; every command, save and cleanup is shown to keep it.
`CommandInv` keeps apart what was written and what was read, and says at each phase who
of the group can still write. `StoreInv` says that a name only ever shows all of what a
writer wrote whose references were checked, and that what a put returned is durable;
`ImagesInv` that what was returned is the one resolution on record, and that whoever builds
under the lock holds the base its image is of.

Model-checked only: the half of `CallsReserved` that is a sum (`BudgetReserved`: what a sum over a set of calls is
worth after one more call needs an induction over finite sets); the rest of
preparation (packages are named with `ToString`; the others fold over sequences or search,
which needs an induction); liveness (`WhatBeganEnds` of host among it) and anything about
`ENABLED`, which the prover does not handle. RECURSIVE
operators are only in `DependencySolver` and `StaticMetadata`, which no theorem reaches;
elsewhere `Acyclic`, `Closure` and `Ancestors` are written with sets, and functions over
sequences are recursive functions.

## 7. Not modelled

* *Task packaging from DeepSWE* (`pipeline/deepswe.py`, `deepswe_train.py`,
  `native_bootstrap.py`): single-shot commands over files of another project.
* *Contracts* (`contracts/models.py`): data models. Which documents they admit is in
  the modules where a property depends on it.
* *Losses, logits, gradients* (`torch_backend.py`, `worker_state.py`) and the assembly of
  SkyRL's configuration: floating point and glue. That losses are registered once,
  that minibatches are whole and what a failed step leaves is in `NativeBackend`.
* *Bootstrap and binomial intervals* (`evaluation/statistics.py`, `audits/statistics.py`):
  floats from a seeded generator. *Attestation* (`audits/attestation.py`): the check of
  an SSH signature.
* *Advantages, trace validation and the choice of the task at a sampler position*
  (`training/data.py`, `core.py`): a group is an answer in `Training`.
* *Rendering and parsing* of prompts, provider events, diffs, lock files and manifests
  of other toolchains (`agents/protocol.py`, `generation/schema.py`,
  `history/classification.py`, `environments/cargo_manifest.py`, `wheels.py`): text, about
  which nothing above it depends on more than on a value.
* *Costs* outside the registry and authoring's budgets: the controllers' are functions
  of the outcome.
* *The lineage of a submission* (agents/runner.py:355) would need `Registry` and `AgentRun`
  over one set of artifacts; `PROJECT.json` lists the hazard without a property.

* *Setup scripts* whose guarded body is more than one statement, and setup called for the
  value of an assignment; *timestamps* of a pull request, whose `version` in `Capture` is
  exact where GitHub's is to the second, and the reviews, which `VerifiedIsOneState` leaves
  out because they are listed without a count.

## 8. Plan

Done: every module of section 3 and its run. What a continuation would take up,
in this order:

1. The composition of `Registry` with `AgentRun`, for the lineage of submissions, and of
   `Training` with `NativeBackend`, whose `update` and `save_reload` are the abstract
   steps of the first and the sequences of the second.
2. Recipes and manifests of the other toolchains.

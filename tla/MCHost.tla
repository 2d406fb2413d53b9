-------------------------------- MODULE MCHost --------------------------------
(***************************************************************************)
(* What runs on one host: two controllers and a Docker daemon, a grade of  *)
(* three cases, a build or execution of a candidate, a command under       *)
(* watch, two writers of the artifact store, two resolutions of one image, *)
(* two controllers at the registry's lock.                                 *)
(* They share no state; which of them a behaviour is about is chosen at    *)
(* the start.                                                              *)
(***************************************************************************)
EXTENDS Naturals

CONSTANTS Process, Nobody, Nothing, None, MaxOps, MaxFaults, Cases, Cap,
          Base, Package, MaxRuns, MaxPolls, JustRead, Garbled,
          Artifact, VisibilityOf, RefsOf, p1, p2, public, authored, hidden, d1, d2

MCProcess == {p1, p2}

\* A public artifact that refers to an authored one is refused to everyone; one that the
\* authored artifact claims to be authored is for the evaluator alone.
MCArtifact == {public, authored, hidden}
MCVisibilityOf == [a \in MCArtifact |-> IF a = public THEN "public"
                                        ELSE IF a = authored THEN "authoring" ELSE "evaluation"]
MCRefsOf == [a \in MCArtifact |->
              IF a = public THEN {[to |-> authored, as |-> "public"]}
              ELSE IF a = authored THEN {[to |-> hidden, as |-> "authoring"]}
              ELSE {[to |-> hidden, as |-> "evaluation"]}]

VARIABLES route,
          pc, mem, faults, lock, phase, container, asked, workspace, request, pointer,
          snapshots, told,                                              \* DockerRuntime
          mandatory, at, next, status, grade, cleanup, unpublished,     \* GradeWorker
          operation, step, receipts, error, ran, version, reported, clean, result, \* CandidateRun
          runner, leader, others, written, closed, late,
          read, termination, failures, verified,                        \* BoundedProcess
          put, file, named, durable, returned, got,                     \* ArtifactStore
          flow, tag, record, run, runs,                                 \* ImageResolution
          files, hot, committed, ack, lines, tail, listed, local, cache,
          call, answer, crashes, damages                                \* RegistryStorage

Docker == INSTANCE DockerRuntime 
Worker == INSTANCE GradeWorker
Run == INSTANCE CandidateRun
Command == INSTANCE BoundedProcess
Store == INSTANCE ArtifactStore
Images == INSTANCE ImageResolution
Registry == INSTANCE RegistryStorage WITH
    Client <- Process, Read <- JustRead, MaxEvents <- 1, MaxCrashes <- 1, MaxFaults <- 0, MaxDamages <- 0,
    Event <- {[key |-> 1, data |-> d1], [key |-> 1, data |-> d2], [key |-> 2, data |-> d1]}

\* The bounds are numbers, there is a base to build on, and what stands for nothing or nobody
\* is told from what it stands beside.
Records == [base : Base, image : Images!Image, closure : Images!Image, by : Process]
Reasons == Run!Ends \cup {"infrastructure_failure", "source_rejected", "source_unavailable",
                          "setup_failed", "command_failed"}
ASSUME HostAssumption ==
    /\ Cases \in Nat /\ Cap \in Nat
    /\ Base # {} /\ Nobody \notin Process
    /\ None \notin Images!Image \cup Records
    /\ Nothing \notin Run!Ends \cup [reason : Reasons, category : {"candidate", "infrastructure", "unresolved"}]

dockerOwn == <<mem, container, asked, workspace, request, pointer, snapshots, told>>
workerOwn == <<mandatory, at, next, grade, cleanup, unpublished>>
runOwn == <<operation, step, receipts, error, ran, version, reported, clean, result>>
commandOwn == <<runner, leader, others, written, closed, late, read, termination, failures, verified>>
storeOwn == <<put, file, named, durable, got>>
imagesOwn == <<flow, tag, record, run, runs>>
registryOwn == <<files, hot, committed, ack, lines, tail, listed, local, cache, call, answer,
                 crashes, damages>>
vars == <<route, dockerOwn, workerOwn, runOwn, commandOwn, storeOwn, imagesOwn, registryOwn,
          pc, faults, lock, phase, status, returned>>

\* What the other parts keep while one of them is at work.
NoDocker == mem = 0 /\ container = 0 /\ asked = 0 /\ workspace = 0 /\ request = 0
            /\ pointer = 0 /\ snapshots = 0 /\ told = 0
NoWorker == mandatory = 0 /\ at = 0 /\ next = 0 /\ grade = 0 /\ cleanup = 0 /\ unpublished = 0
NoRun == operation = 0 /\ step = 0 /\ receipts = 0 /\ error = 0 /\ ran = 0 /\ version = 0
         /\ reported = 0 /\ clean = 0 /\ result = 0
NoCommand == runner = 0 /\ leader = 0 /\ others = 0 /\ written = 0 /\ closed = 0 /\ late = 0
             /\ read = 0 /\ termination = 0 /\ failures = 0 /\ verified = 0
NoStore == put = 0 /\ file = 0 /\ named = 0 /\ durable = 0 /\ got = 0
NoImages == flow = 0 /\ tag = 0 /\ record = 0 /\ run = 0 /\ runs = 0

NoRegistry == files = 0 /\ hot = 0 /\ committed = 0 /\ ack = 0 /\ lines = 0 /\ tail = 0
              /\ listed = 0 /\ local = 0 /\ cache = 0 /\ call = 0 /\ answer = 0 /\ crashes = 0
              /\ damages = 0

Init ==
    \/ /\ route = "docker" /\ Docker!Init
       /\ NoWorker /\ NoRun /\ NoCommand /\ NoStore /\ NoImages /\ NoRegistry /\ status = 0 /\ returned = 0
    \/ /\ route = "grade" /\ Worker!WorkerInit
       /\ NoDocker /\ NoRun /\ NoCommand /\ NoStore /\ NoImages /\ NoRegistry
       /\ pc = 0 /\ faults = 0 /\ lock = 0 /\ phase = 0 /\ returned = 0
    \/ /\ route = "candidate" /\ Run!RunInit
       /\ NoDocker /\ NoWorker /\ NoCommand /\ NoStore /\ NoImages /\ NoRegistry
       /\ pc = 0 /\ faults = 0 /\ lock = 0 /\ phase = 0 /\ status = 0 /\ returned = 0
    \/ /\ route = "command" /\ Command!Init
       /\ NoDocker /\ NoWorker /\ NoRun /\ NoStore /\ NoImages /\ NoRegistry
       /\ pc = 0 /\ faults = 0 /\ lock = 0 /\ returned = 0
    \/ /\ route = "store" /\ Store!Init
       /\ NoDocker /\ NoWorker /\ NoRun /\ NoCommand /\ NoImages /\ NoRegistry
       /\ pc = 0 /\ lock = 0 /\ phase = 0 /\ status = 0
    \/ /\ route = "images" /\ Images!Init
       /\ NoDocker /\ NoWorker /\ NoRun /\ NoCommand /\ NoStore /\ NoRegistry
       /\ pc = 0 /\ faults = 0 /\ phase = 0 /\ status = 0
    \/ /\ route = "registry" /\ Registry!Init
       /\ NoDocker /\ NoWorker /\ NoRun /\ NoCommand /\ NoStore /\ NoImages
       /\ phase = 0 /\ status = 0 /\ returned = 0

Next ==
    /\ UNCHANGED route
    /\ \/ /\ route = "docker" /\ Docker!Next
          /\ UNCHANGED <<workerOwn, runOwn, commandOwn, storeOwn, imagesOwn, registryOwn, status, returned>>
       \/ /\ route = "grade" /\ Worker!WorkerNext
          /\ UNCHANGED <<dockerOwn, runOwn, commandOwn, storeOwn, imagesOwn, registryOwn,
                         pc, faults, lock, phase, returned>>
       \/ /\ route = "candidate" /\ Run!RunNext
          /\ UNCHANGED <<dockerOwn, workerOwn, commandOwn, storeOwn, imagesOwn, registryOwn,
                         pc, faults, lock, phase, status, returned>>
       \/ /\ route = "command" /\ Command!Next
          /\ UNCHANGED <<dockerOwn, workerOwn, runOwn, storeOwn, imagesOwn, registryOwn,
                         pc, faults, lock, returned>>
       \/ /\ route = "store" /\ Store!Next
          /\ UNCHANGED <<dockerOwn, workerOwn, runOwn, commandOwn, imagesOwn, registryOwn,
                         pc, lock, phase, status>>
       \/ /\ route = "images" /\ Images!Next
          /\ UNCHANGED <<dockerOwn, workerOwn, runOwn, commandOwn, storeOwn, registryOwn,
                         pc, faults, phase, status>>
       \/ /\ route = "registry" /\ Registry!Next
          /\ UNCHANGED <<dockerOwn, workerOwn, runOwn, commandOwn, storeOwn, imagesOwn,
                         phase, status, returned>>

dockerVars == Docker!vars
commandVars == Command!processVars
registryVars == Registry!vars

\* The fairness of each part.
Fairness ==
    /\ \A p \in Process : /\ WF_dockerVars(route = "docker" /\ Docker!Step(p))
                          /\ WF_dockerVars(route = "docker" /\ Docker!Asks(p))
    /\ WF_commandVars(route = "command" /\ Command!Watcher)
    /\ WF_commandVars(route = "command" /\ Command!Time)
    /\ \A p \in Process : WF_registryVars(route = "registry" /\ Registry!Work(p))

Spec == Init /\ [][Next]_vars /\ Fairness

--------------------------------------------------------------------------
(* What each part promises. *)

\* environments/docker.py, runtime.py: a container runs only while its record says so; a
\* generation of the workspace is saved once; a candidate is frozen to one resolution.
WorkspaceKept ==
    /\ [](route = "docker" => Docker!NothingRunsUnrecorded)
    /\ [][route = "docker" => Docker!GenerationStep /\ Docker!FreezeStep]_vars

\* grading/service.py: a published reward says what was run, and never that of a case
\* nobody could decide or of a container that may still run.
RewardSound == route = "grade" => Worker!RewardSound

\* environments/runtime.py, command_runtime.py: what went wrong is charged to who did it,
\* and a source is called saved when it is.
ChargedRight == route = "candidate" => Run!ChargedRight

\* generation/runner.py, docker.py, git.py: a command is taken for complete only when it
\* is, with all of its output.
AcceptedIsWhole == route = "command" => Command!AcceptedIsWhole

\* What is under way: a container that runs (environments/docker.py recover_owned), a
\* command that is watched (generation/runner.py run), a call of the registry whose lock
\* others keep busy (registry/storage.py session).
UnderWay(p, o) ==
    \/ route = "docker" /\ container[o] = "running"
    \/ route = "command" /\ phase # "returned"
    \/ route = "registry" /\ call[p] # None

\* All of it ends, whatever crashed, ignores its signals or came first.
WhatBeganEnds == \A p \in Process, o \in 1..MaxOps : UnderWay(p, o) ~> ~UnderWay(p, o)

\* artifacts/store.py: a name shows whole content for good, to whom it may concern.
StoreKept == route = "store" => Store!ContentStands /\ Store!ReadAsAllowed

\* environments/resolution.py, images.py: one resolution for one set of declarations, whose
\* evidence is of its own image.
ResolvedOnce == route = "images" => Images!ResolvedOnce /\ Images!EvidenceBindsBase
=============================================================================

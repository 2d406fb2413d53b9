---------------------------- MODULE DockerRuntime ----------------------------
(***************************************************************************)
(* environments/docker.py and runtime.py: operations on one workspace in   *)
(* containers of a Docker daemon.  An operation owns a durable record, a   *)
(* container, and, while it works, the state directory's lock; a lock that *)
(* is held is not waited for.  Controllers die at any step; a request to   *)
(* the daemon may fail, or be carried out after its caller gave it up.     *)
(***************************************************************************)
EXTENDS Naturals, Sequences

CONSTANTS Process,
          Nobody,
          MaxOps,       \* operations with a container
          MaxFaults     \* requests and writes that fail, and crashes

VARIABLES pc, mem, faults,
          lock,         \* who holds runtime.lock
          phase,        \* phase[o]: the durable record of operation o
          container,    \* container[o]: what the daemon has
          asked,        \* requests given up that the daemon may still carry out
          workspace,    \* [generation, saved, closed]
          request,      \* the dependency resolution a request is frozen to, or 0
          pointer,      \* the resolution the candidate is frozen to, or 0
          snapshots,    \* resolutions ever computed
          told          \* operations whose result says their cleanup is verified

vars == <<pc, mem, faults, lock, phase, container, asked, workspace, request, pointer,
          snapshots, told>>

disk == <<phase, workspace, request, pointer>>
daemon == <<container, asked>>

Ops == 1..MaxOps
At(p, label) == pc[p] = label
Goto(p, label) == pc' = [pc EXCEPT ![p] = label]
Forgotten == [kind |-> "none", op |-> 0, seen |-> [generation |-> 0, saved |-> 0],
              resolution |-> 0, failed |-> FALSE, verified |-> FALSE]

Init ==
    /\ pc = [p \in Process |-> "idle"]
    /\ mem = [p \in Process |-> Forgotten]
    /\ faults = 0
    /\ lock = Nobody
    /\ phase = [o \in Ops |-> "none"]
    /\ container = [o \in Ops |-> "none"]
    /\ asked = {}
    /\ workspace = [generation |-> 0, saved |-> 0, closed |-> FALSE]
    /\ request = 0
    /\ pointer = 0
    /\ snapshots = 0
    /\ told = {}

Fault == faults < MaxFaults /\ faults' = faults + 1

\* A write of the state directory (a new file renamed over the old one) is done or not
\* when it raises.
Write(p, done, same, ok, bad) ==
    \/ done /\ Goto(p, ok) /\ UNCHANGED faults
    \/ Fault /\ (done \/ same) /\ Goto(p, bad)

\* The call raises: the memory of it is gone and so is the lock, if it was taken.
Raise(p) ==
    /\ Goto(p, "idle")
    /\ lock' = IF lock = p THEN Nobody ELSE lock
    /\ mem' = [mem EXCEPT ![p] = Forgotten]

\* A step at a label that needs the lock, and raises when another has it.
Lock(p, label, ok) ==
    /\ At(p, label)
    /\ IF lock = Nobody THEN lock' = p /\ Goto(p, ok) /\ UNCHANGED mem ELSE Raise(p)
    /\ UNCHANGED <<faults, disk, daemon, snapshots, told>>

\* Mutant: what was never confirmed to run was never started.
UnownedRunning == {o \in Ops : phase[o] \in {"running", "cleanup_pending"}}

Unowned == {o \in Ops : phase[o] \notin {"none", "removed"}}

--------------------------------------------------------------------------
(* Every operation first recovers what a crash left. *)

Start(p, kind) ==
    /\ At(p, "idle")
    /\ Goto(p, "recover")
    /\ mem' = [mem EXCEPT ![p] = [Forgotten EXCEPT !.kind = kind]]
    /\ UNCHANGED <<faults, lock, disk, daemon, snapshots, told>>

RecoverOwned(p) == Lock(p, "recover", "recovering")

Recovering(p) ==
    /\ At(p, "recovering")
    /\ IF Unowned # {}
       THEN /\ \E o \in Unowned : mem' = [mem EXCEPT ![p].op = o]
            /\ Goto(p, "pending") /\ UNCHANGED lock
       ELSE /\ lock' = Nobody
            /\ IF mem[p].kind = "recover"
               THEN Goto(p, "idle") /\ mem' = [mem EXCEPT ![p] = Forgotten]
               ELSE Goto(p, "read") /\ UNCHANGED mem
    /\ UNCHANGED <<faults, disk, daemon, snapshots, told>>

\* The workspace as it is now; what is closed is refused.
Read(p) ==
    /\ At(p, "read")
    /\ IF workspace.closed THEN Raise(p)
       ELSE /\ mem' = [mem EXCEPT ![p].op = 0, ![p].seen =
                          [generation |-> workspace.generation, saved |-> workspace.saved]]
            /\ Goto(p, IF mem[p].kind \in {"reset", "close"} THEN "settle" ELSE "resolve")
            /\ UNCHANGED lock
    /\ UNCHANGED <<faults, disk, daemon, snapshots, told>>

--------------------------------------------------------------------------
(* candidate_dependencies: the resolution a candidate is frozen to. *)

Resolve(p) == Lock(p, "resolve", "look up")

\* Mutant: a request is solved again when the candidate was not pointed at its solution.
FrozenRequest == 0

\* The resolution already stored for the very request.
Frozen == request

\* A retained pointer is followed; a request already frozen is never solved again.
LookUp(p) ==
    /\ At(p, "look up")
    /\ IF Unowned # {} THEN Raise(p) /\ UNCHANGED snapshots
       ELSE IF pointer # 0
       THEN /\ Goto(p, "enter") /\ lock' = Nobody /\ UNCHANGED snapshots
            /\ mem' = [mem EXCEPT ![p].resolution = pointer]
       ELSE IF Frozen # 0
       THEN /\ Goto(p, "point") /\ UNCHANGED <<lock, snapshots>>
            /\ mem' = [mem EXCEPT ![p].resolution = Frozen]
       ELSE /\ Goto(p, "freeze") /\ UNCHANGED lock
            /\ snapshots' = snapshots + 1
            /\ mem' = [mem EXCEPT ![p].resolution = snapshots + 1]
    /\ UNCHANGED <<faults, disk, daemon, told>>

FreezeRequest(p) ==
    /\ At(p, "freeze")
    /\ Write(p, request' = mem[p].resolution, UNCHANGED request, "point", "unlock")
    /\ UNCHANGED <<mem, lock, phase, workspace, pointer, daemon, snapshots, told>>

Point(p) ==
    /\ At(p, "point")
    /\ Write(p, pointer' = mem[p].resolution, UNCHANGED pointer, "resolved", "unlock")
    /\ UNCHANGED <<mem, lock, phase, workspace, request, daemon, snapshots, told>>

Resolved(p) ==
    /\ At(p, "resolved")
    /\ Goto(p, "enter") /\ lock' = Nobody
    /\ UNCHANGED <<mem, faults, disk, daemon, snapshots, told>>

Unlock(p) ==
    /\ At(p, "unlock") /\ Raise(p)
    /\ UNCHANGED <<faults, disk, daemon, snapshots, told>>

--------------------------------------------------------------------------
(* DockerSession: the intent is durable before the daemon is asked for anything. *)

\* An identifier nobody has used: it is drawn at random.
Fresh == {o \in Ops : phase[o] = "none" /\ o \notin told /\ \A p \in Process : mem[p].op # o}
Enter(p) ==
    /\ At(p, "enter")
    /\ IF lock # Nobody \/ Fresh = {} THEN Raise(p)
       ELSE /\ lock' = p /\ Goto(p, "intent")
            /\ mem' = [mem EXCEPT ![p].op = CHOOSE o \in Fresh : TRUE]
    /\ UNCHANGED <<faults, disk, daemon, snapshots, told>>

\* Whatever fails from here on, the session is cleaned up before its lock is left.
Persist(p, label, value, ok) ==
    /\ At(p, label)
    /\ LET o == mem[p].op IN
       Write(p, phase' = [phase EXCEPT ![o] = value], UNCHANGED phase, ok, "pending")
    /\ UNCHANGED <<mem, lock, workspace, request, pointer, daemon, snapshots, told>>

Intent(p) == Persist(p, "intent", "intent", "admit")

\* Mutant: what was read before the lock was taken is taken for granted.
AdmittedAnyway(p) == ~workspace.closed

Admitted(p) ==
    /\ ~workspace.closed
    /\ workspace.generation = mem[p].seen.generation
    /\ workspace.saved = mem[p].seen.saved

Admit(p) ==
    /\ At(p, "admit")
    /\ Goto(p, IF Admitted(p) THEN "create" ELSE "pending")
    /\ UNCHANGED <<mem, faults, lock, disk, daemon, snapshots, told>>

\* A request of the session to the daemon: answered; or failed, done or not, or given
\* up and still under way.
Ask(p, what, done, ok) ==
    LET o == mem[p].op IN
    \/ done /\ Goto(p, ok) /\ UNCHANGED <<faults, asked>>
    \/ /\ Fault /\ Goto(p, "pending")
       /\ \/ done /\ UNCHANGED asked
          \/ UNCHANGED daemon
          \/ asked' = asked \cup {<<o, what>>} /\ UNCHANGED container

Create(p) ==
    /\ At(p, "create")
    /\ Ask(p, "create", container' = [container EXCEPT ![mem[p].op] = "created"], "created")
    /\ UNCHANGED <<mem, lock, disk, snapshots, told>>

Created(p) == Persist(p, "created", "created", "start")

StartContainer(p) ==
    /\ At(p, "start")
    /\ Ask(p, "start", container' = [container EXCEPT ![mem[p].op] = "running"], "running")
    /\ UNCHANGED <<mem, lock, disk, snapshots, told>>

Running(p) == Persist(p, "running", "running", "run")

\* The commands run; only an execution that asked for it and exited saves the source.
Run(p) ==
    /\ At(p, "run")
    /\ Goto(p, "pending") \/ (mem[p].kind = "execute" /\ Goto(p, "save"))
    /\ UNCHANGED <<mem, faults, lock, disk, daemon, snapshots, told>>

\* The captured source replaces the one the session was admitted with.
Save(p) ==
    LET seen == mem[p].seen IN
    /\ At(p, "save")
    /\ Write(p, workspace' = [generation |-> seen.generation + 1, saved |-> mem[p].op,
                              closed |-> FALSE],
             UNCHANGED workspace, "pending", "pending")
    /\ UNCHANGED <<mem, lock, phase, request, pointer, daemon, snapshots, told>>

--------------------------------------------------------------------------
(* cleanup, of the session's own container or of one that was left. *)

\* The record says so first; failing that the cleanup goes on and fails at its end.
Pending(p) ==
    LET o == mem[p].op IN
    /\ At(p, "pending")
    /\ Goto(p, "inspect")
    /\ \/ phase' = [phase EXCEPT ![o] = "cleanup_pending"] /\ UNCHANGED <<mem, faults>>
       \/ /\ Fault
          /\ mem' = [mem EXCEPT ![p].failed = TRUE]
          /\ phase' \in {phase, [phase EXCEPT ![o] = "cleanup_pending"]}
    /\ UNCHANGED <<lock, workspace, request, pointer, daemon, snapshots, told>>

\* Mutant: a daemon that does not answer has no such container.
AbsentOrUnanswered(o, answered) == ~answered \/ container[o] = "none"

\* Only the daemon's own word for it is absence.
SaidAbsent(o, answered) == answered /\ container[o] = "none"

Inspect(p) ==
    /\ At(p, "inspect")
    /\ \E answered \in BOOLEAN :
          /\ IF answered THEN UNCHANGED faults ELSE Fault
          /\ Goto(p, IF SaidAbsent(mem[p].op, answered) THEN "absent"
                     ELSE IF answered THEN "remove" ELSE "unverified")
    /\ UNCHANGED <<mem, lock, disk, daemon, snapshots, told>>

Remove(p) ==
    LET o == mem[p].op
        done == container' = [container EXCEPT ![o] = "none"] IN
    /\ At(p, "remove")
    /\ \/ done /\ Goto(p, "absent") /\ UNCHANGED faults
       \/ Fault /\ (done \/ UNCHANGED container) /\ Goto(p, "unverified")
    /\ UNCHANGED <<mem, lock, asked, disk, snapshots, told>>

\* The absence is looked at again.
Absent(p) ==
    /\ At(p, "absent")
    /\ \E answered \in BOOLEAN :
          /\ IF answered THEN UNCHANGED faults ELSE Fault
          /\ IF SaidAbsent(mem[p].op, answered)
             THEN Goto(p, "removed") /\ mem' = [mem EXCEPT ![p].verified = TRUE]
             ELSE Goto(p, "unverified") /\ UNCHANGED mem
    /\ UNCHANGED <<lock, disk, daemon, snapshots, told>>

Removed(p) ==
    LET o == mem[p].op IN
    /\ At(p, "removed")
    /\ Write(p, phase' = [phase EXCEPT ![o] = "removed"], UNCHANGED phase,
             IF mem[p].failed THEN "unverified" ELSE "left", "unverified")
    /\ UNCHANGED <<mem, lock, workspace, request, pointer, daemon, snapshots, told>>

\* A cleanup that failed writes what it knows, if it can, and raises; so does the
\* recovery it is part of, while a session's result is told with its error.
Tells(p) == told' = IF mem[p].verified /\ mem[p].kind \in {"build", "execute"}
                    THEN told \cup {mem[p].op} ELSE told

Unverified(p) ==
    LET o == mem[p].op
        known == IF mem[p].verified THEN "removed" ELSE "cleanup_pending" IN
    /\ At(p, "unverified")
    /\ phase' \in {phase, [phase EXCEPT ![o] = known]}
    /\ phase' = phase => faults < MaxFaults \/ phase[o] = known
    /\ Tells(p) /\ Raise(p)
    /\ UNCHANGED <<faults, workspace, request, pointer, daemon, snapshots>>

Recovers(p) == mem[p].seen = Forgotten.seen /\ mem[p].resolution = 0

\* The recovery goes on with the next record; a session answers and leaves its lock.
Left(p) ==
    /\ At(p, "left")
    /\ IF Recovers(p)
       THEN /\ Goto(p, "recovering") /\ UNCHANGED <<lock, told>>
            /\ mem' = [mem EXCEPT ![p].op = 0, ![p].verified = FALSE, ![p].failed = FALSE]
       ELSE Tells(p) /\ Raise(p)
    /\ UNCHANGED <<faults, disk, daemon, snapshots>>

--------------------------------------------------------------------------
(* reset and close: not while anything is owned. *)

Settle(p) == Lock(p, "settle", "settling")

Settling(p) ==
    LET generation == workspace.generation + 1 IN
    /\ At(p, "settling")
    /\ IF Unowned # {} \/ workspace.closed THEN Goto(p, "unlock") /\ UNCHANGED <<workspace, faults>>
       ELSE Write(p, workspace' = IF mem[p].kind = "reset"
                                  THEN [generation |-> generation, saved |-> 0, closed |-> FALSE]
                                  ELSE [workspace EXCEPT !.generation = generation, !.closed = TRUE],
                  UNCHANGED workspace, "unlock", "unlock")
    /\ UNCHANGED <<mem, lock, phase, request, pointer, daemon, snapshots, told>>

--------------------------------------------------------------------------
(* External: the daemon carries out what was given up; controllers die. *)

Late ==
    \E call \in asked :
        /\ asked' = asked \ {call}
        /\ container' = CASE call[2] = "create" /\ container[call[1]] = "none" ->
                                [container EXCEPT ![call[1]] = "created"]
                          [] call[2] = "start" /\ container[call[1]] = "created" ->
                                [container EXCEPT ![call[1]] = "running"]
                          [] OTHER -> container
        /\ UNCHANGED <<pc, mem, faults, lock, disk, snapshots, told>>

Crash(p) ==
    /\ ~At(p, "idle")
    /\ Fault /\ Raise(p)
    /\ UNCHANGED <<disk, daemon, snapshots, told>>

Step(p) ==
    \/ RecoverOwned(p) \/ Recovering(p) \/ Read(p)
    \/ Resolve(p) \/ LookUp(p) \/ FreezeRequest(p) \/ Point(p) \/ Resolved(p) \/ Unlock(p)
    \/ Enter(p) \/ Intent(p) \/ Admit(p) \/ Create(p) \/ Created(p) \/ StartContainer(p)
    \/ Running(p) \/ Run(p) \/ Save(p)
    \/ Pending(p) \/ Inspect(p) \/ Remove(p) \/ Absent(p) \/ Removed(p) \/ Unverified(p)
    \/ Left(p) \/ Settle(p) \/ Settling(p)

\* Operations on a bounded number of generations.
Asks(p) == \E kind \in {"build", "execute", "reset", "close", "recover"} :
    Start(p, kind) /\ (kind \in {"reset", "close"} => workspace.generation <= MaxOps)

Next == \/ \E p \in Process : Asks(p) \/ Step(p) \/ Crash(p)
        \/ Late

\* A controller goes on with what it began, and operations are asked for again.
Fairness == \A p \in Process : WF_vars(Step(p)) /\ WF_vars(Asks(p))

Spec == Init /\ [][Next]_vars /\ Fairness

--------------------------------------------------------------------------

\* A container runs only while its record says that it has to be cleaned up, so a
\* result that says its cleanup is verified leaves no code of the candidate running.
NothingRunsUnrecorded == \A o \in Ops :
    container[o] = "running" => phase[o] \notin {"none", "removed"} /\ o \notin told

\* A generation of the workspace has one saved source, and a closed workspace is never
\* saved again, whatever was read before the lock was taken.
GenerationStep ==
    /\ workspace'.saved # workspace.saved => workspace'.generation = workspace.generation + 1
    /\ workspace.closed => workspace' = workspace
GenerationSavedOnce == [][GenerationStep]_vars

\* A request is solved once and a candidate is frozen to that one resolution of its
\* dependencies, through failed writes, crashes and concurrent operations.
FreezeStep ==
    /\ request # 0 => request' = request
    /\ pointer # 0 => pointer' = pointer
    /\ pointer' # 0 => pointer' = request'
FrozenToOneResolution == [][FreezeStep]_vars

\* What a crash or a failure left running is removed in the end.
LeftoversRemoved == \A o \in Ops : container[o] = "running" ~> container[o] = "none"
=============================================================================

---------------------------- MODULE ImageResolution ----------------------------
(***************************************************************************)
(* How processes sharing a state root turn one repository's declarations   *)
(* into one pinned image: environments/resolution.py (Python),             *)
(* command_resolution.py (the other toolchains) and images.py (the image   *)
(* of a recipe).  They share a docker daemon, whose tags anyone may move,  *)
(* and a record named by the digest of the declarations.                   *)
(***************************************************************************)
EXTENDS Naturals

CONSTANTS Process, Base, Package, MaxRuns, Nobody, None

Flow == {"repository", "command", "image"}

\* What a build makes: the base it started from and the packages the index then gave.
Image == [base : Base, packages : Package]

\* flow: which of the three the processes run; lock: who holds the state root; tag: the
\* image the daemon's tag names; record: what is locked for the declarations.
VARIABLES flow, lock, tag, record, run, runs, returned

imageVars == <<flow, lock, tag, record, run, runs, returned>>

\* A run: where it stands, the base it pinned, the image it built and the one published
\* under a digest, and the closure it read out of that one.
Idle == [at |-> "idle", base |-> None, built |-> None, image |-> None, closure |-> None]

Init ==
    /\ flow \in Flow
    /\ lock = Nobody /\ tag = None /\ record = None
    /\ run = [p \in Process |-> Idle] /\ runs = 0 /\ returned = {}

At(p, at) == run[p].at = at
Free == lock = Nobody

\* Mutant: only the image of a recipe is built under the lock.
LockedForImage == flow = "image"

\* The build, its push and both inspections are one operation of the state root, except
\* for the toolchains.
BuildIsLocked == flow # "command"

--------------------------------------------------------------------------

\* A record is returned as it is; nothing is resolved again.  The image of a recipe is
\* made without letting go of the lock.
Look(p) ==
    /\ At(p, "idle") /\ Free /\ runs < MaxRuns /\ runs' = runs + 1
    /\ IF record # None
       THEN returned' = returned \cup {record} /\ UNCHANGED <<run, lock>>
       ELSE /\ run' = [run EXCEPT ![p].at = "pull"] /\ UNCHANGED returned
            /\ lock' = IF flow = "image" THEN p ELSE lock
    /\ UNCHANGED <<flow, tag, record>>

\* The tag of a base may have moved since another process pulled it; a recipe has its own.
Bases == IF flow = "image" THEN {CHOOSE b \in Base : TRUE} ELSE Base

Pull(p) ==
    /\ At(p, "pull")
    /\ \E b \in Bases : run' = [run EXCEPT ![p].at = "build", ![p].base = b]
    /\ UNCHANGED <<flow, lock, tag, record, runs, returned>>

Build(p) ==
    /\ At(p, "build") /\ (BuildIsLocked => lock \in {Nobody, p})
    /\ lock' = IF BuildIsLocked THEN p ELSE lock
    /\ \E k \in Package : tag' = [base |-> run[p].base, packages |-> k]
    /\ run' = [run EXCEPT ![p].at = "inspect"]
    /\ UNCHANGED <<flow, record, runs, returned>>

Inspect(p) ==
    /\ At(p, "inspect")
    /\ run' = [run EXCEPT ![p].at = "push", ![p].built = tag]
    /\ UNCHANGED <<flow, lock, tag, record, runs, returned>>

\* Once pushed the tag is inspected again: it must still name the image that was built.
Push(p) ==
    /\ At(p, "push")
    /\ lock' = IF lock = p /\ (flow # "image" \/ tag # run[p].built) THEN Nobody ELSE lock
    /\ run' = IF tag # run[p].built THEN [run EXCEPT ![p] = Idle]
              ELSE [run EXCEPT ![p].at = IF flow = "image" THEN "lock" ELSE "capture",
                               ![p].image = tag]
    /\ UNCHANGED <<flow, tag, record, runs, returned>>

\* Mutant: the session is opened on the tag.
SessionOnTag(p) == tag

\* The closure is read in a session of the published digest.
SessionImage(p) == run[p].image

Capture(p) ==
    /\ At(p, "capture")
    /\ run' = [run EXCEPT ![p].at = "lock", ![p].closure = SessionImage(p)]
    /\ UNCHANGED <<flow, lock, tag, record, runs, returned>>

\* What is locked: the base and the image with the closure read from it; for the image of
\* a recipe the closure is the recipe's own.
Resolved(p) == [base |-> run[p].base, image |-> run[p].image,
                closure |-> IF flow = "image" THEN run[p].image ELSE run[p].closure, by |-> p]

\* Mutant: the record is written without a look at what is there.
WriteAnyway(p) == TRUE

\* The first to come writes; another's record differs at least in its evidence.
Writes(p) == record = None

Lock(p) ==
    /\ At(p, "lock") /\ lock \in {Nobody, p} /\ lock' = Nobody
    /\ IF Writes(p) THEN record' = Resolved(p) /\ returned' = returned \cup {Resolved(p)}
       ELSE UNCHANGED <<record, returned>>
    /\ run' = [run EXCEPT ![p] = Idle]
    /\ UNCHANGED <<flow, tag, runs>>

\* A command fails, the lock is taken, or the process dies; a retry starts over.
Fail(p) ==
    /\ ~At(p, "idle")
    /\ run' = [run EXCEPT ![p] = Idle]
    /\ lock' = IF lock = p THEN Nobody ELSE lock
    /\ UNCHANGED <<flow, tag, record, runs, returned>>

Step(p) == Look(p) \/ Pull(p) \/ Build(p) \/ Inspect(p) \/ Push(p) \/ Capture(p) \/ Lock(p) \/ Fail(p)

Next == \E p \in Process : Step(p)

Spec == Init /\ [][Next]_imageVars

--------------------------------------------------------------------------

\* Whatever the processes' order, one resolution is returned for one set of declarations
\* (resolution.py resolve_repository: "reuse an existing lock, never silently
\* re-resolve"), and its pins are those of its image.
ResolvedOnce ==
    /\ \A r \in returned : r = record
    /\ record # None => record.closure = record.image

\* The evidence names the base its image was built from.
BaseIsTheImages == record # None => record.image.base = record.base

\* Constructors sharing a state root are serialized (docs/interfaces-M3.md): of the two
\* flows that build under the lock, the evidence names the base of the image.
EvidenceBindsBase == flow # "command" => BaseIsTheImages
=============================================================================

---------------------------- MODULE MCTraining ----------------------------
(* The training service on small instances: a first invocation, jobs that  *)
(* may continue it or one another from checkpoints, and a few interrupted  *)
(* or repeated calls.  Beside it the native backend the service and the    *)
(* evaluations drive, and the updater; they share no state, and a          *)
(* behaviour is about one of the three.                                    *)
EXTENDS Training, TLC

CONSTANTS Worker, MaxContents, MaxSessions, MaxFailures,      \* of NativeBackend
          p1, p2, j1, j2, j3

VARIABLES part, driver, session, trainer, engine, barrier, disk, confirmed, completion, batch,
          loss, made, opened, updater, kept

\* There are inference workers, and what is not there is told from what is.
ASSUME BackendAssumption ==
    Worker # {} /\ MaxContents \in Nat \ {0} /\ Nothing \notin Nat /\ Nothing # "updated"

Backend == INSTANCE NativeBackend WITH MaxFaults <- MaxFailures

NoSession == /\ driver = 0 /\ session = 0 /\ trainer = 0 /\ engine = 0 /\ barrier = 0 /\ disk = 0
             /\ confirmed = 0 /\ completion = 0 /\ batch = 0 /\ loss = 0 /\ made = 0 /\ opened = 0
NoUpdater == updater = 0 /\ kept = 0

sessionOwn == <<driver, session, trainer, engine, barrier, disk, confirmed, completion, batch, loss,
                made, opened>>
updaterOwn == <<updater, kept>>
serviceOwn == <<rows, pc, job, journal, live, opening, me, episode, dispatches, calls>>

AllInit ==
    /\ Init
    /\ \/ part = "service" /\ NoSession /\ NoUpdater
       \/ part = "backend" /\ Backend!SessionInit /\ NoUpdater
       \/ part = "updater" /\ Backend!UpdaterInit /\ NoSession

AllNext ==
    /\ UNCHANGED part
    /\ \/ /\ part = "service" /\ Next
          /\ UNCHANGED <<sessionOwn, updaterOwn>>
       \/ /\ part = "backend" /\ Backend!SessionNext
          /\ UNCHANGED <<serviceOwn, updaterOwn>>
       \/ /\ part = "updater" /\ Backend!UpdaterNext
          /\ UNCHANGED <<serviceOwn, sessionOwn>>

AllSpec == AllInit /\ [][AllNext]_<<part, vars, sessionOwn, updaterOwn>>

\* training/native.py, skyrl_bridge.py, torch_backend.py: what is sampled, kept and confirmed
\* is of the weights it is said to be of, whatever failed before.
BackendSound ==
    /\ part = "backend" => Backend!SessionSound
    /\ part = "updater" => Backend!UpdaterSound

Symmetry == Permutations(Process) \cup Permutations(Job \ First)
=============================================================================

------------------------------ MODULE Training ------------------------------
(***************************************************************************)
(* training/service.py, TrainingService: synchronous GRPO under a durable  *)
(* journal.  train collects groups of episodes, dispatches updates to the  *)
(* native optimizer and journals every position before and after.  An      *)
(* update whose outcome is unknown is never replayed: a new invocation     *)
(* continues from the last confirmed checkpoint, and the unknown dispatch  *)
(* has used up its part of the budget.                                     *)
(*                                                                         *)
(* Weights are the sequence of updates they contain.  A group of episodes  *)
(* is its sampler position and the weights it was sampled from; its        *)
(* episodes count as one.  The controller lock lets one process train at a *)
(* time, but what a process retains outlives the lock.                     *)
(***************************************************************************)
EXTENDS JobLedger, FiniteSets

CONSTANTS Job,              \* the train jobs, one per invocation and checkpoint to resume
          First,            \* those that resume no checkpoint
          MaxUpdates, MaxGroups, GroupsPerUpdate,
          Nothing,
          MaxCalls                  \* calls of train (MaxFaults bounds failed calls and crashes)

ASSUME UpdateAssumption == MaxUpdates \in Nat \ {0}

VARIABLES
    job,        \* per job: registry state, resume, root (the job its lineage began with), result
    journal,    \* per job: the journal file, or Absent
    live,       \* per process: the session it owns, self._live, or Nothing
    opening,    \* per process: the startup it retains, self._opening, or Nothing
    me,         \* per process: the job, outcome and continuation of its call
    episode,    \* per <<job, position>>: the group's episodes, child jobs of the registry
    dispatches, \* the updates the native optimizer was given, in order
    calls       \* calls of train so far

sessionVars == <<live, opening>>
workVars == <<episode, dispatches>>
vars == <<ledgerVars, job, journal, sessionVars, me, workVars, calls>>

Indices == 0..MaxUpdates - 1
Closes == {"failure", "finish", "terminal"}

Row(kind, j) == <<kind, j, 0>>
Startup(j, n) == <<"startup", j, n>>
Update(j, i) == <<"update", j, i>>
Rows ==
    {Row(kind, j) : kind \in Closes \cup {"abort", "ancestry", "controller"}, j \in Job}
    \cup {Startup(j, n) : j \in Job, n \in 1..MaxCalls}
    \cup {Update(j, i) : j \in Job, i \in Indices}

\* What is not there is told from weights and from an outcome.
ASSUME NothingAssumption == Nothing \notin Seq(Rows) /\ Nothing # "SUCCESS"

\* The journal of a first call.  Of the updates with a gradient it matters if there are any.
Fresh ==
    [phase |-> "initializing", updates |-> 0, unknown |-> 0, nonzero |-> FALSE,
     position |-> 0, groups |-> 0, pending |-> Nothing, unclassified |-> Nothing, batch |-> {},
     native |-> Nothing, checkpoint |-> Nothing, by |-> Nothing,
     outcome |-> Nothing, bound |-> Nothing]

\* No journal was written.
Absent == [Fresh EXCEPT !.phase = "absent"]

Idle == [job |-> Nothing, then |-> "raise", outcome |-> "BLOCKED", nonzero |-> FALSE]

Init ==
    /\ rows = [r \in Rows |-> <<>>]
    /\ pc = [p \in Process |-> "idle"]
    /\ faults = 0
    /\ job = [j \in Job |-> [state |-> "absent", resume |-> Nothing, root |-> j, result |-> Nothing]]
    /\ journal = [j \in Job |-> Absent]
    /\ live = [p \in Process |-> Nothing]
    /\ opening = [p \in Process |-> Nothing]
    /\ me = [p \in Process |-> Idle]
    /\ episode = [e \in Job \X (0..MaxGroups + MaxCalls) |-> "absent"]
    /\ dispatches = <<>>
    /\ calls = 0

\* What the call of p works on.
Mine(p) == me[p].job
State(p) == journal[Mine(p)]
Resume(p) == job[Mine(p)].resume

\* The update budget used, the unknown dispatches included.
Spent(s) == s.updates + s.unknown

\* _write: the journal of j is replaced.
Write(p, j, state, ok) ==
    Call(p, journal' = [journal EXCEPT ![j] = state], UNCHANGED journal, ok, "unwind")

\* The job has a journal.
Present(j) == journal[j].phase # "absent"

\* Everything the registry has accounted to j.
Account(j) == {<<r, Len(rows[r])>> : r \in {x \in Rows : x[2] = j}}

\* The confirmed checkpoints: those of a third revision.
Checkpoints(j) ==
    {r[2] : r \in {x \in UNION {Newest(Update(j, i)) : i \in Indices} : x[1] = "checkpoint"}}

--------------------------------------------------------------------------
(* train: the selected job and its journal. *)

Free == \A q \in Process : At(q, "idle") \/ me[q].then = "terminal"

\* Enqueue and claim; what the process retains must belong to the job.
Train(p, j, c) ==
    /\ At(p, "idle") /\ Free
    /\ calls < MaxCalls /\ calls' = calls + 1
    /\ job[j].state # "completed"
    /\ c = Nothing <=> j \in First
    /\ job[j].state = "running" => c = job[j].resume
    /\ IF \E held \in {live[p], opening[p]} \ {Nothing} : held.job # j
       THEN Goto(p, "unwind") /\ UNCHANGED <<job, faults>>
       ELSE LET root == IF c = Nothing THEN j ELSE job[c.job].root
                claimed == [job EXCEPT ![j].state = "running", ![j].resume = c, ![j].root = root]
            IN  Call(p, job' = claimed, UNCHANGED job, "load", "unwind")
    /\ me' = [me EXCEPT ![p] = [Idle EXCEPT !.job = j]]
    /\ UNCHANGED <<rows, journal, sessionVars, workVars>>

\* The rows of updates after c: dispatched, with an outcome nobody knows.
Later(c) == {i \in Indices : i >= Spent(c) /\ rows[Update(c.job, i)] # <<>>}

\* A close of session n of j was confirmed.
Closed(j, n) ==
    \E close \in Closes : Receipt("shutdown", <<j, n>>) \in Newest(Row(close, j))

StartupsClosed(j) ==
    /\ rows[Startup(j, 1)] # <<>>
    /\ \A n \in 1..MaxCalls :
          rows[Startup(j, n)] # <<>> => Len(rows[Startup(j, n)]) = 2 /\ Closed(j, n)

\* The old journal still ends at c, and nobody but j has taken it over.
BindsCheckpoint(j, c) ==
    /\ \/ journal[c.job].phase \in {"updating", "collecting"}
       \/ journal[c.job].phase = "superseded" /\ journal[c.job].by = j
    /\ journal[c.job].checkpoint = c
    /\ journal[c.job].updates = c.updates

\* _validate_checkpoint and _restore_progress: j may continue from c.
Admissible(j, c) ==
    /\ job[c.job].state = "running"
    /\ c \in Checkpoints(c.job)
    /\ \A i \in Later(c) : Len(rows[Update(c.job, i)]) = 1
    /\ StartupsClosed(c.job)
    /\ BindsCheckpoint(j, c)

\* A journal at a confirmed position, or whose startup this process retains.
Continuable(p) ==
    \/ State(p).phase = "collecting"
    \/ /\ State(p).phase = "initializing"
       /\ opening[p] # Nothing

Load(p) ==
    /\ At(p, "load")
    /\ \/ /\ ~Present(Mine(p))
          /\ Goto(p, CASE Resume(p) = Nothing                -> "begin"
                       [] Resume(p) # Nothing /\ Admissible(Mine(p), Resume(p)) -> "ancestry"
                       [] OTHER                              -> "unwind")
          /\ UNCHANGED me
       \/ /\ Present(Mine(p))
          /\ Goto(p, CASE State(p).phase = "frozen"     -> "complete"
                       [] State(p).phase = "finalizing" -> "finish"
                       [] Continuable(p)                -> "begin"
                       [] OTHER                         -> "unwind")
          /\ me' = [me EXCEPT ![p].outcome = IF State(p).outcome = Nothing THEN @ ELSE State(p).outcome]
    /\ UNCHANGED <<rows, faults, job, journal, sessionVars, workVars, calls>>

\* The recovery preserves the old journal and accounting.
Ancestry(p) ==
    /\ At(p, "ancestry")
    /\ LET c == Resume(p)
           preserved == [journal[c.job] EXCEPT !.phase = "superseded", !.by = Mine(p)]
       IN  Observe(p, Row("ancestry", Mine(p)), 1,
                   {Receipt("recovery", <<preserved, Account(c.job)>>)}, "supersede", "unwind")
    /\ UNCHANGED <<job, journal, sessionVars, me, workVars, calls>>

Supersede(p) ==
    /\ At(p, "supersede")
    /\ LET old == Resume(p).job IN
       Write(p, old, [journal[old] EXCEPT !.phase = "superseded", !.by = Mine(p)], "begin")
    /\ UNCHANGED <<rows, job, sessionVars, me, workVars, calls>>

\* Mutant: sampling goes on where the checkpoint was taken.
RestoredAtCheckpoint(c) ==
    [journal[c.job] EXCEPT
        !.phase = "initializing", !.by = Nothing, !.checkpoint = c,
        !.updates = c.updates, !.unknown = c.unknown + Cardinality(Later(c)),
        !.nonzero = c.nonzero, !.native = c.native,
        !.position = c.position, !.groups = c.groups,
        !.pending = Nothing, !.unclassified = Nothing, !.batch = {}]

\* The progress of c, at the old journal's sampler position, the later dispatches unknown.
Restored(c) ==
    [journal[c.job] EXCEPT
        !.phase = "initializing", !.by = Nothing, !.checkpoint = c,
        !.updates = c.updates, !.unknown = c.unknown + Cardinality(Later(c)),
        !.nonzero = c.nonzero, !.native = c.native,
        !.pending = Nothing, !.unclassified = Nothing, !.batch = {}]

Begin(p) ==
    /\ At(p, "begin")
    /\ Write(p, Mine(p), IF Present(Mine(p)) THEN State(p)
                         ELSE IF Resume(p) = Nothing THEN Fresh ELSE Restored(Resume(p)), "controller")
    /\ UNCHANGED <<rows, job, sessionVars, me, workVars, calls>>

\* A recovery with no budget left ends before a session starts.
Controller(p) ==
    /\ At(p, "controller")
    /\ Observe(p, Row("controller", Mine(p)), 1, {Receipt("request", Mine(p))},
               IF Resume(p) # Nothing /\ Spent(State(p)) >= MaxUpdates THEN "finish" ELSE "open",
               "unwind")
    /\ UNCHANGED <<job, journal, sessionVars, me, workVars, calls>>

--------------------------------------------------------------------------
(* The session. *)

\* The startup key counts what is accounted already: it is new to the job.
NewStartup(j) == CHOOSE n \in 1..MaxCalls :
    rows[Startup(j, n)] = <<>> /\ \A m \in 1..n - 1 : rows[Startup(j, m)] # <<>>

OpeningRow(p) == Startup(opening[p].job, opening[p].n)

\* A new startup; a retained one is published, if it came to a session: an announced key
\* is never constructed again.
Open(p) ==
    /\ At(p, "open")
    /\ \/ /\ live[p] # Nothing
          /\ Goto(p, "restore")
          /\ UNCHANGED <<faults, journal, opening>>
       \/ /\ live[p] = Nothing /\ opening[p] # Nothing
          /\ Goto(p, CASE opening[p].state = "built"                               -> "publish startup"
                       [] opening[p].state = "asked" /\ rows[OpeningRow(p)] = <<>> -> "announce startup"
                       [] OTHER                                                    -> "unwind")
          /\ UNCHANGED <<faults, journal, opening>>
       \/ /\ live[p] = Nothing /\ opening[p] = Nothing
          /\ Write(p, Mine(p), [State(p) EXCEPT !.phase = "initializing"], "announce startup")
          /\ opening' = [opening EXCEPT ![p] =
                IF pc'[p] = "announce startup"
                THEN [job |-> Mine(p), n |-> NewStartup(Mine(p)), state |-> "asked"] ELSE @]
    /\ UNCHANGED <<rows, job, live, me, workVars, calls>>

AnnounceStartup(p) ==
    /\ At(p, "announce startup")
    /\ Observe(p, OpeningRow(p), 1, {Receipt("configuration", Mine(p))}, "construct", "unwind")
    /\ UNCHANGED <<job, journal, sessionVars, me, workVars, calls>>

Construct(p) ==
    /\ At(p, "construct")
    /\ \/ /\ opening' = [opening EXCEPT ![p].state = "built"]
          /\ Goto(p, "publish startup")
       \/ Goto(p, "unwind") /\ UNCHANGED opening
    /\ UNCHANGED <<rows, faults, job, journal, live, me, workVars, calls>>

\* asked: the shutdown key of the service; closing: the one the factory closes under.
PublishStartup(p) ==
    /\ At(p, "publish startup")
    /\ LET o == opening[p] IN
       /\ Observe(p, OpeningRow(p), 2,
                  {Receipt("configuration", o.job), Receipt("startup", <<o.job, o.n>>)}, "restore", "unwind")
       /\ IF pc'[p] = "restore"
          THEN /\ live' = [live EXCEPT ![p] = [job |-> o.job, n |-> o.n, weights |-> <<>>, up |-> TRUE,
                                               asked |-> Nothing, closing |-> Nothing]]
               /\ opening' = [opening EXCEPT ![p] = Nothing]
          ELSE UNCHANGED sessionVars
    /\ UNCHANGED <<job, journal, me, workVars, calls>>

\* native.resume: the journal's tensors are loaded, when there are any.
Restore(p) ==
    /\ At(p, "restore")
    /\ \/ /\ State(p).native = Nothing
          /\ Goto(p, "collecting")
          /\ UNCHANGED live
       \/ /\ State(p).native # Nothing /\ live[p].up
          /\ live' = [live EXCEPT ![p].weights = State(p).native]
          /\ Goto(p, "collecting")
       \/ /\ State(p).native # Nothing
          /\ Goto(p, "unwind")
          /\ UNCHANGED live
    /\ UNCHANGED <<rows, faults, job, journal, opening, me, workVars, calls>>

Collecting(p) ==
    /\ At(p, "collecting")
    /\ Write(p, Mine(p), [State(p) EXCEPT !.phase = "collecting"], "loop")
    /\ UNCHANGED <<rows, job, sessionVars, me, workVars, calls>>

--------------------------------------------------------------------------
(* Collecting groups. *)

\* A retained group still counts for the weights it was sampled from, and no others.
Stale(p, group) == group.policy # live[p].weights

Exhausted(s) == s.groups >= MaxGroups /\ s.batch = {} /\ s.unclassified = Nothing

\* Mutant: a batch takes one group too many.
ShortByOne(s) ==
    /\ Cardinality(s.batch) <= GroupsPerUpdate
    /\ s.groups < MaxGroups \/ s.unclassified # Nothing

\* Another group belongs to the batch.
Short(s) ==
    /\ Cardinality(s.batch) < GroupsPerUpdate
    /\ s.groups < MaxGroups \/ s.unclassified # Nothing

NextGroup(s) == IF Short(s) THEN "collect" ELSE "rows"

\* The budget of updates, then of wall time and groups; what is retained is prepared again.
Loop(p) ==
    /\ At(p, "loop")
    /\ \/ /\ Spent(State(p)) >= MaxUpdates
          /\ Goto(p, "finish")
          /\ me' = [me EXCEPT ![p].outcome =
                IF State(p).nonzero /\ State(p).checkpoint # Nothing THEN "SUCCESS" ELSE "BLOCKED"]
       \/ /\ Spent(State(p)) < MaxUpdates
          /\ Goto(p, "finish")
          /\ UNCHANGED me
       \/ /\ Spent(State(p)) < MaxUpdates /\ ~Exhausted(State(p))
          /\ Goto(p, IF \E g \in State(p).batch : Stale(p, g) THEN "unwind" ELSE NextGroup(State(p)))
          /\ UNCHANGED me
    /\ UNCHANGED <<rows, faults, job, journal, sessionVars, workVars, calls>>

\* _collect: a classified group, a pending one, or a new position of the sampler.
Collect(p) ==
    /\ At(p, "collect")
    /\ LET s == State(p) IN
       \/ /\ s.unclassified # Nothing
          /\ Goto(p, IF Stale(p, s.unclassified) THEN "unwind" ELSE "batch")
          /\ UNCHANGED <<faults, journal>>
       \/ /\ s.unclassified = Nothing /\ s.pending = Nothing
          /\ Write(p, Mine(p), [s EXCEPT !.position = @ + 1,
                                         !.pending = [at |-> s.position, policy |-> live[p].weights]], "collect")
       \/ /\ s.unclassified = Nothing /\ s.pending # Nothing
          /\ Goto(p, IF Stale(p, s.pending) THEN "unwind" ELSE "episode")
          /\ UNCHANGED <<faults, journal>>
    /\ UNCHANGED <<rows, job, sessionVars, me, workVars, calls>>

Group(p) == <<Mine(p), State(p).pending.at>>

\* runner.run: a completed episode is replayed, an interrupted one is refused.
Episode(p) ==
    /\ At(p, "episode")
    /\ \/ /\ episode[Group(p)] = "done"
          /\ Goto(p, "classify") /\ UNCHANGED episode
       \/ /\ episode[Group(p)] = "absent" /\ live[p].up
          /\ episode' = [episode EXCEPT ![Group(p)] = "running"]
          /\ Goto(p, "sampling")
       \/ /\ episode[Group(p)] = "running" \/ ~live[p].up
          /\ Goto(p, "unwind") /\ UNCHANGED episode
    /\ UNCHANGED <<rows, faults, job, journal, sessionVars, me, dispatches, calls>>

Sampling(p) ==
    /\ At(p, "sampling")
    /\ \/ /\ episode' = [episode EXCEPT ![Group(p)] = "done"]
          /\ Goto(p, "classify")
       \/ Goto(p, "unwind") /\ UNCHANGED episode
    /\ UNCHANGED <<rows, faults, job, journal, sessionVars, me, dispatches, calls>>

\* prepare_group accepts the group, or refuses one whose outcome was not measured.
Classify(p) ==
    /\ At(p, "classify")
    /\ \/ Write(p, Mine(p), [State(p) EXCEPT !.groups = @ + 1, !.unclassified = State(p).pending,
                                             !.pending = Nothing], "batch")
       \/ Goto(p, "unwind") /\ UNCHANGED <<faults, journal>>
    /\ UNCHANGED <<rows, job, sessionVars, me, workVars, calls>>

Batch(p) ==
    /\ At(p, "batch")
    /\ LET batched == [State(p) EXCEPT !.batch = @ \cup {State(p).unclassified}, !.unclassified = Nothing]
       IN  Write(p, Mine(p), batched, NextGroup(batched))
    /\ UNCHANGED <<rows, job, sessionVars, me, workVars, calls>>

--------------------------------------------------------------------------
(* _update. *)

\* A batch without advantages is dropped; otherwise the tasks are admitted, or not, and
\* the journal says that an update may be under way.
Prepare(p) ==
    /\ At(p, "rows")
    /\ \/ Write(p, Mine(p), [State(p) EXCEPT !.batch = {}], "loop")
       \/ Write(p, Mine(p), [State(p) EXCEPT !.phase = "updating"], "intent")
       \/ Goto(p, "unwind") /\ UNCHANGED <<faults, journal>>
    /\ UNCHANGED <<rows, job, sessionVars, me, workVars, calls>>

UpdateRow(p) == Update(Mine(p), Spent(State(p)))
IntentReceipt(p) == Receipt("intent", UpdateRow(p))
UpdateReceipt(p) == Receipt("update", UpdateRow(p))

Intent(p) ==
    /\ At(p, "intent")
    /\ Observe(p, UpdateRow(p), 1, {IntentReceipt(p)}, "update", "unwind")
    /\ UNCHANGED <<job, journal, sessionVars, me, workVars, calls>>

\* native.update: the optimizer steps, with a gradient or without; it may raise before,
\* or after the tensors have changed.
DispatchUpdate(p) ==
    /\ At(p, "update")
    /\ \/ /\ live[p].up
          /\ dispatches' = Append(dispatches, [job |-> Mine(p), on |-> live[p].weights, batch |-> State(p).batch])
          /\ live' = [live EXCEPT ![p].weights = Append(@, UpdateRow(p))]
          /\ \E nonzero \in {State(p).nonzero, TRUE} : me' = [me EXCEPT ![p].nonzero = nonzero]
          /\ \E label \in {"save", "unwind"} : Goto(p, label)
       \/ Goto(p, "unwind") /\ UNCHANGED <<live, me, dispatches>>
    /\ UNCHANGED <<rows, faults, job, journal, opening, episode, calls>>

\* save_reload, and the tasks admitted once more.
SaveReload(p) ==
    /\ At(p, "save")
    /\ \E label \in {"confirm", "unwind"} : Goto(p, label)
    /\ UNCHANGED <<rows, faults, job, journal, sessionVars, me, workVars, calls>>

\* The journal after the update.
Advanced(p) ==
    [State(p) EXCEPT !.updates = @ + 1, !.nonzero = me[p].nonzero,
                     !.native = live[p].weights, !.batch = {}]

Confirm(p) ==
    /\ At(p, "confirm")
    /\ Observe(p, UpdateRow(p), 2, {IntentReceipt(p), UpdateReceipt(p)},
               IF Advanced(p).nonzero THEN "checkpoint" ELSE "updated", "unwind")
    /\ UNCHANGED <<job, journal, sessionVars, me, workVars, calls>>

Checkpoint(p) ==
    [job |-> Mine(p), updates |-> Advanced(p).updates, unknown |-> State(p).unknown,
     nonzero |-> Advanced(p).nonzero, native |-> live[p].weights,
     position |-> State(p).position, groups |-> State(p).groups]

SelectCheckpoint(p) ==
    /\ At(p, "checkpoint")
    /\ Observe(p, UpdateRow(p), 3, {IntentReceipt(p), UpdateReceipt(p), Receipt("checkpoint", Checkpoint(p))},
               "updated", "unwind")
    /\ UNCHANGED <<job, journal, sessionVars, me, workVars, calls>>

\* Mutant: the journal keeps the first checkpoint.
UpdatedKeeping(p) ==
    /\ At(p, "updated")
    /\ Write(p, Mine(p), [Advanced(p) EXCEPT !.phase = "collecting",
             !.checkpoint = IF Advanced(p).nonzero /\ @ = Nothing THEN Checkpoint(p) ELSE @], "loop")
    /\ me' = [me EXCEPT ![p].nonzero = FALSE]
    /\ UNCHANGED <<rows, job, sessionVars, workVars, calls>>

Updated(p) ==
    /\ At(p, "updated")
    /\ Write(p, Mine(p), [Advanced(p) EXCEPT !.phase = "collecting",
             !.checkpoint = IF Advanced(p).nonzero THEN Checkpoint(p) ELSE @], "loop")
    /\ me' = [me EXCEPT ![p].nonzero = FALSE]
    /\ UNCHANGED <<rows, job, sessionVars, workVars, calls>>

--------------------------------------------------------------------------
(* _finish. *)

\* A checkpoint of an earlier job is no success of this one.
Selected(p) == State(p).checkpoint # Nothing /\ State(p).checkpoint.job = Mine(p)
Disposition(p) == IF Selected(p) THEN me[p].outcome ELSE "BLOCKED"

Finish(p) ==
    /\ At(p, "finish")
    /\ Write(p, Mine(p), [State(p) EXCEPT !.phase = "finalizing", !.outcome = Disposition(p)], "close")
    /\ me' = [me EXCEPT ![p].then = "finish"]
    /\ UNCHANGED <<rows, job, sessionVars, workVars, calls>>

\* The result and the accounting it binds.
Freeze(p) ==
    /\ At(p, "freeze")
    /\ Write(p, Mine(p), [State(p) EXCEPT !.phase = "frozen", !.bound = Account(Mine(p))], "complete")
    /\ UNCHANGED <<rows, job, sessionVars, me, workVars, calls>>

\* The registry takes it only with the accounting as it is.
Complete(p) ==
    /\ At(p, "complete")
    /\ LET result == [disposition |-> State(p).outcome,
                      checkpoint |-> IF Selected(p) THEN State(p).checkpoint ELSE Nothing]
       IN  IF State(p).bound = Account(Mine(p))
           THEN Call(p, job' = [job EXCEPT ![Mine(p)].state = "completed", ![Mine(p)].result = result],
                     UNCHANGED job, "idle", "unwind")
           ELSE Goto(p, "unwind") /\ UNCHANGED <<job, faults>>
    /\ me' = [me EXCEPT ![p] = Idle]
    /\ UNCHANGED <<rows, journal, sessionVars, workVars, calls>>

--------------------------------------------------------------------------
(* Closing: at the end of a job, when train raises, and close(). *)

TerminalClose(p) ==
    /\ At(p, "idle")
    /\ live[p] # Nothing \/ opening[p] # Nothing
    /\ Goto(p, "close")
    /\ me' = [me EXCEPT ![p] = [Idle EXCEPT !.then = "terminal"]]
    /\ UNCHANGED <<rows, faults, job, journal, sessionVars, workVars, calls>>

\* Where a close goes on, done or failed: what _finish raises, train closes once more.
Done(then) == [finish |-> "freeze", raise |-> "idle", terminal |-> "abort"][then]
Failed(then) == IF then = "finish" THEN "unwind" ELSE "idle"

\* The key of the service: _finish asks for its own, the others keep the one in use.
Default == [finish |-> "finish", raise |-> "failure", terminal |-> "terminal"]
ShutdownKey(p, then) ==
    IF then = "finish" \/ live[p].asked = Nothing THEN Default[then] ELSE live[p].asked

\* Reached from _finish, from close() and by whatever train raises.  A close pending under
\* another key is refused.
Close(p) ==
    /\ pc[p] \in {"close", "unwind"}
    /\ LET then == IF At(p, "unwind") THEN "raise" ELSE me[p].then
           key == ShutdownKey(p, then)
       IN  /\ me' = [me EXCEPT ![p] = IF then = "raise" THEN Idle ELSE @]
           /\ \/ /\ live[p] = Nothing
                 /\ Goto(p, Done(then))
                 /\ UNCHANGED live
              \/ /\ live[p] # Nothing
                 /\ live[p].closing \in {Nothing, key}
                 /\ live' = [live EXCEPT ![p].asked = key, ![p].closing = key]
                 /\ Goto(p, "announce shutdown")
              \/ /\ live[p] # Nothing
                 /\ live[p].closing \notin {Nothing, key}
                 /\ live' = [live EXCEPT ![p].asked = key]
                 /\ Goto(p, Failed(then))
    /\ UNCHANGED <<rows, faults, job, journal, opening, workVars, calls>>

ShutdownRow(p) == Row(live[p].closing, live[p].job)
Session(p) == <<live[p].job, live[p].n>>

\* The key names the attempt, not the session; a refusal does not keep it from closing.
AnnounceShutdown(p) ==
    /\ At(p, "announce shutdown")
    /\ Observe(p, ShutdownRow(p), 1, {Receipt("startup", Session(p))}, "shut", "shut unannounced")
    /\ UNCHANGED <<job, journal, sessionVars, me, workVars, calls>>

\* A session that was closed but could not be announced is let go of when train raises.
Shut(p) ==
    /\ pc[p] \in {"shut", "shut unannounced"}
    /\ \/ /\ At(p, "shut")
          /\ live' = [live EXCEPT ![p].up = FALSE]
          /\ Goto(p, "publish shutdown") /\ UNCHANGED faults
       \/ /\ At(p, "shut unannounced")
          /\ live' = [live EXCEPT ![p] = IF me[p].then = "raise" THEN Nothing ELSE [@ EXCEPT !.up = FALSE]]
          /\ Goto(p, Failed(me[p].then)) /\ UNCHANGED faults
       \/ /\ faults < MaxFaults /\ faults' = faults + 1
          /\ live' = [live EXCEPT ![p].up = FALSE]
          /\ Goto(p, Failed(me[p].then))
    /\ UNCHANGED <<rows, job, journal, opening, me, workVars, calls>>

PublishShutdown(p) ==
    /\ At(p, "publish shutdown")
    /\ Observe(p, ShutdownRow(p), 2, {Receipt("startup", Session(p)), Receipt("shutdown", Session(p))},
               "closed", Failed(me[p].then))
    /\ live' = [live EXCEPT ![p] = IF pc'[p] = "closed" THEN Nothing ELSE @]
    /\ UNCHANGED <<job, journal, opening, me, workVars, calls>>

CloseDone(p) ==
    /\ At(p, "closed")
    /\ Goto(p, Done(me[p].then))
    /\ UNCHANGED <<rows, faults, job, journal, sessionVars, me, workVars, calls>>

AbortRow(p) == Row("abort", opening[p].job)

\* close_startup: a startup that never came to a session cannot be closed.
Abort(p) ==
    /\ At(p, "abort")
    /\ \/ /\ opening[p] # Nothing /\ opening[p].state # "asked"
          /\ opening' = [opening EXCEPT ![p].state = "aborting"]
          /\ Observe(p, AbortRow(p), 1, {Receipt("configuration", opening[p].job)}, "publish abort", "idle")
       \/ /\ opening[p] # Nothing => opening[p].state = "asked"
          /\ Goto(p, "idle")
          /\ UNCHANGED <<rows, faults, opening>>
    /\ UNCHANGED <<job, journal, live, me, workVars, calls>>

PublishAbort(p) ==
    /\ At(p, "publish abort")
    /\ Observe(p, AbortRow(p), 2, {Receipt("configuration", opening[p].job),
                                   Receipt("abort", <<opening[p].job, opening[p].n>>)}, "aborted", "idle")
    /\ opening' = [opening EXCEPT ![p] = IF pc'[p] = "aborted" THEN Nothing ELSE @]
    /\ UNCHANGED <<job, journal, live, me, workVars, calls>>

AbortDone(p) ==
    /\ At(p, "aborted")
    /\ Goto(p, "idle")
    /\ UNCHANGED <<rows, faults, job, journal, sessionVars, me, workVars, calls>>

\* The process dies, with its session and what it retained.
Crash(p) ==
    /\ faults < MaxFaults /\ faults' = faults + 1
    /\ ~At(p, "idle") \/ live[p] # Nothing \/ opening[p] # Nothing
    /\ Goto(p, "idle")
    /\ live' = [live EXCEPT ![p] = Nothing]
    /\ opening' = [opening EXCEPT ![p] = Nothing]
    /\ me' = [me EXCEPT ![p] = Idle]
    /\ UNCHANGED <<rows, job, journal, workVars, calls>>

Step(p) ==
    \/ Load(p) \/ Ancestry(p) \/ Supersede(p) \/ Begin(p) \/ Controller(p)
    \/ Open(p) \/ AnnounceStartup(p) \/ Construct(p) \/ PublishStartup(p)
    \/ Restore(p) \/ Collecting(p)
    \/ Loop(p) \/ Collect(p) \/ Episode(p) \/ Sampling(p) \/ Classify(p) \/ Batch(p)
    \/ Prepare(p) \/ Intent(p) \/ DispatchUpdate(p) \/ SaveReload(p)
    \/ Confirm(p) \/ SelectCheckpoint(p) \/ Updated(p)
    \/ Finish(p) \/ Freeze(p) \/ Complete(p)
    \/ TerminalClose(p) \/ Close(p) \/ AnnounceShutdown(p) \/ Shut(p) \/ PublishShutdown(p)
    \/ CloseDone(p) \/ Abort(p) \/ PublishAbort(p) \/ AbortDone(p)
    \/ Crash(p)

Next == \E p \in Process :
    \/ \E j \in Job : \E c \in {Nothing} \cup UNION {Checkpoints(k) : k \in Job \ {j}} : Train(p, j, c)
    \/ Step(p)

Spec == Init /\ [][Next]_vars

--------------------------------------------------------------------------
(* Properties. *)

\* Every variable ranges over what the code can hold.
TypeOK ==
    /\ \A j \in Job : /\ job[j].state \in {"absent", "running", "completed"}
                      /\ job[j].root \in Job
    /\ \A r \in Rows : Len(rows[r]) <= 3
    /\ \A j \in Job : Present(j) =>
          /\ journal[j].phase \in {"initializing", "collecting", "updating", "finalizing", "frozen", "superseded"}
          /\ Spent(journal[j]) \in 0..MaxUpdates
          /\ journal[j].groups <= MaxGroups /\ journal[j].groups <= journal[j].position
          /\ Cardinality(journal[j].batch) <= GroupsPerUpdate
    /\ \A p \in Process : opening[p] # Nothing => opening[p].state \in {"asked", "built", "aborting"}

Root(k) == job[dispatches[k].job].root

\* However often a job is interrupted and continued, by repeating the invocation or from a
\* checkpoint, its lineage gives the optimizer no more than max_updates updates: a dispatch
\* without an outcome counts (service.py:281, M7-native-launch.md:46).
BudgetKept ==
    \A j \in Job : Cardinality({k \in DOMAIN dispatches : Root(k) = j}) <= MaxUpdates

\* Every update is on policy, and no sampler position of a lineage is trained on twice,
\* not even by the updates on the two sides of a recovery.
GroupOnce ==
    \A k \in DOMAIN dispatches :
        /\ \A g \in dispatches[k].batch : g.policy = dispatches[k].on
        /\ \A m \in DOMAIN dispatches \ {k} : Root(m) = Root(k) =>
              {g.at : g \in dispatches[k].batch} \cap {g.at : g \in dispatches[m].batch} = {}

\* What a lineage spends, the sampler's positions and the optimizer's updates, it spends once
\* (training/service.py).
UpdatesAccounted == BudgetKept /\ GroupOnce

\* The tensors of a checkpoint are exactly the updates its lineage has confirmed: no
\* dispatch without an outcome has left a trace in them.
CheckpointConfirmed ==
    \A j \in Job : \A c \in Checkpoints(j) :
        /\ Len(c.native) = c.updates
        /\ \A k \in DOMAIN c.native : Len(rows[c.native[k]]) >= 2
        /\ \A k, m \in DOMAIN c.native : c.native[k] = c.native[m] => k = m

\* A successful job selects a checkpoint of its own, and the last: no update was dispatched
\* for it afterwards.
SelectedNewest ==
    \A j \in Job : job[j].state = "completed" /\ job[j].result.disposition = "SUCCESS" =>
        LET c == job[j].result.checkpoint IN
        c \in Checkpoints(j) /\ Spent(c) = MaxUpdates /\ Later(c) = {}

\* A session that nobody holds any more has its shutdown on record ("Native startup/close
\* receipt outages remain retryable with exact keys; successful shutdown is not repeated",
\* docs/interfaces-M7.md).
ShutdownRecorded ==
    \A j \in Job : \A n \in 1..MaxCalls :
        Len(rows[Startup(j, n)]) = 2 =>
            \/ Closed(j, n)
            \/ \E p \in Process : live[p] # Nothing /\ Session(p) = <<j, n>>

\* So it is where nothing failed or died, unless another session of the job was announced
\* under its key, which names the attempt only (service.py:124).
KeyTaken(j, n) ==
    \E close \in Closes : rows[Row(close, j)] # <<>> /\ Receipt("startup", <<j, n>>) \notin Newest(Row(close, j))
ShutdownRecordedOrRefused ==
    faults = 0 =>
        \A j \in Job : \A n \in 1..MaxCalls :
            Len(rows[Startup(j, n)]) = 2 =>
                \/ Closed(j, n) \/ KeyTaken(j, n)
                \/ \E p \in Process : live[p] # Nothing /\ Session(p) = <<j, n>>

\* What a checkpoint holds, which one a job hands on, and the sessions that must be closed
\* before another continues from it (training/service.py).
CheckpointsStand == CheckpointConfirmed /\ SelectedNewest /\ ShutdownRecordedOrRefused
=============================================================================

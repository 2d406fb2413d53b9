---------------------------- MODULE NativeBackend ----------------------------
(***************************************************************************)
(* training/native.py and skyrl_bridge.py: one policy on the GPUs and the  *)
(* inference workers that sample from it, in turn on the same memory.  An  *)
(* operation of the session is a sequence of steps, any of which may fail; *)
(* the barrier of training/state.py says whose weights may be sampled.     *)
(*                                                                         *)
(* Contents of tensors are numbers, 0 those the run began with; the        *)
(* optimizer's moments go with them.  A manifest names the content it is   *)
(* of.  What SkyRL, Ray and vLLM do is external: a broadcast that returns  *)
(* has reached one worker or more, a probe tells contents apart, an export *)
(* is exact and a save need not be.                                        *)
(***************************************************************************)
EXTENDS Naturals, Sequences, FiniteSets

CONSTANTS Nothing, MaxFaults,
          Worker,           \* client.server_urls
          MaxContents,      \* bounds the contents ever made
          MaxSessions       \* bounds the sessions of one job namespace

VARIABLES
    driver,      \* "train" or "arms": what its owner uses the session for
    session,     \* NativeSession and its bridge
    trainer,     \* the tensors the policy workers hold, trainer.global_step
    engine,      \* per inference worker the content it serves; those awake
    barrier,     \* PolicyBarrier: its stamp, who acknowledged it
    disk,        \* per step the export and the checkpoint in the job's namespace, or Nothing
    confirmed,   \* what save_reload returned: a step, its content, the policy of it
    completion,  \* the last completion, or Nothing: the weights named and those that made it
    batch,       \* the last update: the rows of each group, those of each minibatch
    loss,        \* what the process has registered under the name of the policy loss
    made, faults, opened,
    updater,     \* TorchUpdater
    kept         \* its checkpoints, by path

sessionVars == <<driver, session, trainer, engine, barrier, disk, confirmed, completion,
                 batch, loss, made, opened>>
updaterVars == <<updater, kept>>
vars == <<sessionVars, updaterVars, faults>>

Contents == 0..MaxContents
Torn == MaxContents + 1   \* tensors half written

\* policy_version names the step and the weights.
Policy(step, weights) == [step |-> step, weights |-> weights]
InitialPolicy == Policy(0, 0)

\* What an owner of the session can do: "idle" anything, "failed" too, "ended" only close it.
Closed == [mode |-> "closed", todo |-> <<>>, target |-> InitialPolicy, policy |-> InitialPolicy,
           ready |-> FALSE, probed |-> Nothing, before |-> Nothing, active |-> Nothing]

Unused == [export |-> Nothing, checkpoint |-> Nothing]

\* An evaluation begins with the checkpoint a training selected.
SessionInit ==
    /\ driver \in {"train", "arms"}
    /\ session = Closed
    /\ trainer = [tensors |-> 0, step |-> 0]
    /\ engine = [served |-> [w \in Worker |-> 0], awake |-> {}]
    /\ barrier = [stamp |-> Nothing, acknowledged |-> {}]
    /\ disk = [n \in Contents |-> IF driver = "arms" /\ n = 1
                                  THEN [export |-> 1, checkpoint |-> 1] ELSE Unused]
    /\ confirmed = IF driver = "arms" THEN {[step |-> 1, policy |-> Policy(1, 1)]} ELSE {}
    /\ completion = Nothing
    /\ batch = [groups |-> <<>>, parts |-> <<>>]
    /\ loss \in {"none", "ours", "other"}
    /\ made = IF driver = "arms" THEN 1 ELSE 0
    /\ faults = 0 /\ opened = 0

--------------------------------------------------------------------------
(* The frame: one controller, and what is left of its operation. *)

outside == <<driver, confirmed, completion, batch, loss, opened>>

Resting == session.todo = <<>> /\ session.mode \in {"idle", "failed", "ended"}
Free == Resting /\ session.mode # "ended" /\ session.before = Nothing
Doing(s) == session.todo # <<>> /\ Head(session.todo) = s

\* The session after its step, and after its last one.
Done(s) ==
    [s EXCEPT !.todo = Tail(s.todo), !.mode = IF Len(s.todo) = 1 THEN "idle" ELSE @]
Goes == session' = Done(session)

\* An operation raised.  A construction closes the session.  Evaluations and runs close a
\* session whose activation failed (the initial arm would not be loaded again), and whoever
\* trains one whose reload was refused (its barrier is acknowledged before the comparison).
Raised ==
    IF session.mode = "opening" THEN Closed
    ELSE [session EXCEPT !.todo = <<>>, !.before = Nothing,
             !.mode = IF driver = "arms" \/ Doing("compare") THEN "ended" ELSE "failed"]
Raise == session' = Raised

\* A native call, an endpoint or the disk fails.
Fails == faults < MaxFaults /\ faults' = faults + 1 /\ Raise
Works == Goes /\ UNCHANGED faults

\* PolicyBarrier.begin: every acknowledgment is revoked.
Begin(stamp) == [stamp |-> stamp, acknowledged |-> {}]

\* verify_policy: PolicyBarrier.require of the policy's stamp.
Verified(p) == barrier.stamp = p /\ barrier.acknowledged = Worker

\* synchronize, after its checks of the probe's bounds.
Synchronize == <<"begin", "ensure", "broadcast", "probe">>

--------------------------------------------------------------------------
(* Construction. *)

\* register_losses: the name is ours in the process and in Ray's actor, if there is one, or
\* it raises before it has changed either.
Conflict(actor) == "other" \in {loss, actor}

\* __init__: the pins, trees, manifests and platform are as declared, or it raises.
Construct ==
    /\ session.mode = "closed" /\ opened < MaxSessions
    /\ opened' = opened + 1
    /\ session' = [Closed EXCEPT !.mode = "opening", !.todo = <<"start">>]
    /\ barrier' = [stamp |-> Nothing, acknowledged |-> {}]
    /\ UNCHANGED <<driver, trainer, engine, disk, confirmed, completion, batch, loss, made, faults>>

\* _start_trainer: the losses, the trainer over the model directory and the client, which is
\* told to sleep; then initialize_sync and synchronize.
StartTrainer ==
    /\ Doing("start")
    /\ \E actor \in {Nothing, "none", "ours", "other"} :
          IF Conflict(actor) THEN Raise /\ UNCHANGED loss
          ELSE /\ session' = [session EXCEPT
                     !.todo = <<"ensure", "broadcast", "ready">> \o Synchronize]
               /\ loss' = "ours"
    /\ trainer' = [tensors |-> 0, step |-> 0]
    /\ \E awake \in {{}, Worker} : engine' = [served |-> [w \in Worker |-> 0], awake |-> awake]
    /\ UNCHANGED <<driver, disk, confirmed, completion, batch, opened, barrier, made, faults>>

\* The controller dies with its session; the disk stays.
Crash ==
    /\ session.mode # "closed"
    /\ faults < MaxFaults /\ faults' = faults + 1
    /\ session' = Closed
    /\ UNCHANGED <<driver, trainer, engine, barrier, disk, confirmed, completion, batch, loss, made, opened>>

\* close: inference is revoked before the client is torn down; Ray stops whatever the
\* teardown raises.
Close ==
    /\ Resting
    /\ session' = Closed
    /\ barrier' = Begin(barrier.stamp)
    /\ UNCHANGED <<outside, trainer, engine, disk, made, faults>>

--------------------------------------------------------------------------
(* The steps. *)

BeginStep ==
    /\ Doing("begin")
    /\ barrier' = Begin(session.target)
    /\ Works
    /\ UNCHANGED <<outside, trainer, engine, disk, made>>

\* client.sleep: what it is told and what the engine does are two things.
Asleep(e) == e.awake = {}
Sleeping(awake) == [engine EXCEPT !.awake = awake]

\* _ensure_colocated_inference_asleep: a missing report is no sleep; who is awake is told to
\* sleep and looked at again.
Ensure ==
    /\ Doing("ensure")
    /\ \E awake \in SUBSET engine.awake :
          /\ engine' = Sleeping(awake)
          /\ IF awake = {} THEN Works ELSE Fails
    /\ UNCHANGED <<outside, trainer, barrier, disk, made>>

\* save_weights_for_sampler backloads the policy, sends its tensors and wakes the engine.
Broadcast ==
    /\ Doing("broadcast")
    /\ \E reached \in SUBSET Worker :
          LET served == [w \in Worker |-> IF w \in reached THEN trainer.tensors ELSE engine.served[w]]
          IN  \/ /\ reached = Worker
                 /\ engine' = [served |-> served, awake |-> Worker]
                 /\ Works
              \/ \* A worker is missed in silence.
                 /\ reached \notin {{}, Worker} /\ faults < MaxFaults
                 /\ engine' = [served |-> served, awake |-> Worker]
                 /\ Goes /\ faults' = faults + 1
              \/ /\ engine' = [engine EXCEPT !.served = served]
                 /\ Fails
    /\ UNCHANGED <<outside, trainer, barrier, disk, made>>

\* bridge.ready, at the end of initialize_sync and of bridge.update.
Ready ==
    /\ Doing("ready")
    /\ session' = Done([session EXCEPT !.ready = TRUE])
    /\ UNCHANGED <<outside, trainer, engine, barrier, disk, made, faults>>

\* synchronize: one answer of every endpoint, all of them equal; then each acknowledges.
Probe ==
    /\ Doing("probe")
    /\ \/ /\ \A v, w \in Worker : engine.served[v] = engine.served[w]
          /\ barrier' = [stamp |-> session.target, acknowledged |-> Worker]
          /\ session' = Done([session EXCEPT !.policy = session.target,
                                             !.probed = engine.served])
          /\ UNCHANGED faults
       \/ /\ \E v, w \in Worker : engine.served[v] # engine.served[w]
          /\ Raise
          /\ UNCHANGED <<barrier, faults>>
       \/ Fails /\ UNCHANGED barrier
    /\ UNCHANGED <<outside, trainer, engine, disk, made>>

--------------------------------------------------------------------------
(* update. *)

\* The rows of the first groups.
Sums(groups) ==
    LET sum[g \in 0..Len(groups)] == IF g = 0 THEN 0 ELSE sum[g - 1] + groups[g] IN sum

\* convert_eligible_batch: groups[g] is how many rows eligible group g has, together; each
\* minibatch is size of them, the last one what is left.
Boundaries(groups, size) ==
    LET last == Sums(groups)
        end(b) == IF b * size < Len(groups) THEN b * size ELSE Len(groups)
    IN  [b \in 1..(Len(groups) + size - 1) \div size |->
            <<last[(b - 1) * size] + 1, last[end(b)]>>]

\* Groups of two episodes of one turn or two.
Batches == {<<2>>, <<2, 3>>, <<2, 3, 2>>}
MiniBatchGroups == 2

Exists(n) == disk[n] # Unused

\* Mutant: the outputs of the step to come are not looked for.
UpdateOverRetained == Verified(session.policy)

\* Before anything is dispatched: the live policy, and no output of the step to come.
MayUpdate == Verified(session.policy) /\ ~Exists(trainer.step + 1)

\* No group with two outcomes: the workers are synchronized again and nothing is trained.
SkipUpdate ==
    /\ Free /\ driver = "train"
    /\ trainer.step < MaxContents
    /\ MayUpdate /\ session.ready
    /\ barrier' = Begin(barrier.stamp)
    /\ session' = [session EXCEPT !.todo = Synchronize, !.target = session.policy]
    /\ UNCHANGED <<outside, trainer, engine, disk, made, faults>>

\* bridge.update is not ready until its last line; native.py goes on to export and name it.
Update ==
    /\ Free /\ driver = "train"
    /\ trainer.step < MaxContents /\ made < MaxContents
    /\ IF MayUpdate
       THEN /\ barrier' = Begin(barrier.stamp)
            /\ IF session.ready
               THEN /\ session' = [session EXCEPT !.ready = FALSE, !.before = "updated",
                          !.todo = <<"sleep", "train", "ensure", "broadcast", "ready",
                                     "ensure", "export">> \o Synchronize]
                    /\ \E groups \in Batches :
                          batch' = [groups |-> groups, parts |-> Boundaries(groups, MiniBatchGroups)]
               ELSE Raise /\ UNCHANGED batch
       ELSE Raise /\ UNCHANGED <<barrier, batch>>
    /\ UNCHANGED <<driver, confirmed, completion, loss, opened, trainer, engine, disk, made, faults>>

\* The engine is told to sleep and not looked at.
Sleep ==
    /\ Doing("sleep")
    /\ \E awake \in {{}, engine.awake} :
          /\ engine' = Sleeping(awake)
          /\ Works \/ Fails
    /\ UNCHANGED <<outside, trainer, barrier, disk, made>>

\* global_step is counted before the optimizer works; one that raises leaves the tensors as
\* they were or halfway.
Train ==
    /\ Doing("train")
    /\ \/ /\ trainer' = [tensors |-> made + 1, step |-> trainer.step + 1]
          /\ made' = made + 1
          /\ Works \/ Fails
       \/ /\ trainer' = [trainer EXCEPT !.step = @ + 1]
          /\ Fails /\ UNCHANGED made
    /\ UNCHANGED <<outside, engine, barrier, disk>>

\* save_models, the adapter and the binding beside it, publish_directory: the new policy.
Export ==
    /\ Doing("export")
    /\ LET exported == [disk EXCEPT ![trainer.step].export = trainer.tensors] IN
       \/ /\ session' = Done([session EXCEPT !.target = Policy(trainer.step, trainer.tensors)])
          /\ disk' = exported
          /\ UNCHANGED faults
       \/ disk' \in {disk, exported} /\ Fails
    /\ UNCHANGED <<outside, trainer, engine, barrier, made>>

--------------------------------------------------------------------------
(* save_reload, resume, activate_checkpoint. *)

\* A checkpoint of this step is already there: refused before anything is written.
MaySave == disk[trainer.step].checkpoint = Nothing

\* The owner saves what it has just updated.
SaveReload ==
    /\ Resting /\ session.before = "updated"
    /\ IF MaySave
       THEN session' = [session EXCEPT !.todo = <<"ensure", "save", "load">> \o Synchronize \o <<"compare">>,
                                       !.target = session.policy,
                                       !.before = [tensors |-> trainer.tensors, probed |-> session.probed]]
       ELSE Raise
    /\ UNCHANGED <<outside, trainer, engine, barrier, disk, made, faults>>

\* save_checkpoints and the manifest: a directory, that need not be what is held.
Save ==
    /\ Doing("save")
    /\ \/ /\ disk' = [disk EXCEPT ![trainer.step].checkpoint = trainer.tensors]
          /\ UNCHANGED made
          /\ Works \/ Fails
       \/ Fails /\ UNCHANGED <<disk, made>>
       \/ /\ made < MaxContents /\ made' = made + 1 /\ faults < MaxFaults
          /\ disk' = [disk EXCEPT ![trainer.step].checkpoint = made + 1]
          /\ Goes /\ faults' = faults + 1
    /\ UNCHANGED <<outside, trainer, engine, barrier>>

\* _load: the binding is as it was, or refused; inference is revoked; then step and tensors
\* are those of the path, and the bridge is ready.
Load ==
    /\ Doing("load")
    /\ LET n == session.target.step
           loaded == [tensors |-> disk[n].checkpoint, step |-> n]
       IN  \/ /\ barrier' = Begin(barrier.stamp)
              /\ trainer' = loaded
              /\ \/ /\ session' = Done([session EXCEPT !.ready = TRUE])
                    /\ UNCHANGED faults
                 \/ Fails
           \/ /\ barrier' = Begin(barrier.stamp)
              /\ trainer' = [trainer EXCEPT !.tensors = Torn]
              /\ Fails
           \/ Fails /\ UNCHANGED <<barrier, trainer>>
    /\ UNCHANGED <<outside, engine, disk, made>>

\* The reloaded workers hold and answer what they did before the save.
Compare ==
    /\ Doing("compare")
    /\ IF session.before = [tensors |-> trainer.tensors, probed |-> session.probed]
       THEN /\ confirmed' = confirmed \cup {[step |-> trainer.step, policy |-> session.policy]}
            /\ session' = Done([session EXCEPT !.before = Nothing])
       ELSE Raise /\ UNCHANGED confirmed
    /\ UNCHANGED <<driver, completion, batch, loss, opened, trainer, engine, barrier, disk, made, faults>>

\* resume: the directories are as their manifests say; then its policy.
Resume(c) ==
    /\ Free /\ driver = "train"
    /\ session' = [session EXCEPT !.todo = <<"load">> \o Synchronize, !.target = c.policy]
    /\ UNCHANGED <<outside, trainer, engine, barrier, disk, made, faults>>

\* activate_checkpoint of a trained arm resumes it; the initial arm is loaded unless it is
\* the one the session is at.
Activate(c) ==
    /\ Free /\ driver = "arms"
    /\ LET load == IF c.step # 0 THEN <<"load">>
                   ELSE IF session.policy.weights # 0 THEN <<"revoke", "init">> ELSE <<>>
       IN  session' = [session EXCEPT !.todo = load \o Synchronize, !.target = c.policy,
                                      !.active = c]
    /\ UNCHANGED <<outside, trainer, engine, barrier, disk, made, faults>>

Revoke ==
    /\ Doing("revoke")
    /\ barrier' = Begin(barrier.stamp)
    /\ Works
    /\ UNCHANGED <<outside, trainer, engine, disk, made>>

\* dispatch.init_model of the model directory.
InitModel ==
    /\ Doing("init")
    /\ \/ trainer' = [tensors |-> 0, step |-> 0] /\ Works
       \/ trainer' \in {trainer, [trainer EXCEPT !.tensors = Torn]} /\ Fails
    /\ UNCHANGED <<outside, engine, barrier, disk, made>>

--------------------------------------------------------------------------
(* Sampling, and the session's behaviours. *)

InitialArm == [step |-> 0, policy |-> InitialPolicy]
Arms == confirmed \cup {InitialArm}

\* Who samples: an episode of a training under the session's policy, a trial of an
\* evaluation under its arm's, whose activation is validated first.
SamplePolicy == IF driver = "train" THEN session.policy ELSE session.active.policy

\* generate: the barrier admits the policy before the request and after the answer.
Generate ==
    /\ Free
    /\ driver = "arms" => session.active # Nothing
    /\ Verified(SamplePolicy)
    /\ \E w \in engine.awake :
          completion' = [named |-> SamplePolicy.weights, from |-> engine.served[w]]
    /\ UNCHANGED <<driver, session, trainer, engine, barrier, disk, confirmed, batch, loss,
                   made, faults, opened>>

SessionNext ==
    \/ Construct \/ StartTrainer \/ Crash \/ Close
    \/ BeginStep \/ Ensure \/ Broadcast \/ Ready \/ Probe
    \/ SkipUpdate \/ Update \/ Sleep \/ Train \/ Export
    \/ SaveReload \/ Save \/ Load \/ Compare
    \/ \E c \in confirmed : Resume(c)
    \/ \E c \in Arms : Activate(c)
    \/ Revoke \/ InitModel \/ Generate
--------------------------------------------------------------------------
(* training/torch_backend.py, TorchUpdater: one updater in one process. *)

\* The steps a model has taken whole, and whether it is whole.
Model(steps, whole) == [steps |-> steps, whole |-> whole]
Path == {1, 2}

UpdaterInit ==
    /\ updater = [model |-> Model(0, TRUE), steps |-> 0, failed |-> FALSE]
    /\ kept = [f \in Path |-> Nothing]
    /\ faults = 0

\* update: nothing is touched until the gradients are finite, nor by those that are zero; a
\* step that raises, or leaves
\* values that are not finite, leaves the updater failed.
UpdateTurns ==
    /\ ~updater.failed
    /\ updater.steps < MaxContents
    /\ \/ /\ updater' = [model |-> Model(updater.steps + 1, TRUE), steps |-> updater.steps + 1,
                          failed |-> FALSE]
          /\ UNCHANGED faults
       \/ /\ faults < MaxFaults /\ faults' = faults + 1
          /\ updater' = [updater EXCEPT !.model.whole = FALSE, !.failed = TRUE]
    /\ UNCHANGED kept

\* save_checkpoint: written aside and renamed; the last fsync may fail after that.
SaveCheckpoint(f) ==
    /\ ~updater.failed
    /\ kept[f] = Nothing
    /\ kept' = [kept EXCEPT ![f] = [model |-> updater.model, steps |-> updater.steps]]
    /\ UNCHANGED <<updater, faults>>

\* load_checkpoint: everything is checked on copies, and then becomes the updater.
LoadCheckpoint(f) ==
    /\ kept[f] # Nothing
    /\ updater' = [model |-> kept[f].model, steps |-> kept[f].steps, failed |-> FALSE]
    /\ UNCHANGED <<kept, faults>>

\* The process ends: what it kept is all there is.
Restart ==
    /\ faults < MaxFaults /\ faults' = faults + 1
    /\ updater' = [model |-> Model(0, TRUE), steps |-> 0, failed |-> FALSE]
    /\ UNCHANGED kept

UpdaterNext ==
    \/ UpdateTurns \/ Restart
    \/ \E f \in Path : SaveCheckpoint(f) \/ LoadCheckpoint(f)

--------------------------------------------------------------------------
(* What the backend promises. *)

\* Every completion is of the weights its policy names ("never stale collection",
\* skyrl_bridge.py:289), whatever an update, a load or a broadcast left behind.
SampledAsNamed == completion # Nothing => completion.from = completion.named

\* A confirmed checkpoint holds what its policy's weights name, and no later run of the job
\* writes over it ("recover retained work instead of overwriting immutable tensors",
\* native.py:459).
CheckpointsHold ==
    \A c \in confirmed :
        /\ disk[c.step].checkpoint = c.policy.weights
        /\ disk[c.step].export = c.policy.weights

\* The policy comes back to the GPUs for a broadcast, an export or a save when no worker is
\* awake ("Export backloads policy. The sampler sync above left vLLM awake.",
\* native.py:470), and trains under the project's loss.
Alone ==
    /\ \A s \in {"broadcast", "export", "save"} : Doing(s) => Asleep(engine)
    /\ Doing("train") => loss = "ours"

\* Parts are all the rows of the groups, each once, and those of a group together.
Whole(groups, parts) ==
    LET last == Sums(groups) IN
    \A b \in 1..Len(parts) :
        /\ parts[b][1] = IF b = 1 THEN 1 ELSE parts[b - 1][2] + 1
        /\ \E n \in 1..Len(groups) : parts[b][2] = last[n]
        /\ b = Len(parts) => parts[b][2] = last[Len(groups)]

\* The minibatches are all the rows, each once, of whole groups.
MiniBatchesWhole == Whole(batch.groups, batch.parts)

SessionSound == SampledAsNamed /\ CheckpointsHold /\ Alone /\ MiniBatchesWhole

\* What the updater keeps is whole and counted, after steps that failed halfway.
UpdaterSound ==
    \A f \in Path : kept[f] # Nothing =>
        kept[f].model.whole /\ kept[f].model.steps = kept[f].steps
=============================================================================

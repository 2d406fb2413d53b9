------------------------------- MODULE Release -------------------------------
(***************************************************************************)
(* The qualification and release of built tasks (pipeline/lifecycle.py,    *)
(* pipeline/qualification.py, qualification) and what a released task is   *)
(* resolved from (pipeline/resolver.py), while artifacts are quarantined   *)
(* and notices lifted.  What a step reads it reads from a registry that    *)
(* may have changed since the step before.                                 *)
(***************************************************************************)
EXTENDS Naturals, Sequences, FiniteSets

CONSTANTS TaskVersion,      \* built tasks
          Sound,            \* those whose evidence is complete
          PolicyId,         \* qualification policies
          Implementation,   \* revisions of the qualification service
          Controller,
          MaxOperations,    \* operations begun in all
          MaxNotices,       \* artifacts quarantined in all
          None

VARIABLES artifacts,        \* the manifests and reports in the store
          registered,          \* registered artifact -> what it depends on
          revoked,          \* artifacts under an active notice
          doing,            \* controller -> what it is at
          begun, notices,
          resolved          \* what was answered, and the notices in force meanwhile

releaseVars == <<artifacts, registered, revoked, doing, begun, notices, resolved>>

Evidence(v) == [kind |-> "evidence", of |-> v]            \* builds, executions and outputs
Validation(v) == [kind |-> "validation", of |-> v]        \* the record of the two references
Verifier(v) == [kind |-> "verifier", of |-> v]
PolicyRef(c) == [kind |-> "policy", of |-> c]
Configuration(i, c) == [kind |-> "configuration", of |-> <<i, c>>]     \* of a TaskLifecycle
Resolver(profiles) == [kind |-> "resolver", of |-> profiles]           \* of a ReleasedTaskResolver
Manifest(v, state, report) == [kind |-> "task", of |-> v, state |-> state, report |-> report]
Built(v) == Manifest(v, "built", None)
Tasks == {a \in artifacts : a.kind = "task"}
Reports == {a \in artifacts : a.kind = "report"}

\* The references in an artifact itself.  A validation record is bytes: what it names is no
\* dependency of it.
Intrinsic(a) ==
    CASE a.kind = "task" -> {Verifier(a.of)} \cup (IF a.report = None THEN {} ELSE {a.report})
      [] a.kind = "report" -> {Built(a.of), PolicyRef(a.policy)}
                              \cup (IF a.read THEN {Validation(a.of)} ELSE {})
      [] a.kind = "verifier" -> {Validation(a.of)}
      [] a.kind = "configuration" -> {PolicyRef(a.of[2])}
      [] a.kind = "resolver" -> {Configuration(i, CHOOSE c \in PolicyId : TRUE) : i \in a.of}
      [] OTHER -> {}

ReleaseInit ==
    /\ artifacts = {Built(v) : v \in TaskVersion}
    /\ registered = [a \in (UNION {{Built(v), Verifier(v), Validation(v), Evidence(v)} : v \in TaskVersion})
                        \cup {PolicyRef(c) : c \in PolicyId}
                        \cup {Configuration(i, c) : i \in Implementation, c \in PolicyId}
                        \cup {Resolver(profiles) : profiles \in (SUBSET Implementation) \ {{}}}
                  |-> Intrinsic(a)]
    /\ revoked = {}
    /\ doing = [p \in Controller |-> None]
    /\ begun = 0 /\ notices = 0 /\ resolved = {}

--------------------------------------------------------------------------
(* The registry (its own module is Registry). *)

\* Everything an artifact was made from.  The longest way is from a manifest to its report,
\* the built task, its verifier and the validation record: four steps.
Parents(S) == S \cup UNION {registered[a] : a \in S \cap DOMAIN registered}
Ancestors(S) == Parents(Parents(Parents(Parents(S))))

\* assert_usable: registered, and nothing it was made from is under a notice.
Usable(a) == a \in DOMAIN registered /\ Ancestors({a}) \cap revoked = {}

Register(a, explicit) ==
    registered' = IF a \in DOMAIN registered THEN registered
               ELSE [b \in DOMAIN registered \cup {a} |->
                        IF b = a THEN Intrinsic(a) \cup explicit ELSE registered[b]]

Quarantine ==
    /\ notices < MaxNotices
    /\ \E a \in DOMAIN registered \ revoked : revoked' = revoked \cup {a}
    /\ notices' = notices + 1
    /\ UNCHANGED <<artifacts, registered, doing, begun, resolved>>

Lift ==
    /\ \E a \in revoked :
          /\ revoked' = revoked \ {a}
          /\ doing' = [p \in Controller |-> IF doing[p] = None THEN None
                                            ELSE [doing[p] EXCEPT !.seen = @ \ {a}]]
    /\ UNCHANGED <<artifacts, registered, begun, notices, resolved>>

--------------------------------------------------------------------------
(* A controller's operation: what it is at, of which task and report, under which policy and
   revisions; "todo" are the artifacts it has yet to find usable, "seen" the notices in force
   since it began. *)

Doing(at, t, r, c, by, todo) ==
    [at |-> at, task |-> t, report |-> r, policy |-> c, by |-> by, todo |-> todo, seen |-> revoked]

At(p, step) == doing[p] # None /\ doing[p].at = step
Goto(p, step) == doing' = [doing EXCEPT ![p].at = step]
Return(p) == doing' = [doing EXCEPT ![p] = None]

Begin(p, operation) ==
    /\ doing[p] = None /\ begun < MaxOperations
    /\ begun' = begun + 1
    /\ doing' = [doing EXCEPT ![p] = operation]
    /\ UNCHANGED <<artifacts, registered, revoked, notices, resolved>>

\* Whatever raises, and a controller's death: what was put stays, what was held is gone.
Fail(p) ==
    /\ doing[p] # None
    /\ Return(p)
    /\ UNCHANGED <<artifacts, registered, revoked, begun, notices, resolved>>

\* One assert_usable after the other, each on the registry of its time; a refusal is Fail.
Walk(p) ==
    /\ doing[p] # None /\ doing[p].todo # << >>
    /\ Usable(Head(doing[p].todo))
    /\ doing' = [doing EXCEPT ![p].todo = Tail(@)]
    /\ UNCHANGED <<artifacts, registered, revoked, begun, notices, resolved>>

Walked(p, step) == At(p, step) /\ doing[p].todo = << >>

--------------------------------------------------------------------------
(* Qualification. *)

\* qualification.qualify: only of a built task.
Qualify(p) ==
    \E t \in Tasks, c \in PolicyId, i \in Implementation :
        t.state = "built" /\ Begin(p, Doing("validate", t, None, c, {i}, <<t>>))

\* Mutant: the evidence is not declared.
Undeclared(r) == {}

\* The builds, executions and outputs the report rests on are declared with it.
Declared(r) == IF r.read THEN {Evidence(r.of)} ELSE {}

\* load_verifier, solver_package, validate_reference: any of them may find nothing to accept;
\* the report says so, and what had been read.
Validate(p) ==
    /\ Walked(p, "validate")
    /\ LET o == doing[p] IN
       \E read, success \in BOOLEAN :
          /\ success => read /\ o.task.of \in Sound
          /\ LET r == [kind |-> "report", of |-> o.task.of, policy |-> o.policy, by |-> o.by,
                       read |-> read, success |-> success, call |-> begun]
             IN  /\ artifacts' = artifacts \cup {r}
                 /\ doing' = [doing EXCEPT ![p].at = "declare", ![p].report = r]
    /\ UNCHANGED <<registered, revoked, begun, notices, resolved>>

Declare(p) ==
    /\ At(p, "declare")
    /\ Register(doing[p].report, Declared(doing[p].report))
    /\ Return(p)
    /\ UNCHANGED <<artifacts, revoked, begun, notices, resolved>>

--------------------------------------------------------------------------
(* Release. *)

\* admission.verify_accepted: what it finds usable, and what it compares.
VerifyWalk(t, r) ==
    <<r, Built(r.of), Verifier(r.of)>> \o (IF t = Built(r.of) THEN << >> ELSE <<t>>)
Accepted(t, r, c, by) ==
    /\ r.by \subseteq by /\ r.success /\ r.read /\ r.policy = c
    /\ t.of = r.of
    /\ \/ t = Built(r.of)
       \/ t.state \in {"qualified", "released"} /\ t.report = r

\* lifecycle._transition: its predecessor, its configuration, the report; then the built task
\* once more.
TransitionWalk(t, r) ==
    \* A service runs one revision.
    <<t, Configuration(CHOOSE i \in r.by : TRUE, r.policy)>> \o VerifyWalk(t, r) \o <<Built(r.of)>>

\* qualification.release: the service is that of the report's policy; a built task goes both
\* steps, a qualified one the last, of its own report.
ReleaseTask(p) ==
    \E t \in Tasks, r \in Reports :
        /\ t.state # "released"
        /\ t.state = "qualified" => t.report = r
        /\ \E i \in Implementation : r.by = {i}
        /\ Begin(p, Doing("transition", t, r, r.policy, r.by, TransitionWalk(t, r)))

After(state) == IF state = "built" THEN "qualified" ELSE "released"

\* The manifest with its next state is put; it is the same whoever puts it.
Transition(p) ==
    /\ Walked(p, "transition")
    /\ LET o == doing[p] IN
       /\ Accepted(o.task, o.report, o.policy, o.by)
       /\ LET t == Manifest(o.task.of, After(o.task.state), o.report) IN
          /\ artifacts' = artifacts \cup {t}
          /\ doing' = [doing EXCEPT ![p].at = "publish", ![p].task = t]
    /\ UNCHANGED <<registered, revoked, begun, notices, resolved>>

\* It is registered, and released next if it was qualified.
Publish(p) ==
    /\ At(p, "publish")
    /\ LET o == doing[p] IN
       /\ Register(o.task, {})
       /\ IF o.task.state = "released" THEN Return(p)
          ELSE doing' = [doing EXCEPT ![p].at = "transition",
                                      ![p].todo = TransitionWalk(o.task, o.report)]
    /\ UNCHANGED <<artifacts, revoked, begun, notices, resolved>>

--------------------------------------------------------------------------
(* Resolution. *)

\* resolve_released, by a lifecycle of one revision and policy or by a resolver of several
\* revisions, which takes the policy from the report.
ResolveByLifecycle(p) ==
    \E t \in Tasks, i \in Implementation, c \in PolicyId :
        /\ t.state = "released"
        /\ Begin(p, Doing("resolve", t, t.report, c, {i},
                         <<t, Configuration(i, c)>> \o VerifyWalk(t, t.report) \o <<Built(t.of)>>))
ResolveByResolver(p) ==
    \E t \in Tasks, profiles \in (SUBSET Implementation) \ {{}} :
        /\ t.state = "released"
        /\ Begin(p, Doing("resolve", t, t.report, t.report.policy, profiles,
                         <<Resolver(profiles), t, t.report, PolicyRef(t.report.policy)>>
                         \o VerifyWalk(t, t.report)))

Answer(p) ==
    /\ Walked(p, "resolve")
    /\ LET o == doing[p] IN
       /\ Accepted(o.task, o.report, o.policy, o.by)
       /\ resolved' = resolved \cup {[task |-> o.task, by |-> o.by, seen |-> o.seen]}
    /\ Return(p)
    /\ UNCHANGED <<artifacts, registered, revoked, begun, notices>>

ReleaseNext ==
    \/ Quarantine \/ Lift
    \/ \E p \in Controller :
          \/ Qualify(p) \/ Validate(p) \/ Declare(p)
          \/ ReleaseTask(p) \/ Transition(p) \/ Publish(p)
          \/ ResolveByLifecycle(p) \/ ResolveByResolver(p) \/ Answer(p)
          \/ Walk(p) \/ Fail(p)

ReleaseSpec == ReleaseInit /\ [][ReleaseNext]_releaseVars

--------------------------------------------------------------------------

\* A resolved task has an accepted report of its own, of a revision that was asked for, on
\* evidence that was complete; and nothing it was made from, down to the outputs of the
\* reference runs, was under a notice from before the resolution to its end, whenever that came.
ResolvedStands ==
    \A answer \in resolved :
        LET t == answer.task
            r == answer.task.report
        IN
        /\ t.state = "released" /\ r.success /\ r.of = t.of /\ t.of \in Sound
        /\ r.by \subseteq answer.by
        /\ answer.seen \cap {t, r, Built(t.of), Verifier(t.of), Validation(t.of),
                             Evidence(t.of), PolicyRef(r.policy)} = {}

\* Nothing is released that was not qualified, by the same report.
ReleasedInSequence ==
    \A t \in Tasks : t.state = "released" => Manifest(t.of, "qualified", t.report) \in DOMAIN registered
=============================================================================

----------------------------- MODULE Evaluation -----------------------------
(***************************************************************************)
(* evaluation/service.py, EvaluationService, with its native backend: one  *)
(* evaluate job runs every preregistered trial, grouped by arm and seed.   *)
(* A session is started, each group's policy is activated in it, its       *)
(* trials run as child jobs, the execution is frozen, the session closed   *)
(* and the report derived from the frozen execution.  recover repeats all  *)
(* that is not frozen, under a session of its own; a child that completed  *)
(* is replayed and one that was interrupted is never sampled again.        *)
(*                                                                         *)
(* recover takes no lock: any number of processes may execute the claim.   *)
(* A session is its startup's index and its process, and dies with it.     *)
(* Registry calls are JobLedger's.  What a session's evidence attests and  *)
(* the statistics of the report are left out.                              *)
(***************************************************************************)
EXTENDS JobLedger, FiniteSets

CONSTANTS Plan,         \* Plan[t]: the (arm, seed) group of trial t, in execution order
          MaxCalls,     \* calls of evaluate and recover
          Nothing

ASSUME PlanAssumption ==
    /\ Len(Plan) \in Nat \ {0} /\ DOMAIN Plan = 1..Len(Plan)
    /\ MaxCalls \in Nat
    /\ \A t, u, v \in DOMAIN Plan : t < u /\ u < v /\ Plan[t] = Plan[v] => Plan[u] = Plan[t]

VARIABLES
    job,        \* the evaluate job; bound is what its completion accounts
    trial,      \* trial[t]: the child job, and the session and arm it was sampled under
    sampled,    \* sampled[t]: episodes ever started for t
    handle,     \* per process: the session it retains, self._handles, or Nothing
    opening,    \* per process: the startup it retains, self._opening, or Nothing
    owned,      \* per process: the sessions constructed in its life, by index
    ray,        \* per process: its Ray connection is up
    loaded,     \* per process: the group last activated in its session
    me,         \* per process: trial, continuation, execution and accounting of its call
    calls

childVars == <<trial, sampled>>
sessionVars == <<handle, opening, owned, ray, loaded>>
vars == <<ledgerVars, job, childVars, sessionVars, me, calls>>

Trial == DOMAIN Plan
Group == {Plan[t] : t \in Trial}
Index == 1..MaxCalls

Startup(n) == <<"startup", n>>
Shutdown(n) == <<"shutdown", n>>
Abort(n) == <<"abort", n>>
Activation(n, g) == <<"activation", <<n, g>>>>
Execution == <<"execution", 0>>
Report == <<"report", 0>>
Rows == {Startup(n) : n \in Index} \cup {Shutdown(n) : n \in Index} \cup {Abort(n) : n \in Index}
        \cup {Activation(n, g) : n \in Index, g \in Group} \cup {Execution, Report}

Configuration == Receipt("configuration", 0)
\* What a process may retain of a session.
Handles == [index : Index, noted : BOOLEAN, shut : BOOLEAN]
Openings == [index : Index, built : BOOLEAN, closed : BOOLEAN]

ASSUME NothingAssumption == Nothing \notin Handles \cup Openings

Idle == [next |-> 1, then |-> "raise", execution |-> Nothing, seen |-> {}]

Init ==
    /\ rows = [r \in Rows |-> <<>>]
    /\ pc = [p \in Process |-> "idle"]
    /\ faults = 0
    /\ job = [state |-> "absent", execution |-> Nothing, bound |-> {}]
    /\ trial = [t \in Trial |-> [state |-> "absent", session |-> Nothing, arm |-> Nothing]]
    /\ sampled = [t \in Trial |-> 0]
    /\ handle = [p \in Process |-> Nothing]
    /\ opening = [p \in Process |-> Nothing]
    /\ owned = [p \in Process |-> {}]
    /\ ray = [p \in Process |-> FALSE]
    /\ loaded = [p \in Process |-> Nothing]
    /\ me = [p \in Process |-> Idle]
    /\ calls = 0

\* The session the call of p works in.
Session(p) == <<handle[p].index, p>>

\* Everything accounted to the job.
Account == {<<r, Len(rows[r])>> : r \in {x \in Rows : rows[x] # <<>>}}

\* _close_handle: of the session p retains, if any.
Close(p) == Goto(p, IF handle[p] = Nothing THEN "shutdown done"
                    ELSE IF handle[p].noted THEN "shut" ELSE "close")

--------------------------------------------------------------------------
(* evaluate, recover. *)

Evaluate(p) ==
    /\ At(p, "idle")
    /\ job.state \in {"absent", "queued"}
    /\ calls < MaxCalls /\ calls' = calls + 1
    /\ Call(p, job' = [job EXCEPT !.state = "queued"], UNCHANGED job, "claim", "idle")
    /\ me' = [me EXCEPT ![p] = Idle]
    /\ UNCHANGED <<rows, childVars, sessionVars>>

\* The claim's key is fresh: a second process is refused.
Claim(p) ==
    /\ At(p, "claim")
    /\ IF job.state = "queued"
       THEN Call(p, job' = [job EXCEPT !.state = "running"], UNCHANGED job, "find", "idle")
       ELSE Goto(p, "idle") /\ UNCHANGED <<job, faults>>
    /\ UNCHANGED <<rows, childVars, sessionVars, me, calls>>

Recover(p) ==
    /\ At(p, "idle")
    /\ job.state = "running"
    /\ calls < MaxCalls /\ calls' = calls + 1
    /\ Goto(p, "find")
    /\ me' = [me EXCEPT ![p] = Idle]
    /\ UNCHANGED <<rows, faults, job, childVars, sessionVars>>

\* _existing_execution: a frozen execution is consumed, whoever froze it.
Find(p) ==
    /\ At(p, "find")
    /\ \/ /\ rows[Execution] = <<>>
          /\ Goto(p, "index") /\ UNCHANGED me
       \/ \E r \in Newest(Execution) :
             /\ Close(p)
             /\ me' = [me EXCEPT ![p].then = "check", ![p].execution = r[2]]
    /\ UNCHANGED <<rows, faults, job, childVars, sessionVars, calls>>

--------------------------------------------------------------------------
(* _native_execution: the session. *)

Startups == {n \in Index : rows[Startup(n)] # <<>>}

\* The startups on record are counted for the next key.
ChooseStartup(p) ==
    /\ At(p, "index")
    /\ IF opening[p] # Nothing
       THEN Goto(p, "idle") /\ UNCHANGED opening
       ELSE /\ Goto(p, "create")
            /\ opening' = [opening EXCEPT ![p] =
                              [index |-> Cardinality(Startups) + 1, built |-> FALSE, closed |-> FALSE]]
    /\ UNCHANGED <<rows, faults, job, childVars, handle, owned, ray, loaded, me, calls>>

\* create: only under a running claim and a key nobody announced.
CheckKey(p) ==
    /\ At(p, "create")
    /\ Goto(p, IF job.state = "running" /\ opening[p].index \notin Startups
               THEN "announce startup" ELSE "idle")
    /\ UNCHANGED <<rows, faults, job, childVars, sessionVars, me, calls>>

AnnounceStartup(p) ==
    /\ At(p, "announce startup")
    /\ Observe(p, Startup(opening[p].index), 1, {Configuration}, "construct", "idle")
    /\ UNCHANGED <<job, childVars, sessionVars, me, calls>>

\* A process has one Ray connection; with another session up it raises.
Construct(p) ==
    /\ At(p, "construct")
    /\ \/ /\ ~ray[p]
          /\ Goto(p, "publish startup")
          /\ ray' = [ray EXCEPT ![p] = TRUE]
          /\ opening' = [opening EXCEPT ![p].built = TRUE]
          /\ owned' = [owned EXCEPT ![p] = @ \cup {opening[p].index}]
       \/ Goto(p, "idle") /\ UNCHANGED <<opening, owned, ray>>
    /\ UNCHANGED <<rows, faults, job, childVars, handle, loaded, me, calls>>

\* The handle replaces the one the process retained.
PublishStartup(p) ==
    /\ At(p, "publish startup")
    /\ LET n == opening[p].index IN
       /\ Observe(p, Startup(n), 2, {Configuration, Receipt("startup", <<n, p>>)},
                  "announce activation", "idle")
       /\ IF pc'[p] # "idle"
          THEN /\ opening' = [opening EXCEPT ![p] = Nothing]
               /\ handle' = [handle EXCEPT ![p] = [index |-> n, noted |-> FALSE, shut |-> FALSE]]
               /\ loaded' = [loaded EXCEPT ![p] = Nothing]
          ELSE UNCHANGED <<opening, handle, loaded>>
    /\ UNCHANGED <<job, childVars, owned, ray, me, calls>>

--------------------------------------------------------------------------
(* _native_execution: the trials, group by group.  Any error closes the    *)
(* session before it is raised.                                            *)

\* Mutant: one activation serves every group.
OpensGroupOnce(t) == t = 1

OpensGroup(t) == t = 1 \/ Plan[t] # Plan[t - 1]

Turn(p) == me[p].next

\* Trial t is next, its group's activation first, or all are done.
Before(t) == IF t \notin Trial THEN "freeze"
             ELSE IF OpensGroup(t) THEN "announce activation" ELSE "run"

Proceed(p) ==
    /\ Goto(p, Before(Turn(p) + 1))
    /\ me' = [me EXCEPT ![p].next = @ + 1]

AnnounceActivation(p) ==
    /\ At(p, "announce activation")
    /\ Observe(p, Activation(handle[p].index, Plan[Turn(p)]), 1, {Configuration}, "activate", "close")
    /\ UNCHANGED <<job, childVars, sessionVars, me, calls>>

\* The arm is loaded, broadcast and probed, or not.
Activate(p) ==
    /\ At(p, "activate")
    /\ \/ Goto(p, "publish activation") /\ loaded' = [loaded EXCEPT ![p] = Plan[Turn(p)]]
       \/ Goto(p, "close") /\ loaded' = [loaded EXCEPT ![p] = Nothing]
    /\ UNCHANGED <<rows, faults, job, childVars, handle, opening, owned, ray, me, calls>>

PublishActivation(p) ==
    /\ At(p, "publish activation")
    /\ Observe(p, Activation(handle[p].index, Plan[Turn(p)]), 2,
               {Configuration, Receipt("activated", Session(p))}, "run", "close")
    /\ UNCHANGED <<job, childVars, sessionVars, me, calls>>

\* Mutant: the child interrupted under an earlier session is sampled again.
AssignableAgain(t) == trial[t].state \in {"absent", "running"}

\* AgentRunner.run: only a child that was never dispatched is sampled.
Assignable(t) == trial[t].state = "absent"

Replayable(t) == trial[t].state = "completed"

\* _trial: the child is sampled or replayed; or it was dispatched already, its task is not
\* released any more or the activation has changed, which raises.
RunTrial(p) ==
    /\ At(p, "run")
    /\ LET t == Turn(p) IN
       \/ /\ Assignable(t)
          /\ trial' = [trial EXCEPT ![t] =
                          [state |-> "running", session |-> Session(p), arm |-> loaded[p]]]
          /\ sampled' = [sampled EXCEPT ![t] = @ + 1]
          /\ Goto(p, "episode") /\ UNCHANGED me
       \/ /\ Replayable(t)
          /\ Proceed(p)
          /\ UNCHANGED childVars
       \/ Goto(p, "close") /\ UNCHANGED <<childVars, me>>
    /\ UNCHANGED <<rows, faults, job, sessionVars, calls>>

\* The episode completes its job; or it raises before it is frozen, or after, or its result
\* is refused.
Episode(p) ==
    /\ At(p, "episode")
    /\ \/ /\ trial' = [trial EXCEPT ![Turn(p)].state = "completed"]
          /\ Proceed(p)
       \/ /\ \E s \in {"running", "frozen", "completed"} : trial' = [trial EXCEPT ![Turn(p)].state = s]
          /\ Goto(p, "close") /\ UNCHANGED me
    /\ UNCHANGED <<rows, faults, job, sampled, sessionVars, calls>>

\* AgentRunner.recover completes a child from its frozen outcome.
RecoverTrial(t) ==
    /\ trial[t].state = "frozen"
    /\ trial' = [trial EXCEPT ![t].state = "completed"]
    /\ UNCHANGED <<ledgerVars, job, sampled, sessionVars, me, calls>>

\* _publish_execution, one row of the claim: a different execution is refused.
Freeze(p) ==
    /\ At(p, "freeze")
    /\ Observe(p, Execution, 1, {Receipt("execution", Session(p))}, "frozen", "close")
    /\ me' = IF pc'[p] = "frozen"
             THEN [me EXCEPT ![p].then = "check", ![p].execution = Session(p)] ELSE me
    /\ UNCHANGED <<job, childVars, sessionVars, calls>>

--------------------------------------------------------------------------
(* _close_handle. *)

\* A refused announcement does not keep the session from being closed.
AnnounceShutdown(p) ==
    /\ pc[p] \in {"close", "frozen"}
    /\ Observe(p, Shutdown(handle[p].index), 1, {Receipt("startup", Session(p))}, "shut", "shut unannounced")
    /\ handle' = [handle EXCEPT ![p].noted = pc'[p] = "shut"]
    /\ UNCHANGED <<job, childVars, opening, owned, ray, loaded, me, calls>>

\* NativeSession.close: a teardown that fails is raised after Ray is stopped, anything else
\* before.
StopRay(p) == ray' = [ray EXCEPT ![p] = FALSE]
CloseRaises(p) ==
    /\ faults < MaxFaults /\ faults' = faults + 1
    /\ StopRay(p) \/ UNCHANGED ray

\* A session that is closed is not closed again.
Shut(p) ==
    /\ pc[p] \in {"shut", "shut unannounced"}
    /\ \/ /\ handle' = [handle EXCEPT ![p].shut = TRUE]
          /\ StopRay(p)
          /\ Goto(p, IF At(p, "shut") THEN "publish shutdown" ELSE "shutdown failed")
          /\ UNCHANGED faults
       \/ /\ ~handle[p].shut /\ CloseRaises(p)
          /\ Goto(p, "shutdown failed") /\ UNCHANGED handle
    /\ UNCHANGED <<rows, job, childVars, opening, owned, loaded, me, calls>>

\* Mutant: the handle is dropped with the session, confirmed or not.
ConfirmedOrNot(p) == pc'[p] \in {"shutdown done", "shutdown failed"}

Confirmed(p) == pc'[p] = "shutdown done"

\* The handle is kept until its shutdown is on record.
PublishShutdown(p) ==
    /\ At(p, "publish shutdown")
    /\ Observe(p, Shutdown(handle[p].index), 2,
               {Receipt("startup", Session(p)), Receipt("shutdown", Session(p))},
               "shutdown done", "shutdown failed")
    /\ handle' = [handle EXCEPT ![p] = IF Confirmed(p) THEN Nothing ELSE @]
    /\ UNCHANGED <<job, childVars, opening, owned, ray, loaded, me, calls>>

\* Only the service's close goes on after a failed one.
AfterClose(p) ==
    /\ pc[p] \in {"shutdown done", "shutdown failed"}
    /\ Goto(p, CASE me[p].then = "service"                             -> "close startup"
                 [] me[p].then = "check" /\ At(p, "shutdown done")     -> "check"
                 [] OTHER                                              -> "idle")
    /\ UNCHANGED <<rows, faults, job, childVars, sessionVars, me, calls>>

--------------------------------------------------------------------------
(* close: cleanup only, of the handle and of the unpublished startup. *)

CloseService(p) ==
    /\ At(p, "idle")
    /\ handle[p] # Nothing \/ opening[p] # Nothing
    /\ Close(p)
    /\ me' = [me EXCEPT ![p].then = "service"]
    /\ UNCHANGED <<rows, faults, job, childVars, sessionVars, calls>>

\* close_startup: without a session there is nothing to close.
CloseStartup(p) ==
    /\ At(p, "close startup")
    /\ IF opening[p] # Nothing /\ opening[p].built
       THEN Goto(p, "announce abort") /\ UNCHANGED opening
       ELSE Goto(p, "idle") /\ opening' = [opening EXCEPT ![p] = Nothing]
    /\ UNCHANGED <<rows, faults, job, childVars, handle, owned, ray, loaded, me, calls>>

AnnounceAbort(p) ==
    /\ At(p, "announce abort")
    /\ Observe(p, Abort(opening[p].index), 1, {Configuration}, "abort", "abort unannounced")
    /\ UNCHANGED <<job, childVars, sessionVars, me, calls>>

AbortSession(p) ==
    /\ pc[p] \in {"abort", "abort unannounced"}
    /\ \/ /\ opening' = [opening EXCEPT ![p].closed = TRUE]
          /\ StopRay(p)
          /\ Goto(p, IF At(p, "abort") THEN "publish abort" ELSE "idle")
          /\ UNCHANGED faults
       \/ /\ ~opening[p].closed /\ CloseRaises(p)
          /\ Goto(p, "idle") /\ UNCHANGED opening
    /\ UNCHANGED <<rows, job, childVars, handle, owned, loaded, me, calls>>

PublishAbort(p) ==
    /\ At(p, "publish abort")
    /\ Observe(p, Abort(opening[p].index), 2,
               {Configuration, Receipt("aborted", <<opening[p].index, p>>)}, "aborted", "idle")
    /\ opening' = [opening EXCEPT ![p] = IF pc'[p] = "aborted" THEN Nothing ELSE @]
    /\ UNCHANGED <<job, childVars, handle, owned, ray, loaded, me, calls>>

Aborted(p) ==
    /\ At(p, "aborted")
    /\ Goto(p, "idle")
    /\ UNCHANGED <<rows, faults, job, childVars, sessionVars, me, calls>>

--------------------------------------------------------------------------
(* _finish_native_cleanup and _result. *)

\* Mutant: an announced shutdown counts.
SettledByIntent ==
    {Startup(n) : n \in {m \in Index : Len(rows[Startup(m)]) = 2}} =
    {Startup(n) : n \in {m \in Index : rows[Shutdown(m)] # <<>>}}

\* The keys of the confirmed startups are those of the confirmed shutdowns.  A confirmed
\* abort is a shutdown whose key is no startup's.
Settled ==
    /\ \A n \in Index : Len(rows[Startup(n)]) = 2 <=> Len(rows[Shutdown(n)]) = 2
    /\ \A n \in Index : Len(rows[Abort(n)]) < 2

Check(p) ==
    /\ At(p, "check")
    /\ Goto(p, IF Settled THEN "report" ELSE "idle")
    /\ UNCHANGED <<rows, faults, job, childVars, sessionVars, me, calls>>

AccountReport(p) ==
    /\ At(p, "report")
    /\ IF rows[Report] # <<>>
       THEN Goto(p, "gather") /\ UNCHANGED <<rows, faults>>
       ELSE Observe(p, Report, 1, {Receipt("execution", me[p].execution)}, "gather", "idle")
    /\ UNCHANGED <<job, childVars, sessionVars, me, calls>>

\* The report's costs are those of every row there is.
Gather(p) ==
    /\ At(p, "gather")
    /\ Goto(p, "complete")
    /\ me' = [me EXCEPT ![p].seen = Account]
    /\ UNCHANGED <<rows, faults, job, childVars, sessionVars, calls>>

\* Registry.complete refuses an account that has grown meanwhile.
Complete(p) ==
    /\ At(p, "complete")
    /\ IF job.state = "running" /\ me[p].seen = Account
       THEN Call(p, job' = [state |-> "completed", execution |-> me[p].execution, bound |-> Account],
                 UNCHANGED job, "idle", "idle")
       ELSE Goto(p, "idle") /\ UNCHANGED <<job, faults>>
    /\ UNCHANGED <<rows, childVars, sessionVars, me, calls>>

\* The process dies with its session and all it retained; its episode is frozen or not.
Crash(p) ==
    /\ ~At(p, "idle") \/ handle[p] # Nothing \/ opening[p] # Nothing
    /\ faults < MaxFaults /\ faults' = faults + 1
    /\ Goto(p, "idle")
    /\ me' = [me EXCEPT ![p] = Idle]
    /\ handle' = [handle EXCEPT ![p] = Nothing]
    /\ opening' = [opening EXCEPT ![p] = Nothing]
    /\ owned' = [owned EXCEPT ![p] = {}]
    /\ StopRay(p)
    /\ loaded' = [loaded EXCEPT ![p] = Nothing]
    /\ \/ At(p, "episode") /\ trial' = [trial EXCEPT ![Turn(p)].state = "frozen"]
       \/ UNCHANGED trial
    /\ UNCHANGED <<rows, job, sampled, calls>>

Open(p) ==
    \/ ChooseStartup(p) \/ CheckKey(p) \/ AnnounceStartup(p) \/ Construct(p) \/ PublishStartup(p)

RunTrials(p) ==
    \/ AnnounceActivation(p) \/ Activate(p) \/ PublishActivation(p)
    \/ RunTrial(p) \/ Episode(p) \/ Freeze(p)

CloseSession(p) ==
    \/ AnnounceShutdown(p) \/ Shut(p) \/ PublishShutdown(p) \/ AfterClose(p)
    \/ CloseStartup(p) \/ AnnounceAbort(p) \/ AbortSession(p) \/ PublishAbort(p) \/ Aborted(p)

Next ==
    \/ \E p \in Process :
          \/ Evaluate(p) \/ Claim(p) \/ Recover(p) \/ Find(p)
          \/ Open(p) \/ RunTrials(p) \/ CloseSession(p) \/ CloseService(p)
          \/ Check(p) \/ AccountReport(p) \/ Gather(p) \/ Complete(p)
          \/ Crash(p)
    \/ \E t \in Trial : RecoverTrial(t)

Spec == Init /\ [][Next]_vars

--------------------------------------------------------------------------
(* Properties. *)

\* No trial's episode is sampled twice, however many processes recover the claim and
\* whatever was interrupted ("replays assigned runner receipts without new episodes",
\* tests/test_evaluation_service.py).
SampledOnce == \A t \in Trial : sampled[t] <= 1

\* Every trial was sampled with its own group's policy in the session, and that activation
\* is on record ("Calling this invalidates all previous arms", native.py:355).
SampledUnderItsArm ==
    \A t \in Trial : trial[t].state # "absent" =>
        /\ trial[t].arm = Plan[t]
        /\ Receipt("activated", trial[t].session) \in Newest(Activation(trial[t].session[1], Plan[t]))

\* A completed evaluation reports the one execution that was frozen, of trials that all
\* completed, and accounts the startup, the activations and the shutdown of the session the
\* execution names ("Registry completion binds startup, activation, run, shutdown and
\* report accounting", docs/interfaces-M8.md:40).
ReportBindsExecution ==
    job.state = "completed" =>
        LET n == job.execution[1] IN
        /\ rows[Execution] = <<{Receipt("execution", job.execution)}>>
        /\ \A t \in Trial : trial[t].state = "completed"
        /\ {<<Startup(n), 2>>, <<Shutdown(n), 2>>, <<Execution, 1>>, <<Report, 1>>} \subseteq job.bound
        /\ {<<Activation(n, g), 2>> : g \in Group} \subseteq job.bound

ClosedOnRecord(n, p) ==
    \/ Receipt("shutdown", <<n, p>>) \in Newest(Shutdown(n))
    \/ Receipt("aborted", <<n, p>>) \in Newest(Abort(n))

Retains(p, n) == \E held \in {handle[p], opening[p]} \ {Nothing} : held.index = n

\* A session whose shutdown is not on record is still in its process's hands, which close
\* and recover reach ("A retained failed shutdown is retried before report completion",
\* docs/interfaces-M8.md:40).
RetainedUntilClosed ==
    \A p \in Process : \A n \in owned[p] : ClosedOnRecord(n, p) \/ Retains(p, n)

\* So it is unless the process has started another session since.
RetainedUntilReplaced ==
    \A p \in Process : \A n \in owned[p] :
        \/ ClosedOnRecord(n, p) \/ Retains(p, n)
        \/ \E m \in owned[p] : m > n

SessionsAccounted == ReportBindsExecution /\ RetainedUntilReplaced
=============================================================================

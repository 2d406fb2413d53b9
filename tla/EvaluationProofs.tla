-------------------------- MODULE EvaluationProofs --------------------------
(***************************************************************************)
(* A theorem about Evaluation, for every number of processes, every plan   *)
(* of trials, every bound on calls and faults.                             *)
(***************************************************************************)
EXTENDS Evaluation, FiniteSetTheorems, SequenceTheorems, TLAPS

\* The processes' places and calls, and the trials, are what Init makes them.
Tables ==
    /\ DOMAIN pc = Process /\ DOMAIN me = Process
    /\ DOMAIN trial = Trial
    /\ \A t \in Trial : DOMAIN trial[t] = {"state", "session", "arm"}

\* A trial that has not been dispatched was never sampled, and no episode of it runs.
Undispatched ==
    /\ sampled \in [Trial -> Nat]
    /\ \A t \in Trial : sampled[t] <= 1
    /\ \A t \in Trial : trial[t].state = "absent" => sampled[t] = 0
    /\ \A p \in Process : pc[p] = "episode" /\ Turn(p) \in Trial => trial[Turn(p)].state # "absent"

SampleInv == Tables /\ Undispatched

-----------------------------------------------------------------------------
(* How a call moves.                                                       *)

\* p goes on, and not into an episode; its call may change.
Moves(p) ==
    /\ \E label : label # "episode" /\ pc' = [pc EXCEPT ![p] = label]
    /\ DOMAIN me' = Process /\ \A q \in Process \ {p} : me'[q] = me[q]

\* A dispatched trial stays dispatched, and nothing is sampled.
Stays ==
    /\ DOMAIN trial' = Trial
    /\ \A t \in Trial : DOMAIN trial'[t] = {"state", "session", "arm"}
    /\ \A t \in Trial : trial[t].state # "absent" <=> trial'[t].state # "absent"
    /\ UNCHANGED sampled

LEMMA MoveKeeps ==
    ASSUME SampleInv, NEW p \in Process, Moves(p), Stays
    PROVE  SampleInv'
<1>1. PICK label : label # "episode" /\ pc' = [pc EXCEPT ![p] = label]
  BY DEF Moves
<1>2. DOMAIN pc' = Process /\ pc'[p] = label /\ \A q \in Process \ {p} : pc'[q] = pc[q]
  BY <1>1 DEF SampleInv, Tables
<1>3. Tables'
  BY <1>2 DEF Moves, Stays, Tables, Trial
<1>4. Undispatched'
  BY <1>1, <1>2 DEF Moves, SampleInv, Undispatched, Stays, Turn, Trial
<1> QED BY <1>3, <1>4 DEF SampleInv

\* Nothing happens to the trials.
LEMMA SameStays ==
    ASSUME SampleInv, UNCHANGED childVars
    PROVE  Stays
  BY DEF SampleInv, Tables, Stays, childVars

LEMMA QuietKeeps ==
    ASSUME SampleInv, NEW p \in Process, Moves(p), UNCHANGED childVars
    PROVE  SampleInv'
  BY MoveKeeps, SameStays

\* Wherever a row's revision is recorded or refused, p goes on at one of two places.
LEMMA ObserveMoves ==
    ASSUME NEW p, NEW name, NEW n, NEW receipts, NEW ok, NEW bad,
           ok # "episode", bad # "episode", Observe(p, name, n, receipts, ok, bad)
    PROVE  \E label : label # "episode" /\ pc' = [pc EXCEPT ![p] = label]
  BY DEF Observe, Call, Goto

\* The call of p is what it was, or its record changes.
LEMMA SameCall ==
    ASSUME SampleInv, NEW p \in Process, UNCHANGED me
    PROVE  DOMAIN me' = Process /\ \A q \in Process \ {p} : me'[q] = me[q]
  BY DEF SampleInv, Tables

LEMMA ChangedCall ==
    ASSUME SampleInv, NEW p \in Process, NEW new, me' = [me EXCEPT ![p] = new]
    PROVE  DOMAIN me' = Process /\ \A q \in Process \ {p} : me'[q] = me[q]
  BY DEF SampleInv, Tables

\* The two ways most steps go.
LEMMA GotoKeeps ==
    ASSUME SampleInv, NEW p \in Process, NEW label, label # "episode", Goto(p, label),
           \/ UNCHANGED me
           \/ \E new : me' = [me EXCEPT ![p] = new],
           UNCHANGED childVars
    PROVE  SampleInv'
  BY SameCall, ChangedCall, QuietKeeps DEF Moves, Goto

LEMMA ObserveKeeps ==
    ASSUME SampleInv, NEW p \in Process, NEW name, NEW n, NEW receipts, NEW ok, NEW bad,
           ok # "episode", bad # "episode", Observe(p, name, n, receipts, ok, bad),
           \/ UNCHANGED me
           \/ \E new : me' = [me EXCEPT ![p] = new],
           UNCHANGED childVars
    PROVE  SampleInv'
  BY SameCall, ChangedCall, ObserveMoves, QuietKeeps DEF Moves

-----------------------------------------------------------------------------
(* The steps.                                                              *)

\* evaluate, claim, recover, and the look for a frozen execution.
LEMMA EnterSteps ==
    ASSUME SampleInv, NEW p \in Process, Evaluate(p) \/ Claim(p) \/ Recover(p) \/ Find(p)
    PROVE  SampleInv'
<1>1. CASE Evaluate(p)
  <2>1. PICK label \in {"claim", "idle"} : Goto(p, label)
    BY <1>1 DEF Evaluate, Call
  <2> QED BY <1>1, <2>1, GotoKeeps DEF Evaluate
<1>2. CASE Claim(p)
  <2>1. PICK label \in {"find", "idle"} : Goto(p, label)
    BY <1>2 DEF Claim, Call
  <2> QED BY <1>2, <2>1, GotoKeeps DEF Claim
<1>3. CASE Recover(p)
  BY <1>3, GotoKeeps DEF Recover
<1>4. CASE Find(p)
  <2>1. CASE Goto(p, "index") /\ UNCHANGED me
    BY <1>4, <2>1, GotoKeeps DEF Find
  <2>2. ASSUME NEW r, Close(p), me' = [me EXCEPT ![p].then = "check", ![p].execution = r[2]]
        PROVE  SampleInv'
    <3>1. PICK label \in {"shutdown done", "shut", "close"} : Goto(p, label)
      BY <2>2 DEF Close
    <3>2. \E new : me' = [me EXCEPT ![p] = new]
      BY <2>2
    <3> QED BY <1>4, <3>1, <3>2, GotoKeeps DEF Find
  <2> QED BY <1>4, <2>1, <2>2 DEF Find
<1> QED BY <1>1, <1>2, <1>3, <1>4

\* Starting the session.
LEMMA OpenSteps ==
    ASSUME SampleInv, NEW p \in Process, Open(p)
    PROVE  SampleInv'
<1>1. CASE ChooseStartup(p)
  <2>1. PICK label \in {"idle", "create"} : Goto(p, label)
    BY <1>1 DEF ChooseStartup
  <2> QED BY <1>1, <2>1, GotoKeeps DEF ChooseStartup
<1>2. CASE CheckKey(p)
  <2>1. PICK label \in {"idle", "announce startup"} : Goto(p, label)
    BY <1>2 DEF CheckKey
  <2> QED BY <1>2, <2>1, GotoKeeps DEF CheckKey
<1>3. CASE AnnounceStartup(p)
  BY <1>3, ObserveKeeps DEF AnnounceStartup
<1>4. CASE Construct(p)
  <2>1. PICK label \in {"idle", "publish startup"} : Goto(p, label)
    BY <1>4 DEF Construct
  <2> QED BY <1>4, <2>1, GotoKeeps DEF Construct
<1>5. CASE PublishStartup(p)
  BY <1>5, ObserveKeeps DEF PublishStartup
<1> QED BY <1>1, <1>2, <1>3, <1>4, <1>5 DEF Open

\* A trial's turn: only one that was never dispatched is sampled, and then it is dispatched.
LEMMA TrialSteps ==
    ASSUME SampleInv, NEW p \in Process, RunTrial(p) \/ Episode(p)
    PROVE  SampleInv'
<1> DEFINE t == Turn(p)
<1>1. CASE Goto(p, "close") /\ UNCHANGED <<childVars, me>>
  BY <1>1, GotoKeeps DEF childVars
<1>2. ASSUME Proceed(p) PROVE Moves(p)
  <2>1. Before(Turn(p) + 1) # "episode"
    BY DEF Before
  <2>2. \E new : me' = [me EXCEPT ![p] = new]
    BY <1>2 DEF Proceed
  <2>3. DOMAIN me' = Process /\ \A q \in Process \ {p} : me'[q] = me[q]
    BY <2>2, ChangedCall
  <2> QED BY <1>2, <2>1, <2>3 DEF Proceed, Goto, Moves
<1>3. CASE Proceed(p) /\ UNCHANGED childVars
  BY <1>2, <1>3, QuietKeeps
<1>4. CASE /\ Assignable(t)
           /\ trial' = [trial EXCEPT ![t] =
                           [state |-> "running", session |-> Session(p), arm |-> loaded[p]]]
           /\ sampled' = [sampled EXCEPT ![t] = @ + 1]
           /\ Goto(p, "episode") /\ UNCHANGED me
  <2>1. Tables'
    BY <1>4 DEF SampleInv, Tables, Goto, Trial
  <2>2. t \in Trial => sampled[t] = 0
    BY <1>4 DEF SampleInv, Undispatched, Assignable
  <2>3. \A u \in Trial : /\ sampled'[u] = IF u = t THEN 1 ELSE sampled[u]
                         /\ trial'[u].state = IF u = t THEN "running" ELSE trial[u].state
    BY <1>4, <2>2 DEF SampleInv, Tables, Undispatched
  <2>4. sampled' \in [Trial -> Nat]
    <3>1. \A u \in Trial : sampled'[u] \in Nat
      BY <2>3 DEF SampleInv, Undispatched
    <3>2. sampled' = [u \in Trial |-> sampled'[u]]
      BY <1>4 DEF SampleInv, Undispatched
    <3> QED BY <3>1, <3>2
  <2>5. \A q \in Process : pc'[q] = "episode" => pc[q] = "episode" \/ q = p
    BY <1>4 DEF SampleInv, Tables, Goto
  <2>6. Undispatched'
    BY <1>4, <2>3, <2>4, <2>5 DEF SampleInv, Undispatched, Turn, Trial
  <2> QED BY <2>1, <2>6 DEF SampleInv
<1>5. CASE Episode(p)
  <2>1. PICK s \in {"running", "frozen", "completed"} : trial' = [trial EXCEPT ![t].state = s]
    BY <1>5 DEF Episode
  <2>2. Moves(p)
    BY <1>2, <1>5, SameCall DEF Moves, Goto, Episode
  <2>3. t \in Trial => trial[t].state # "absent"
    BY <1>5 DEF SampleInv, Undispatched, Episode, At
  <2>4. Stays
    BY <1>5, <2>1, <2>3 DEF SampleInv, Tables, Stays, Episode
  <2> QED BY <2>2, <2>4, MoveKeeps
<1>6. CASE RunTrial(p)
  BY <1>1, <1>3, <1>4, <1>6 DEF RunTrial
<1> QED BY <1>5, <1>6

\* The activation before a group, and the execution after the last trial.
LEMMA PhaseSteps ==
    ASSUME SampleInv, NEW p \in Process,
           AnnounceActivation(p) \/ Activate(p) \/ PublishActivation(p) \/ Freeze(p)
    PROVE  SampleInv'
<1>1. CASE AnnounceActivation(p)
  BY <1>1, ObserveKeeps DEF AnnounceActivation
<1>2. CASE Activate(p)
  <2>1. PICK label \in {"publish activation", "close"} : Goto(p, label)
    BY <1>2 DEF Activate
  <2> QED BY <1>2, <2>1, GotoKeeps DEF Activate
<1>3. CASE PublishActivation(p)
  BY <1>3, ObserveKeeps DEF PublishActivation
<1>4. CASE Freeze(p)
  BY <1>4, ObserveKeeps DEF Freeze
<1> QED BY <1>1, <1>2, <1>3, <1>4

\* Closing a session, or a startup that was not published.
LEMMA CloseSteps ==
    ASSUME SampleInv, NEW p \in Process, CloseSession(p) \/ CloseService(p)
    PROVE  SampleInv'
<1>1. CASE AnnounceShutdown(p)
  BY <1>1, ObserveKeeps DEF AnnounceShutdown
<1>2. CASE Shut(p)
  <2>1. PICK label \in {"publish shutdown", "shutdown failed"} : Goto(p, label)
    BY <1>2 DEF Shut
  <2> QED BY <1>2, <2>1, GotoKeeps DEF Shut
<1>3. CASE PublishShutdown(p)
  BY <1>3, ObserveKeeps DEF PublishShutdown
<1>4. CASE AfterClose(p)
  <2>1. PICK label \in {"close startup", "check", "idle"} : Goto(p, label)
    BY <1>4 DEF AfterClose
  <2> QED BY <1>4, <2>1, GotoKeeps DEF AfterClose
<1>5. CASE CloseStartup(p)
  <2>1. PICK label \in {"announce abort", "idle"} : Goto(p, label)
    BY <1>5 DEF CloseStartup
  <2> QED BY <1>5, <2>1, GotoKeeps DEF CloseStartup
<1>6. CASE AnnounceAbort(p)
  BY <1>6, ObserveKeeps DEF AnnounceAbort
<1>7. CASE AbortSession(p)
  <2>1. PICK label \in {"publish abort", "idle"} : Goto(p, label)
    BY <1>7 DEF AbortSession
  <2> QED BY <1>7, <2>1, GotoKeeps DEF AbortSession
<1>8. CASE PublishAbort(p)
  BY <1>8, ObserveKeeps DEF PublishAbort
<1>9. CASE Aborted(p)
  BY <1>9, GotoKeeps DEF Aborted
<1>10. CASE CloseService(p)
  <2>1. PICK label \in {"shutdown done", "shut", "close"} : Goto(p, label)
    BY <1>10 DEF CloseService, Close
  <2>2. \E new : me' = [me EXCEPT ![p] = new]
    BY <1>10 DEF CloseService
  <2> QED BY <1>10, <2>1, <2>2, GotoKeeps DEF CloseService
<1> QED BY <1>1, <1>2, <1>3, <1>4, <1>5, <1>6, <1>7, <1>8, <1>9, <1>10 DEF CloseSession

\* The report and the completion.
LEMMA ResultSteps ==
    ASSUME SampleInv, NEW p \in Process, Check(p) \/ AccountReport(p) \/ Gather(p) \/ Complete(p)
    PROVE  SampleInv'
<1>1. CASE Check(p)
  <2>1. PICK label \in {"report", "idle"} : Goto(p, label)
    BY <1>1 DEF Check
  <2> QED BY <1>1, <2>1, GotoKeeps DEF Check
<1>2. CASE AccountReport(p)
  BY <1>2, GotoKeeps, ObserveKeeps DEF AccountReport
<1>3. CASE Gather(p)
  BY <1>3, GotoKeeps DEF Gather
<1>4. CASE Complete(p)
  BY <1>4, GotoKeeps DEF Complete, Call
<1> QED BY <1>1, <1>2, <1>3, <1>4

\* A process dies, perhaps with an episode that was frozen.
LEMMA CrashStep ==
    ASSUME SampleInv, NEW p \in Process, Crash(p)
    PROVE  SampleInv'
<1>1. Moves(p)
  BY ChangedCall DEF Crash, Moves, Goto
<1>2. CASE At(p, "episode") /\ trial' = [trial EXCEPT ![Turn(p)].state = "frozen"]
  BY <1>2, <1>1, MoveKeeps DEF SampleInv, Undispatched, At, Tables, Stays, Crash
<1>3. CASE UNCHANGED trial
  BY <1>1, <1>3, QuietKeeps DEF Crash, childVars
<1> QED BY <1>2, <1>3 DEF Crash

\* A frozen child is completed by its own recovery.
LEMMA RecoverStep ==
    ASSUME SampleInv, NEW t \in Trial, RecoverTrial(t)
    PROVE  SampleInv'
  BY DEF SampleInv, Tables, RecoverTrial, ledgerVars, Trial, Undispatched, Turn

-----------------------------------------------------------------------------

LEMMA SampleInitial == Init => SampleInv
  BY DEF Init, SampleInv, Tables, Undispatched, Idle, Trial

LEMMA SampleStep == SampleInv /\ [Next]_vars => SampleInv'
<1> SUFFICES ASSUME SampleInv, [Next]_vars PROVE SampleInv'
  OBVIOUS
<1>1. CASE UNCHANGED vars
  BY <1>1 DEF SampleInv, Tables, Undispatched, Turn, Trial, vars, ledgerVars, childVars
<1>2. ASSUME NEW p \in Process, RunTrials(p) PROVE SampleInv'
  BY <1>2, TrialSteps, PhaseSteps DEF RunTrials
<1> QED
  BY <1>1, <1>2, EnterSteps, OpenSteps, CloseSteps, ResultSteps, CrashStep, RecoverStep DEF Next

\* No trial is sampled twice, whatever number of processes evaluate and recover the claim
\* and wherever they die: a child job is dispatched when it is sampled, and one that was
\* dispatched is replayed or refused (agents/runner.py:223-228).
THEOREM SampledAtMostOnce == Spec => []SampledOnce
<1>1. SampleInv => SampledOnce
  BY DEF SampleInv, Undispatched, SampledOnce
<1> QED BY <1>1, SampleInitial, SampleStep, PTL DEF Spec

-----------------------------------------------------------------------------
(* The session of a call, its trials, and what the report names.           *)

CallFields == {"next", "then", "execution", "seen"}

IsRow(s) == \E S : s \in Seq(S)

\* A row has an intent and an outcome; the execution and the report are one revision.
Ledger ==
    /\ DOMAIN rows = Rows
    /\ \A r \in Rows : IsRow(rows[r]) /\ Len(rows[r]) <= 2
    /\ Len(rows[Execution]) <= 1 /\ Len(rows[Report]) <= 1

\* Every call announces at most one startup, and startups are announced in order.
Arriving == {"claim", "find", "index", "create", "announce startup"}
Coming == {p \in Process : pc[p] \in Arriving}

Counted ==
    /\ calls \in 0..MaxCalls
    /\ IsFiniteSet(Coming)
    /\ Startups = 1..Cardinality(Startups)
    /\ Cardinality(Startups) + Cardinality(Coming) <= calls

\* The activation of group g in p's session n is on record.
Activated(n, p, g) ==
    /\ Len(rows[Activation(n, g)]) = 2
    /\ Receipt("activated", <<n, p>>) \in Newest(Activation(n, g))

Holding == {"announce activation", "activate", "publish activation", "run", "episode", "freeze",
            "close", "frozen", "shut", "shut unannounced", "publish shutdown"}
Opening == {"create", "announce startup", "construct", "publish startup"}
Aborting == {"announce abort", "abort", "abort unannounced", "publish abort"}
Trying == {"announce activation", "activate", "publish activation", "run", "episode"}
Settling == {"check", "report", "gather", "complete"}

\* What process p retains: h and o are its handle and its opening, w the sessions of its life.
Retaining(p, place, h, o, w) ==
    /\ h # Nothing => h \in Handles /\ h.index \in w /\ Len(rows[Startup(h.index)]) = 2
    /\ o # Nothing => /\ o \in Openings
                      /\ \A n \in Index : n < o.index => n \in Startups
                      /\ o.built <=> o.index \in w
    /\ h # Nothing /\ o # Nothing => h.index < o.index
    /\ w \subseteq Startups
    /\ place \in Holding => h # Nothing
    /\ place \in Opening \cup Aborting => o # Nothing
    /\ place = "construct" => o.index \in Startups
    /\ place \in Aborting \cup {"publish startup"} => o.built
    /\ \A n \in w : \/ ClosedOnRecord(n, p)
                    \/ h # Nothing /\ h.index = n
                    \/ o # Nothing /\ o.index = n
                    \/ \E m \in w : m > n

\* Where the call m of p is in the plan, in session h with group l loaded.
Trials(p, place, h, l, m) ==
    /\ DOMAIN m = CallFields /\ m.next \in Nat
    /\ place \in Arriving \cup {"construct", "publish startup"} => m.next = 1
    /\ place \in Trying \cup {"freeze"} => \A u \in Trial : u < m.next =>
          trial[u].state = "completed" /\ Activated(h.index, p, Plan[u])
    /\ place \in Trying => m.next \in Trial
    /\ place = "freeze" => \A u \in Trial : u < m.next
    /\ place \in {"publish activation", "run", "episode"} => l = Plan[m.next]
    /\ place \in {"run", "episode"} => Activated(h.index, p, Plan[m.next])
    /\ place = "episode" => trial[m.next].state = "running"

\* What the call m will report.
Reporting(place, m) ==
    /\ m.then = "check" => /\ m.execution \in Index \X Process
                           /\ rows[Execution] = <<{Receipt("execution", m.execution)}>>
    /\ place \in Settling => m.then = "check"
    /\ place \in Settling \ {"check"} => Len(rows[Shutdown(m.execution[1])]) = 2
    /\ place \in {"gather", "complete"} => Len(rows[Report]) = 1

Local(p, place, h, o, w, l, m) ==
    Retaining(p, place, h, o, w) /\ Trials(p, place, h, l, m) /\ Reporting(place, m)

\* The frozen execution is of a session that started and ran every trial there is.
Frozen ==
    rows[Execution] # <<>> =>
        /\ \A t \in Trial : trial[t].state = "completed"
        /\ \E n \in Index, q \in Process :
              /\ rows[Execution] = <<{Receipt("execution", <<n, q>>)}>>
              /\ Len(rows[Startup(n)]) = 2
              /\ \A g \in Group : Len(rows[Activation(n, g)]) = 2

\* A sampled trial has its own group's activation, and an episode is one process's.
Sampling ==
    /\ \A t \in Trial : trial[t].state # "absent" =>
          /\ trial[t].arm = Plan[t]
          /\ \E n \in Index : \E p \in Process :
                trial[t].session = <<n, p>> /\ Activated(n, p, Plan[t])
    /\ \A p, q \in Process : pc[p] = "episode" /\ pc[q] = "episode" /\ Turn(p) = Turn(q) => p = q

SessionTables ==
    /\ DOMAIN handle = Process /\ DOMAIN opening = Process /\ DOMAIN owned = Process
    /\ DOMAIN loaded = Process /\ DOMAIN job = {"state", "execution", "bound"}

SessionInv ==
    /\ Ledger /\ Counted /\ SessionTables /\ Frozen /\ Sampling /\ ReportBindsExecution
    /\ \A p \in Process : Local(p, pc[p], handle[p], opening[p], owned[p], loaded[p], me[p])

-----------------------------------------------------------------------------
(* How the ledger grows.                                                   *)

Grown ==
    /\ \A r \in Rows : /\ Len(rows[r]) <= Len(rows'[r])
                       /\ rows[r] # <<>> => rows'[r] # <<>>
                       /\ Newest(r) \subseteq Newest(r)'
    /\ rows[Execution] # <<>> => rows'[Execution] = rows[Execution]

\* The names of the rows tell them apart.
LEMMA RowNames ==
    /\ \A n \in Index : {Startup(n), Shutdown(n), Abort(n)} \subseteq Rows
    /\ \A n \in Index, g \in Group : Activation(n, g) \in Rows
    /\ {Execution, Report} \subseteq Rows
  BY DEF Rows

LEMMA DistinctNames ==
    /\ Execution # Report
    /\ \A n : {Startup(n), Shutdown(n), Abort(n)} \cap {Execution, Report} = {}
    /\ \A n, m : Startup(n) # Shutdown(m) /\ Startup(n) # Abort(m) /\ Shutdown(n) # Abort(m)
    /\ \A n, m, g : Activation(n, g) \notin {Execution, Report, Startup(m), Shutdown(m), Abort(m)}
    /\ \A n, m : Startup(n) = Startup(m) => n = m
  BY DEF Startup, Shutdown, Abort, Activation, Execution, Report

LEMMA RowGrows ==
    ASSUME NEW s, IsRow(s), NEW x, NEW n \in {1, 2}, Extends(s, n, x)
    PROVE  LET t == Append(s, x) IN
           /\ IsRow(t) /\ Len(t) = n /\ t # <<>> /\ t[n] = x
           /\ n = 1 => s = <<>> /\ t = <<x>>
           /\ (IF s = <<>> THEN {} ELSE s[Len(s)]) \subseteq (IF t = <<>> THEN {} ELSE t[Len(t)])
<1>1. PICK S : s \in Seq(S)
  BY DEF IsRow
<1> DEFINE T == S \cup {x}
<1>2. S \subseteq T /\ x \in T
  OBVIOUS
<1>3. s \in Seq(T)
  <2> HIDE DEF T
  <2>1. QED
    BY <1>1, <1>2, SeqMonotonic
<1>4. Append(s, x) \in Seq(T)
  BY <1>2, <1>3, AppendProperties
<1>5. Len(s) = n - 1 /\ Len(Append(s, x)) = n /\ Append(s, x)[n] = x /\ Append(s, x) # <<>>
  BY <1>1, <1>3, AppendProperties DEF Extends
<1>6. s # <<>> => s[Len(s)] \subseteq x
  BY <1>1, <1>5, EmptySeq DEF Extends
<1>7. n = 1 => s = <<>> /\ Append(s, x) = <<x>>
  BY <1>1, <1>5, EmptySeq
<1>8. QED
  BY <1>4, <1>5, <1>6, <1>7 DEF IsRow

LEMMA SmallNumbers ==
    /\ \A k \in Nat : k <= 2 /\ 2 <= k => k = 2
    /\ \A k \in Nat : k <= 1 /\ 1 <= k => k = 1
    /\ \A k \in {1, 2} : k <= 2
  OBVIOUS

LEMMA LedgerStays ==
    ASSUME Ledger, UNCHANGED rows
    PROVE  Ledger' /\ Grown
  BY DEF Ledger, IsRow, Grown, Newest

\* What Observe does: at ok the revision is on record.
LEMMA ObserveEffect ==
    ASSUME Ledger, DOMAIN pc = Process, NEW p \in Process, NEW name \in Rows, NEW n \in {1, 2},
           name \in {Execution, Report} => n = 1, NEW receipts, NEW ok, NEW bad, ok # bad,
           Observe(p, name, n, receipts, ok, bad)
    PROVE  /\ Ledger' /\ Grown
           /\ \A r \in Rows : r # name => rows'[r] = rows[r]
           /\ \/ rows'[name] = rows[name]
              \/ (n = 1 => rows[name] = <<>> /\ rows'[name] = <<receipts>>) /\ rows'[name] # <<>>
           /\ DOMAIN pc' = Process /\ pc'[p] \in {ok, bad} /\ \A q \in Process \ {p} : pc'[q] = pc[q]
           /\ pc'[p] = ok => n <= Len(rows'[name]) /\ rows'[name][n] = receipts
<1>1. DOMAIN pc' = Process /\ pc'[p] \in {ok, bad} /\ \A q \in Process \ {p} : pc'[q] = pc[q]
  BY DEF Observe, Call, Goto
<1>2. \A r \in Rows : Len(rows[r]) \in Nat
  BY DEF Ledger, IsRow
<1>3. CASE UNCHANGED rows
  BY <1>3, <1>1, LedgerStays, RowGrows DEF Recorded, Observe, Call, Goto, Ledger
<1>4. CASE rows' = [rows EXCEPT ![name] = Append(@, receipts)] /\ Extends(rows[name], n, receipts)
  <2>1. DOMAIN rows' = Rows /\ rows'[name] = Append(rows[name], receipts)
        /\ \A r \in Rows : r # name => rows'[r] = rows[r]
    BY <1>4 DEF Ledger
  <2>2. /\ IsRow(rows'[name]) /\ (n = 1 => rows[name] = <<>> /\ rows'[name] = <<receipts>>)
        /\ Len(rows'[name]) = n
        /\ rows'[name] # <<>> /\ rows'[name][n] = receipts
        /\ Newest(name) \subseteq Newest(name)'
    BY <1>4, <2>1, RowGrows DEF Ledger, Newest
  <2>3. Ledger'
    <3>1. \A r \in Rows : IsRow(rows'[r]) /\ Len(rows'[r]) <= 2
      BY <2>1, <2>2, SmallNumbers DEF Ledger
    <3>2. \A r \in {Execution, Report} : Len(rows'[r]) <= 1
      BY <2>1, <2>2, RowNames DEF Ledger
    <3>3. QED
      BY <2>1, <3>1, <3>2 DEF Ledger
  <2>4. name = Execution => rows[name] = <<>>
    <3>1. PICK S : rows[name] \in Seq(S)
      BY DEF Ledger, IsRow
    <3>2. QED
      BY <2>2, <3>1, EmptySeq
  <2>5. Grown
    BY <1>2, <2>1, <2>2, <2>4, RowNames DEF Newest, Grown
  <2>6. QED
    BY <1>1, <2>1, <2>2, <2>3, <2>5
<1>5. QED
  BY <1>3, <1>4 DEF Observe, Call

-----------------------------------------------------------------------------
(* What one process does leaves the others where they are.                 *)

\* Only p moves.
Only(p) ==
    /\ DOMAIN pc' = Process /\ DOMAIN me' = Process /\ SessionTables'
    /\ \A q \in Process \ {p} :
          /\ pc'[q] = pc[q] /\ me'[q] = me[q] /\ handle'[q] = handle[q]
          /\ opening'[q] = opening[q] /\ owned'[q] = owned[q] /\ loaded'[q] = loaded[q]

\* A completed trial stays completed, and the others' episodes run on.
TrialsStand(p) ==
    /\ \A t \in Trial : trial[t].state = "completed" => trial'[t].state = "completed"
    /\ \A q \in Process \ {p} :
          pc[q] = "episode" /\ trial[Turn(q)].state = "running" => trial'[Turn(q)].state = "running"

LEMMA FullStays ==
    ASSUME Ledger, Grown, Ledger'
    PROVE  /\ \A r \in Rows : Len(rows[r]) = 2 => Len(rows'[r]) = 2
           /\ Len(rows[Report]) = 1 => Len(rows'[Report]) = 1
           /\ Startups \subseteq Startups'
           /\ \A n \in Index, g \in Group : \A p : Activated(n, p, g) => Activated(n, p, g)'
           /\ \A n \in Index : \A p : ClosedOnRecord(n, p) => ClosedOnRecord(n, p)'
<1>1. \A r \in Rows : Len(rows[r]) \in Nat /\ Len(rows'[r]) \in Nat
  BY DEF Ledger, IsRow
<1>2. \A r \in Rows : Len(rows[r]) = 2 => Len(rows'[r]) = 2
  BY <1>1, SmallNumbers DEF Grown, Ledger
<1>3. Len(rows[Report]) = 1 => Len(rows'[Report]) = 1
  BY <1>1, RowNames, SmallNumbers DEF Grown, Ledger
<1>4. Startups \subseteq Startups'
  BY RowNames DEF Startups, Grown
<1>5. \A n \in Index, g \in Group : \A p : Activated(n, p, g) => Activated(n, p, g)'
  BY <1>2, RowNames DEF Activated, Grown
<1>6. \A n \in Index : \A p : ClosedOnRecord(n, p) => ClosedOnRecord(n, p)'
  BY RowNames DEF ClosedOnRecord, Grown
<1>7. QED
  BY <1>2, <1>3, <1>4, <1>5, <1>6

LEMMA LocalStays ==
    ASSUME Ledger, Grown, Ledger', NEW p, NEW place, NEW h, NEW o, NEW w, NEW l, NEW m,
           Local(p, place, h, o, w, l, m),
           \A t \in Trial : trial[t].state = "completed" => trial'[t].state = "completed",
           place = "episode" => trial'[m.next].state = "running"
    PROVE  Local(p, place, h, o, w, l, m)'
<1>0. \A t \in Trial : Plan[t] \in Group
  BY DEF Group
<1>1. Retaining(p, place, h, o, w)'
  BY RowNames, FullStays DEF Local, Retaining, Handles, Startups
<1>2. Trials(p, place, h, l, m)'
  BY <1>0, FullStays DEF Local, Retaining, Handles, Trials, Holding, Trying
<1>3. Reporting(place, m)'
  <2>1. m.then = "check" => Shutdown(m.execution[1]) \in Rows
    BY RowNames DEF Local, Reporting
  <2>2. m.then = "check" => rows'[Execution] = rows[Execution]
    BY DEF Local, Reporting, Grown
  <2>3. QED
    BY <2>1, <2>2, FullStays DEF Local, Reporting
<1>4. QED
  BY <1>1, <1>2, <1>3 DEF Local

\* A step of p keeps the invariant if it keeps each part.
LEMMA SessionKeeps ==
    ASSUME SessionInv, NEW p \in Process, Only(p), Grown, Ledger', TrialsStand(p),
           Counted', Frozen', Sampling', ReportBindsExecution',
           NEW place, NEW h, NEW o, NEW w, NEW l, NEW m,
           place = pc'[p], h = handle'[p], o = opening'[p], w = owned'[p], l = loaded'[p], m = me'[p],
           Local(p, place, h, o, w, l, m)'
    PROVE  SessionInv'
<1>1. ASSUME NEW q \in Process
      PROVE  Local(q, pc[q], handle[q], opening[q], owned[q], loaded[q], me[q])'
  <2>1. CASE q = p
    BY <2>1 DEF Local
  <2>2. CASE q # p
    <3>1. PICK place2, h2, o2, w2, l2, m2 :
             /\ place2 = pc[q] /\ h2 = handle[q] /\ o2 = opening[q]
             /\ w2 = owned[q] /\ l2 = loaded[q] /\ m2 = me[q]
      OBVIOUS
    <3>2. Local(q, place2, h2, o2, w2, l2, m2)
      BY <3>1 DEF SessionInv
    <3>3. place2 = "episode" => trial'[m2.next].state = "running"
      BY <2>2, <3>1, <3>2 DEF TrialsStand, Turn, Local, Trials
    <3>4. Local(q, place2, h2, o2, w2, l2, m2)'
      BY <3>2, <3>3, LocalStays DEF SessionInv, TrialsStand
    <3>5. /\ place2 = pc'[q] /\ h2 = handle'[q] /\ o2 = opening'[q]
          /\ w2 = owned'[q] /\ l2 = loaded'[q] /\ m2 = me'[q]
      BY <2>2, <3>1 DEF Only
    <3>6. QED
      BY <3>4, <3>5 DEF Local
  <2>3. QED
    BY <2>1, <2>2
<1>2. QED
  BY <1>1 DEF SessionInv, Only

\* The trials keep their sessions, and p starts no episode.
LEMMA SamplingStays ==
    ASSUME SessionInv, NEW p \in Process, Only(p), Grown, Ledger', pc'[p] # "episode",
           \A t \in Trial : /\ trial'[t].session = trial[t].session /\ trial'[t].arm = trial[t].arm
                            /\ trial[t].state = "absent" => trial'[t].state = "absent"
    PROVE  Sampling'
<1>1. ASSUME NEW t \in Trial, trial'[t].state # "absent"
      PROVE  /\ trial'[t].arm = Plan[t]
             /\ \E n \in Index : \E q \in Process :
                   trial'[t].session = <<n, q>> /\ Activated(n, q, Plan[t])'
  <2>1. Plan[t] \in Group
    BY DEF Group
  <2>2. PICK n \in Index, q \in Process : trial[t].session = <<n, q>> /\ Activated(n, q, Plan[t])
    BY <1>1 DEF SessionInv, Sampling
  <2>3. Activated(n, q, Plan[t])'
    BY <2>1, <2>2, FullStays DEF SessionInv
  <2>4. QED
    BY <1>1, <2>2, <2>3 DEF SessionInv, Sampling
<1>2. \A q, r \in Process : pc'[q] = "episode" /\ pc'[r] = "episode" /\ Turn(q)' = Turn(r)' => q = r
  BY DEF Only, SessionInv, Sampling, Turn
<1>3. QED
  BY <1>1, <1>2 DEF Sampling

LEMMA FrozenStays ==
    ASSUME SessionInv, Grown, Ledger', rows'[Execution] = rows[Execution],
           \A t \in Trial : trial[t].state = "completed" => trial'[t].state = "completed"
    PROVE  Frozen'
<1> SUFFICES ASSUME rows[Execution] # <<>>
             PROVE  /\ \A t \in Trial : trial'[t].state = "completed"
                    /\ \E n \in Index, q \in Process :
                          /\ rows'[Execution] = <<{Receipt("execution", <<n, q>>)}>>
                          /\ Len(rows'[Startup(n)]) = 2
                          /\ \A g \in Group : Len(rows'[Activation(n, g)]) = 2
  BY DEF Frozen
<1>1. PICK n \in Index, q \in Process :
         /\ rows[Execution] = <<{Receipt("execution", <<n, q>>)}>>
         /\ Len(rows[Startup(n)]) = 2
         /\ \A g \in Group : Len(rows[Activation(n, g)]) = 2
  BY DEF SessionInv, Frozen
<1>2. Len(rows'[Startup(n)]) = 2 /\ \A g \in Group : Len(rows'[Activation(n, g)]) = 2
  BY <1>1, FullStays, RowNames DEF SessionInv
<1>3. QED
  BY <1>1, <1>2 DEF SessionInv, Frozen

LEMMA ReportStays ==
    ASSUME SessionInv, Grown, job' = job \/ job'.state # "completed",
           \A t \in Trial : trial[t].state = "completed" => trial'[t].state = "completed"
    PROVE  ReportBindsExecution'
  BY DEF SessionInv, ReportBindsExecution, Grown

\* One startup for each call at most.
LEMMA StartupsFinite == IsFiniteSet(Startups)
<1>1. Startups \subseteq 1..MaxCalls
  BY DEF Startups, Index
<1>2. IsFiniteSet(1..MaxCalls)
  BY PlanAssumption, FS_Interval
<1> QED BY <1>1, <1>2, FS_Subset

LEMMA CountedStays ==
    ASSUME SessionInv, NEW p \in Process, DOMAIN pc' = Process,
           \A q \in Process \ {p} : pc'[q] = pc[q],
           pc'[p] \in Arriving => pc[p] \in Arriving,
           Startups' = Startups, UNCHANGED calls
    PROVE  Counted'
<1>1. Coming' \subseteq Coming /\ IsFiniteSet(Coming)
  BY DEF Coming, SessionInv, Counted
<1>2. IsFiniteSet(Coming') /\ Cardinality(Coming') <= Cardinality(Coming)
  BY <1>1, FS_Subset
<1>3. IsFiniteSet(Startups)
  BY StartupsFinite
<1>4. Cardinality(Coming) \in Nat /\ Cardinality(Coming') \in Nat /\ Cardinality(Startups) \in Nat
  BY <1>1, <1>2, <1>3, FS_CardinalityType
<1>5. /\ Cardinality(Startups) + Cardinality(Coming) <= calls /\ calls \in 0..MaxCalls
      /\ Startups = 1..Cardinality(Startups)
  BY DEF SessionInv, Counted
<1>6. \A a, b, c, d \in Nat : a + b <= c /\ d <= b => a + d <= c
  OBVIOUS
<1>7. Cardinality(Startups) + Cardinality(Coming') <= calls
  BY <1>5, <1>2, <1>4, <1>6
<1>8. QED
  BY <1>2, <1>5, <1>7 DEF Counted

\* p writes to a row that is neither the execution nor a new startup.
LEMMA WriteKeeps ==
    ASSUME SessionInv, NEW p \in Process, Only(p), Grown, Ledger',
           rows'[Execution] = rows[Execution], Startups' = Startups,
           UNCHANGED <<trial, job, calls>>, pc'[p] # "episode",
           pc'[p] \in Arriving => pc[p] \in Arriving,
           NEW place, NEW h, NEW o, NEW w, NEW l, NEW m,
           place = pc'[p], h = handle'[p], o = opening'[p], w = owned'[p], l = loaded'[p], m = me'[p],
           Local(p, place, h, o, w, l, m)'
    PROVE  SessionInv'
  BY CountedStays, FrozenStays, SamplingStays, ReportStays, SessionKeeps DEF TrialsStand, Only

\* p only goes on.
LEMMA QuietSession ==
    ASSUME SessionInv, NEW p \in Process, Only(p), UNCHANGED <<rows, trial, job, calls>>,
           pc'[p] # "episode", pc'[p] \in Arriving => pc[p] \in Arriving,
           NEW place, NEW h, NEW o, NEW w, NEW l, NEW m,
           place = pc'[p], h = handle'[p], o = opening'[p], w = owned'[p], l = loaded'[p], m = me'[p],
           Local(p, place, h, o, w, l, m)
    PROVE  SessionInv'
  BY LedgerStays, LocalStays, WriteKeeps DEF SessionInv, Startups

-----------------------------------------------------------------------------
(* The steps: entering.                                                    *)

\* What the invariant says of p.
Mine(p, h, o, w, l, m) ==
    /\ h = handle[p] /\ o = opening[p] /\ w = owned[p] /\ l = loaded[p] /\ m = me[p]
    /\ Local(p, pc[p], h, o, w, l, m)

LEMMA HasMine ==
    ASSUME SessionInv, NEW p \in Process
    PROVE  \E h, o, w, l, m : Mine(p, h, o, w, l, m)
  BY DEF SessionInv, Mine

\* Some places ask for nothing.
LEMMA LocalLeaves ==
    ASSUME NEW p, NEW place, NEW h, NEW o, NEW w, NEW l, NEW m, Local(p, place, h, o, w, l, m),
           NEW label \in {"idle", "shutdown done", "shutdown failed", "aborted", "close startup"}
    PROVE  Local(p, label, h, o, w, l, m)
  BY DEF Local, Retaining, Trials, Reporting, Holding, Opening, Aborting, Trying, Settling, Arriving

\* A new call.
LEMMA LocalCalls ==
    ASSUME NEW p, NEW place, NEW h, NEW o, NEW w, NEW l, NEW m, Local(p, place, h, o, w, l, m),
           NEW label \in {"idle", "claim", "find"}
    PROVE  Local(p, label, h, o, w, l, Idle)
  BY DEF Local, Retaining, Trials, Reporting, Holding, Opening, Aborting, Trying, Settling, Arriving, Idle, CallFields

LEMMA CountedCall ==
    ASSUME SessionInv, NEW p \in Process, DOMAIN pc' = Process,
           \A q \in Process \ {p} : pc'[q] = pc[q],
           Startups' = Startups, calls < MaxCalls, calls' = calls + 1
    PROVE  Counted'
<1>1. Coming' \subseteq Coming \cup {p} /\ IsFiniteSet(Coming)
  BY DEF Coming, SessionInv, Counted
<1>2. IsFiniteSet(Coming \cup {p})
      /\ (Cardinality(Coming \cup {p}) = Cardinality(Coming) \/ Cardinality(Coming \cup {p}) = Cardinality(Coming) + 1)
  BY <1>1, FS_AddElement
<1>3. IsFiniteSet(Coming') /\ Cardinality(Coming') <= Cardinality(Coming \cup {p})
  BY <1>1, <1>2, FS_Subset
<1>4. IsFiniteSet(Startups)
  BY StartupsFinite
<1>5. /\ Cardinality(Coming) \in Nat /\ Cardinality(Coming') \in Nat /\ Cardinality(Startups) \in Nat
      /\ Cardinality(Coming \cup {p}) \in Nat
  BY <1>1, <1>2, <1>3, <1>4, FS_CardinalityType
<1>6. /\ Cardinality(Startups) + Cardinality(Coming) <= calls /\ calls \in 0..MaxCalls
      /\ Startups = 1..Cardinality(Startups)
  BY DEF SessionInv, Counted
<1>7. \A a, b, c, d, e \in Nat : a + b <= c /\ (e = b \/ e = b + 1) /\ d <= e => a + d <= c + 1
  OBVIOUS
<1>8. calls \in Nat /\ calls' \in 0..MaxCalls
  BY <1>6, PlanAssumption
<1>9. Cardinality(Startups) + Cardinality(Coming') <= calls'
  BY <1>2, <1>3, <1>5, <1>6, <1>7, <1>8
<1>10. QED
  BY <1>3, <1>6, <1>8, <1>9 DEF Counted

LEMMA EnterSession ==
    ASSUME SessionInv, SampleInv, NEW p \in Process, Evaluate(p) \/ Claim(p) \/ Recover(p)
    PROVE  SessionInv'
<1>1. PICK h, o, w, l, m : Mine(p, h, o, w, l, m)
  BY HasMine
<1>2. Ledger' /\ Grown /\ Startups' = Startups /\ UNCHANGED <<rows, trial>>
  BY LedgerStays DEF SessionInv, Evaluate, Claim, Recover, Startups, childVars
<1>3. PICK place, m2 :
        /\ pc' = [pc EXCEPT ![p] = place]
        /\ place \in {"idle", "claim", "find"}
        /\ \/ me' = [me EXCEPT ![p] = Idle] /\ m2 = Idle /\ calls < MaxCalls /\ calls' = calls + 1
           \/ UNCHANGED <<me, calls>> /\ m2 = m /\ pc[p] \in Arriving
  BY <1>1 DEF Evaluate, Claim, Recover, Call, Goto, At, Arriving, Mine
<1>4. /\ Only(p) /\ place = pc'[p] /\ h = handle'[p] /\ o = opening'[p] /\ w = owned'[p]
      /\ l = loaded'[p] /\ m2 = me'[p]
  BY <1>1, <1>3 DEF Evaluate, Claim, Recover, Call, SessionInv, SessionTables, Only, SampleInv,
     Tables, sessionVars, Mine
<1>5. job' = job \/ job'.state # "completed"
  BY DEF Evaluate, Claim, Recover, Call, SessionInv, SessionTables
<1>6. Counted'
  BY <1>2, <1>4, <1>3, CountedCall, CountedStays DEF Only
<1>7. Local(p, place, h, o, w, l, m2)
  <2>1. CASE m2 = Idle
    BY <1>1, <1>3, <2>1, LocalCalls DEF Mine
  <2>2. CASE m2 = m /\ pc[p] \in Arriving
    BY <1>1, <1>3, <2>2
       DEF Mine, Local, Retaining, Trials, Reporting, Holding, Opening, Aborting, Trying, Settling, Arriving
  <2>3. QED
    BY <1>3, <2>1, <2>2
<1>8. Local(p, place, h, o, w, l, m2)'
  BY <1>2, <1>3, <1>7, LocalStays DEF SessionInv
<1>9. TrialsStand(p)
  BY <1>2 DEF TrialsStand
<1>10. Frozen' /\ Sampling' /\ ReportBindsExecution'
  BY <1>2, <1>3, <1>4, <1>5, FrozenStays, SamplingStays, ReportStays
<1>11. QED
  BY <1>2, <1>4, <1>6, <1>8, <1>9, <1>10, SessionKeeps

LEMMA FindSession ==
    ASSUME SessionInv, SampleInv, NEW p \in Process, Find(p)
    PROVE  SessionInv'
<1>1. PICK h, o, w, l, m : Mine(p, h, o, w, l, m)
  BY HasMine
<1>2. UNCHANGED <<rows, job, trial, sessionVars, calls>> /\ pc[p] = "find"
  BY DEF Find, At, childVars
<1>3. CASE Goto(p, "index") /\ UNCHANGED me
  <2>1. Only(p) /\ pc'[p] = "index" /\ m = me'[p]
    BY <1>1, <1>2, <1>3 DEF Only, Goto, SessionInv, SessionTables, SampleInv, Tables, sessionVars, Mine
  <2>2. Local(p, "index", h, o, w, l, m)
    BY <1>1, <1>2
       DEF Mine, Local, Retaining, Trials, Reporting, Holding, Opening, Aborting, Trying, Settling, Arriving
  <2>3. PICK place : place = "index"
    OBVIOUS
  <2>4. /\ place = pc'[p] /\ h = handle'[p] /\ o = opening'[p] /\ w = owned'[p] /\ l = loaded'[p]
        /\ pc'[p] # "episode" /\ pc[p] \in Arriving /\ Local(p, place, h, o, w, l, m)
    BY <1>1, <1>2, <2>1, <2>2, <2>3 DEF sessionVars, Mine, Arriving
  <2>5. QED
    BY <1>2, <2>1, <2>4, QuietSession
<1>4. ASSUME NEW r \in Newest(Execution), Close(p),
             me' = [me EXCEPT ![p].then = "check", ![p].execution = r[2]]
      PROVE  SessionInv'
  <2>1. PICK place, m2 :
          /\ place = IF h = Nothing THEN "shutdown done" ELSE IF h.noted THEN "shut" ELSE "close"
          /\ m2 = [m EXCEPT !.then = "check", !.execution = r[2]]
    OBVIOUS
  <2>2. /\ Only(p) /\ place = pc'[p] /\ h = handle'[p] /\ o = opening'[p] /\ w = owned'[p]
        /\ l = loaded'[p] /\ m2 = me'[p]
    BY <1>1, <1>2, <1>4, <2>1
       DEF Close, Only, Goto, SessionInv, SessionTables, SampleInv, Tables, sessionVars, Mine
  <2>3. rows[Execution] = <<{Receipt("execution", r[2])}>> /\ r[2] \in Index \X Process
    <3>1. rows[Execution] # <<>>
      BY <1>4 DEF Newest
    <3>2. PICK n \in Index, q \in Process : rows[Execution] = <<{Receipt("execution", <<n, q>>)}>>
      BY <3>1 DEF SessionInv, Frozen
    <3>3. r = Receipt("execution", <<n, q>>)
      BY <1>4, <3>1, <3>2 DEF Newest
    <3>4. r[2] = <<n, q>>
      BY <3>3 DEF Receipt
    <3>5. QED
      BY <3>2, <3>4
  <2>4. Local(p, place, h, o, w, l, m2)
    <3>1. /\ DOMAIN m2 = CallFields /\ m2.next = m.next /\ m2.then = "check" /\ m2.execution = r[2]
      BY <1>1, <2>1 DEF Mine, Local, Trials, CallFields
    <3>2. place \in {"shutdown done", "shut", "close"} /\ (place # "shutdown done" => h # Nothing)
      BY <2>1
    <3>3. QED
      BY <1>1, <1>2, <2>3, <3>1, <3>2
         DEF Mine, Local, Retaining, Trials, Reporting, Holding, Opening, Aborting, Trying, Settling, Arriving
  <2>5. pc'[p] \notin Arriving /\ pc'[p] # "episode"
    BY <2>1, <2>2 DEF Arriving
  <2>6. QED
    BY <1>2, <2>2, <2>4, <2>5, QuietSession
<1>5. QED
  BY <1>3, <1>4 DEF Find

-----------------------------------------------------------------------------
(* The steps: the session.                                                 *)

\* The places' sets, for a step that names its places.
LEMMA PlaceSets ==
    /\ Arriving = {"claim", "find", "index", "create", "announce startup"}
    /\ Holding = {"announce activation", "activate", "publish activation", "run", "episode", "freeze",
                  "close", "frozen", "shut", "shut unannounced", "publish shutdown"}
    /\ Opening = {"create", "announce startup", "construct", "publish startup"}
    /\ Aborting = {"announce abort", "abort", "abort unannounced", "publish abort"}
    /\ Trying = {"announce activation", "activate", "publish activation", "run", "episode"}
    /\ Settling = {"check", "report", "gather", "complete"}
  BY DEF Arriving, Holding, Opening, Aborting, Trying, Settling

\* p goes on and keeps what it retains.
LEMMA PlaceSession ==
    ASSUME SessionInv, SampleInv, NEW p \in Process, NEW h, NEW o, NEW w, NEW l, NEW m, Mine(p, h, o, w, l, m),
           NEW place, Goto(p, place), place # "episode", place \in Arriving => pc[p] \in Arriving,
           UNCHANGED <<rows, trial, job, calls, handle, opening, owned, loaded, me>>,
           Local(p, place, h, o, w, l, m)
    PROVE  SessionInv'
  BY QuietSession DEF Only, Goto, SessionInv, SessionTables, SampleInv, Tables, Mine

LEMMA WriteFacts ==
    ASSUME SessionInv, SampleInv, NEW p \in Process, NEW name \in Rows, NEW n \in {1, 2},
           name = Report => n = 1, name # Execution, \A k : name = Startup(k) => k \in Startups,
           NEW receipts, NEW ok, NEW bad, ok # bad, Observe(p, name, n, receipts, ok, bad)
    PROVE  /\ Ledger' /\ Grown /\ rows'[Execution] = rows[Execution] /\ Startups' = Startups
           /\ DOMAIN pc' = Process /\ pc'[p] \in {ok, bad} /\ \A q \in Process \ {p} : pc'[q] = pc[q]
           /\ pc'[p] = ok => n <= Len(rows'[name]) /\ rows'[name][n] = receipts
<1>1. name \in {Execution, Report} => n = 1
  OBVIOUS
<1>2. /\ Ledger' /\ Grown
      /\ \A r \in Rows : r # name => rows'[r] = rows[r]
      /\ DOMAIN pc' = Process /\ pc'[p] \in {ok, bad} /\ \A q \in Process \ {p} : pc'[q] = pc[q]
      /\ pc'[p] = ok => n <= Len(rows'[name]) /\ rows'[name][n] = receipts
  BY <1>1, ObserveEffect DEF SessionInv, SampleInv, Tables
<1>3. rows'[Execution] = rows[Execution]
  BY <1>2, RowNames
<1>4. Startups' = Startups
  <2>1. ASSUME NEW k \in Index PROVE (rows'[Startup(k)] # <<>>) <=> (rows[Startup(k)] # <<>>)
    BY <1>2, RowNames DEF Grown, Startups
  <2>2. QED
    BY <2>1 DEF Startups
<1>5. QED
  BY <1>2, <1>3, <1>4

\* The next index is nobody's yet, and one of the calls'.
LEMMA NextIndex ==
    ASSUME SessionInv, NEW p \in Process, pc[p] \in Arriving
    PROVE  /\ Cardinality(Startups) + 1 \in Index
           /\ \A n \in Index : n \in Startups <=> n < Cardinality(Startups) + 1
<1>1. IsFiniteSet(Startups)
  BY StartupsFinite
<1>2. IsFiniteSet(Coming) /\ p \in Coming
  BY DEF SessionInv, Counted, Coming
<1>3. Cardinality(Startups) \in Nat /\ Cardinality(Coming) \in Nat /\ Cardinality(Coming) # 0
  BY <1>1, <1>2, FS_CardinalityType, FS_EmptySet
<1>4. /\ Cardinality(Startups) + Cardinality(Coming) <= calls /\ calls \in 0..MaxCalls
      /\ Startups = 1..Cardinality(Startups)
  BY DEF SessionInv, Counted
<1>5. \A a, b, c, d \in Nat : a + b <= c /\ b # 0 /\ c <= d => a + 1 \in 1..d
  OBVIOUS
<1>6. \A a \in Nat : \A n \in 1..MaxCalls : n \in 1..a <=> n < a + 1
  BY PlanAssumption
<1>7. calls \in Nat /\ calls <= MaxCalls
  BY <1>4, PlanAssumption
<1>8. QED
  BY <1>3, <1>4, <1>5, <1>6, <1>7, PlanAssumption DEF Index

LEMMA ChooseSession ==
    ASSUME SessionInv, SampleInv, NEW p \in Process, ChooseStartup(p)
    PROVE  SessionInv'
<1>1. PICK h, o, w, l, m : Mine(p, h, o, w, l, m)
  BY HasMine
<1>2. UNCHANGED <<rows, job, trial, handle, owned, loaded, me, calls>> /\ pc[p] = "index" /\ pc[p] \in Arriving
  BY DEF ChooseStartup, At, childVars, Arriving
<1>3. CASE o # Nothing
  BY <1>1, <1>3, <1>2, LocalLeaves, PlaceSession DEF ChooseStartup, Mine
<1>4. CASE o = Nothing
  <2>1. PICK new : new = [index |-> Cardinality(Startups) + 1, built |-> FALSE, closed |-> FALSE]
    OBVIOUS
  <2>2. Goto(p, "create") /\ opening' = [opening EXCEPT ![p] = new]
    BY <1>1, <1>4, <2>1 DEF ChooseStartup, Mine
  <2>3. /\ new.index = Cardinality(Startups) + 1 /\ new.index \in Index /\ new \in Openings /\ ~new.built
        /\ \A n \in Index : n \in Startups <=> n < new.index
    BY <1>2, <2>1, NextIndex DEF Openings
  <2>4. new # Nothing /\ Startups \subseteq Index
    BY <2>3, NothingAssumption DEF Startups
  <2>5. PICK place : place = "create"
    OBVIOUS
  <2>6. /\ Only(p) /\ place = pc'[p] /\ h = handle'[p] /\ new = opening'[p] /\ w = owned'[p]
        /\ l = loaded'[p] /\ m = me'[p]
    BY <1>1, <1>2, <2>2, <2>5 DEF Only, Goto, SessionInv, SessionTables, SampleInv, Tables, Mine
  <2>7. Local(p, place, h, new, w, l, m)
    <3>1. Retaining(p, place, h, new, w)
      <4>1. Retaining(p, "index", h, o, w)
        BY <1>1, <1>2 DEF Mine, Local
      <4>2. w \subseteq Startups /\ \A n \in w : n \in Index
        BY <2>4, <4>1 DEF Retaining
      <4>3. new.index \notin w
        BY <2>3, <4>2, PlanAssumption DEF Index
      <4>4. h # Nothing => h.index < new.index
        BY <2>3, <4>1, <4>2 DEF Retaining
      <4>5. \A n \in Index : n < new.index => n \in Startups
        BY <2>3
      <4>6. \A n \in w : \/ ClosedOnRecord(n, p)
                         \/ h # Nothing /\ h.index = n
                         \/ \E k \in w : k > n
        BY <1>4, <4>1 DEF Retaining
      <4>7. h # Nothing => h \in Handles /\ h.index \in w /\ Len(rows[Startup(h.index)]) = 2
        BY <4>1 DEF Retaining
      <4>8. QED
        BY <2>3, <2>4, <2>5, <4>2, <4>3, <4>4, <4>5, <4>6, <4>7, PlaceSets DEF Retaining
    <3>2. Trials(p, place, h, l, m) /\ Reporting(place, m)
      BY <1>1, <1>2, <2>5, PlaceSets DEF Mine, Local, Trials, Reporting
    <3>3. QED
      BY <3>1, <3>2 DEF Local
  <2>8. QED
    BY <1>2, <2>5, <2>6, <2>7, QuietSession
<1>5. QED
  BY <1>3, <1>4

LEMMA CheckKeySession ==
    ASSUME SessionInv, SampleInv, NEW p \in Process, CheckKey(p)
    PROVE  SessionInv'
<1>1. PICK h, o, w, l, m : Mine(p, h, o, w, l, m)
  BY HasMine
<1>2. /\ UNCHANGED <<rows, job, trial, handle, opening, owned, loaded, me, calls>>
      /\ pc[p] = "create" /\ pc[p] \in Arriving
  BY DEF CheckKey, At, childVars, Arriving, sessionVars
<1>3. PICK place \in {"announce startup", "idle"} : Goto(p, place)
  BY DEF CheckKey
<1>4. Local(p, place, h, o, w, l, m)
  BY <1>1, <1>2, <1>3, PlaceSets DEF Mine, Local, Retaining, Trials, Reporting
<1>5. QED
  BY <1>1, <1>2, <1>3, <1>4, PlaceSession

LEMMA AnnounceStartupSession ==
    ASSUME SessionInv, SampleInv, NEW p \in Process, AnnounceStartup(p)
    PROVE  SessionInv'
<1>1. PICK h, o, w, l, m : Mine(p, h, o, w, l, m)
  BY HasMine
<1>2. /\ UNCHANGED <<job, trial, handle, opening, owned, loaded, me, calls>> /\ pc[p] = "announce startup"
      /\ Observe(p, Startup(o.index), 1, {Configuration}, "construct", "idle")
  BY <1>1 DEF AnnounceStartup, At, childVars, sessionVars, Mine
<1>3. o # Nothing /\ o.index \in Index /\ Startup(o.index) \in Rows
  BY <1>1, <1>2, PlaceSets, RowNames DEF Mine, Local, Retaining, Openings
<1>4. PICK name : name = Startup(o.index) /\ name \in Rows /\ name \notin {Execution, Report}
  BY <1>3, DistinctNames
<1>5. /\ Ledger' /\ Grown
      /\ \A r \in Rows : r # name => rows'[r] = rows[r]
      /\ \/ rows'[name] = rows[name]
         \/ rows[name] = <<>> /\ rows'[name] # <<>>
      /\ DOMAIN pc' = Process /\ pc'[p] \in {"construct", "idle"} /\ \A q \in Process \ {p} : pc'[q] = pc[q]
      /\ pc'[p] = "construct" => 1 <= Len(rows'[name])
  <2>1. PICK n, receipts, ok, bad :
           n \in {1, 2} /\ n = 1 /\ receipts = {Configuration} /\ ok = "construct" /\ bad = "idle"
    OBVIOUS
  <2>2. Observe(p, name, n, receipts, ok, bad) /\ ok # bad /\ Ledger /\ DOMAIN pc = Process
    BY <1>2, <1>4, <2>1 DEF SessionInv, SampleInv, Tables
  <2>0. (name \in {Execution, Report} => n = 1) /\ name \in Rows /\ n \in {1, 2}
    BY <1>4, <2>1
  <2>3. /\ Ledger' /\ Grown
        /\ \A r \in Rows : r # name => rows'[r] = rows[r]
        /\ DOMAIN pc' = Process /\ pc'[p] \in {ok, bad} /\ \A q \in Process \ {p} : pc'[q] = pc[q]
        /\ pc'[p] = ok => n <= Len(rows'[name]) /\ rows'[name][n] = receipts
    BY <2>0, <2>2, ObserveEffect
  <2>4. \/ rows'[name] = rows[name]
        \/ (n = 1 => rows[name] = <<>>) /\ rows'[name] # <<>>
    BY <2>0, <2>2, ObserveEffect
  <2>5. \/ rows'[name] = rows[name]
        \/ rows[name] = <<>> /\ rows'[name] # <<>>
    BY <2>1, <2>4
  <2>6. QED
    BY <2>1, <2>3, <2>5
<1>6. rows'[Execution] = rows[Execution]
  BY <1>4, <1>5, RowNames
<1>7. PICK place : place = pc'[p] /\ place \in {"construct", "idle"}
  BY <1>5
<1>8. /\ Only(p) /\ place = pc'[p] /\ h = handle'[p] /\ o = opening'[p] /\ w = owned'[p]
      /\ l = loaded'[p] /\ m = me'[p]
  BY <1>1, <1>2, <1>5, <1>7 DEF Only, SessionInv, SessionTables, SampleInv, Tables, Mine
<1>9. Local(p, place, h, o, w, l, m)'
  <2>1. Local(p, "announce startup", h, o, w, l, m)'
    BY <1>1, <1>2, <1>5, LocalStays DEF Mine, SessionInv
  <2>2. place = "construct" => o.index \in Startups'
    BY <1>4, <1>5, <1>3, <1>7, SmallNumbers DEF Ledger, IsRow, Startups
  <2>3. QED
    BY <1>7, <2>1, <2>2, PlaceSets DEF Local, Retaining, Trials, Reporting
<1>10. Counted'
  <2>1. Coming' = Coming \ {p} /\ p \in Coming /\ IsFiniteSet(Coming)
    BY <1>2, <1>5 DEF Coming, Arriving, SessionInv, Counted
  <2>2. \A k \in Index : k # o.index => (rows'[Startup(k)] = rows[Startup(k)])
    BY <1>4, <1>5, RowNames, DistinctNames
  <2>3. IsFiniteSet(Startups) /\ IsFiniteSet(Startups')
    <3>1. Startups \subseteq 1..MaxCalls /\ Startups' \subseteq 1..MaxCalls
      BY DEF Startups, Index
    <3>2. IsFiniteSet(1..MaxCalls)
      BY PlanAssumption, FS_Interval
    <3>3. QED
      BY <3>1, <3>2, FS_Subset
  <2>4. Cardinality(Startups) \in Nat /\ Cardinality(Coming) \in Nat
    BY <2>1, <2>3, FS_CardinalityType
  <2>5. Cardinality(Coming') = Cardinality(Coming) - 1 /\ IsFiniteSet(Coming')
    BY <2>1, FS_RemoveElement
  <2>6. /\ Cardinality(Startups) + Cardinality(Coming) <= calls /\ calls \in 0..MaxCalls
        /\ Startups = 1..Cardinality(Startups)
    BY DEF SessionInv, Counted
  <2>7. CASE Startups' = Startups
    <3>1. \A a, b, c \in Nat : a + b <= c => a + (b - 1) <= c
      OBVIOUS
    <3>2. Cardinality(Startups') + Cardinality(Coming') <= calls'
      <4>1. calls \in Nat
        BY <2>6
      <4>2. QED
        BY <1>2, <2>4, <2>5, <2>6, <2>7, <3>1, <4>1
    <3>3. QED
      BY <1>2, <2>5, <2>6, <2>7, <3>2 DEF Counted
  <2>8. CASE o.index \notin Startups /\ Startups' = Startups \cup {o.index}
    <3>1. Cardinality(Startups') = Cardinality(Startups) + 1
      BY <2>3, <2>8, FS_AddElement
    <3>2. o.index \in Nat /\ \A n \in Index : n < o.index => n \in Startups
      <4>1. \A k \in 1..MaxCalls : k \in Nat
        BY PlanAssumption
      <4>2. QED
        BY <1>1, <1>3, <4>1 DEF Mine, Local, Retaining, Index
    <3>3. o.index = Cardinality(Startups) + 1
      <4>1. \A n \in Index : n \in Startups <=> n < Cardinality(Startups) + 1
        BY <1>2, NextIndex DEF Arriving
      <4>2. Cardinality(Startups) + 1 \in Index
        BY <1>2, NextIndex DEF Arriving
      <4>3. ~(o.index < Cardinality(Startups) + 1) /\ ~(Cardinality(Startups) + 1 < o.index)
        BY <4>1, <4>2, <1>3, <2>8, <3>2, PlanAssumption DEF Index
      <4>4. \A a, b \in Nat : ~(a < b) /\ ~(b < a) => a = b
        OBVIOUS
      <4>5. Cardinality(Startups) + 1 \in Nat
        BY <2>4
      <4>6. QED
        BY <3>2, <4>3, <4>4, <4>5
    <3>4. \A a \in Nat : (1..a) \cup {a + 1} = 1..(a + 1)
      OBVIOUS
    <3>5. Startups' = 1..Cardinality(Startups')
      BY <2>4, <2>6, <2>8, <3>1, <3>3, <3>4
    <3>6. \A a, b, c \in Nat : a + b <= c => (a + 1) + (b - 1) <= c
      OBVIOUS
    <3>7. Cardinality(Startups') + Cardinality(Coming') <= calls'
      <4>1. calls \in Nat
        BY <2>6
      <4>2. QED
        BY <1>2, <2>4, <2>5, <2>6, <3>1, <3>6, <4>1
    <3>8. QED
      BY <1>2, <2>5, <2>6, <3>5, <3>7 DEF Counted
  <2>9. QED
    BY <1>4, <2>2, <2>7, <1>3, <2>8, <1>5 DEF Startups
<1>11. TrialsStand(p)
  BY <1>2 DEF TrialsStand
<1>12. Frozen' /\ Sampling' /\ ReportBindsExecution'
  BY <1>2, <1>5, <1>6, <1>7, <1>8, FrozenStays, SamplingStays, ReportStays
<1>13. QED
  BY <1>5, <1>8, <1>9, <1>10, <1>11, <1>12, SessionKeeps

LEMMA ConstructSession ==
    ASSUME SessionInv, SampleInv, NEW p \in Process, Construct(p)
    PROVE  SessionInv'
<1>1. PICK h, o, w, l, m : Mine(p, h, o, w, l, m)
  BY HasMine
<1>2. UNCHANGED <<rows, job, trial, handle, loaded, me, calls>> /\ pc[p] = "construct"
  BY DEF Construct, At, childVars
<1>3. CASE Goto(p, "idle") /\ UNCHANGED <<opening, owned, ray>>
  <2>1. PICK place \in {"idle", "shutdown done"} : place = "idle"
    OBVIOUS
  <2>2. place # "episode" /\ place \notin Arriving
    BY <2>1 DEF Arriving
  <2>3. QED
    BY <1>1, <1>2, <1>3, <2>1, <2>2, LocalLeaves, PlaceSession DEF Mine
<1>4. CASE /\ Goto(p, "publish startup")
           /\ opening' = [opening EXCEPT ![p].built = TRUE]
           /\ owned' = [owned EXCEPT ![p] = @ \cup {opening[p].index}]
  <2>1. PICK place, o2, w2 : place = "publish startup" /\ o2 = [o EXCEPT !.built = TRUE] /\ w2 = w \cup {o.index}
    OBVIOUS
  <2>2. /\ Only(p) /\ place = pc'[p] /\ h = handle'[p] /\ o2 = opening'[p] /\ w2 = owned'[p]
        /\ l = loaded'[p] /\ m = me'[p]
    BY <1>1, <1>2, <1>4, <2>1 DEF Only, Goto, SessionInv, SessionTables, SampleInv, Tables, Mine
  <2>3. Retaining(p, "construct", h, o, w)
    BY <1>1, <1>2 DEF Mine, Local
  <2>4. o # Nothing /\ o \in Openings /\ o.index \in Startups
    BY <2>3, PlaceSets DEF Retaining
  <2>5. o2 \in Openings /\ o2.index = o.index /\ o2.built /\ o2 # Nothing
    BY <2>1, <2>4, NothingAssumption DEF Openings
  <2>6. Retaining(p, place, h, o2, w2)
    <3>1. \A n \in w2 : \/ ClosedOnRecord(n, p)
                        \/ h # Nothing /\ h.index = n
                        \/ o2 # Nothing /\ o2.index = n
                        \/ \E k \in w2 : k > n
      BY <2>1, <2>3, <2>5 DEF Retaining
    <3>2. w2 \subseteq Startups /\ o2.index \in w2 /\ (h # Nothing => h.index \in w2)
      <4>1. w \subseteq Startups /\ (h # Nothing => h.index \in w)
        BY <2>3 DEF Retaining
      <4>2. w2 = w \cup {o.index}
        BY <2>1
      <4>3. QED
        BY <2>4, <2>5, <4>1, <4>2
    <3>3. h # Nothing => h \in Handles /\ h.index < o2.index /\ Len(rows[Startup(h.index)]) = 2
      BY <2>3, <2>4, <2>5 DEF Retaining
    <3>4. \A n \in Index : n < o2.index => n \in Startups
      BY <2>3, <2>4, <2>5 DEF Retaining
    <3>5. QED
      BY <2>1, <2>5, <3>1, <3>2, <3>3, <3>4, PlaceSets DEF Retaining
  <2>7. Trials(p, place, h, l, m) /\ Reporting(place, m)
    BY <1>1, <1>2, <2>1, PlaceSets DEF Mine, Local, Trials, Reporting
  <2>8. Local(p, place, h, o2, w2, l, m) /\ place # "episode" /\ place \notin Arriving
    BY <2>1, <2>6, <2>7, PlaceSets DEF Local
  <2>9. QED
    BY <1>2, <2>2, <2>8, QuietSession
<1>5. QED
  BY <1>3, <1>4 DEF Construct

\* The second revision of a row that is neither the execution nor the report.
LEMMA RowLast ==
    ASSUME NEW s, IsRow(s), Len(s) <= 2, 2 <= Len(s), NEW x, s[2] = x
    PROVE  Len(s) = 2 /\ s # <<>> /\ s[Len(s)] = x
<1>1. Len(s) \in Nat
  BY DEF IsRow
<1>2. Len(s) = 2
  BY <1>1, SmallNumbers
<1>3. QED
  BY <1>2

LEMMA WriteOutcome ==
    ASSUME SessionInv, SampleInv, NEW p \in Process, NEW name \in Rows, name \notin {Execution, Report},
           \A k : name = Startup(k) => k \in Startups,
           NEW receipts, NEW ok, NEW bad, ok # bad, Observe(p, name, 2, receipts, ok, bad)
    PROVE  /\ Ledger' /\ Grown /\ rows'[Execution] = rows[Execution] /\ Startups' = Startups
           /\ DOMAIN pc' = Process /\ pc'[p] \in {ok, bad} /\ \A q \in Process \ {p} : pc'[q] = pc[q]
           /\ pc'[p] = ok => Len(rows'[name]) = 2 /\ Newest(name)' = receipts
<1>1. PICK n \in {1, 2} : n = 2
  OBVIOUS
<1>2. /\ Ledger' /\ Grown /\ rows'[Execution] = rows[Execution] /\ Startups' = Startups
      /\ DOMAIN pc' = Process /\ pc'[p] \in {ok, bad} /\ \A q \in Process \ {p} : pc'[q] = pc[q]
      /\ pc'[p] = ok => n <= Len(rows'[name]) /\ rows'[name][n] = receipts
  BY <1>1, WriteFacts
<1>3. IsRow(rows'[name]) /\ Len(rows'[name]) <= 2
  BY <1>2 DEF Ledger
<1>4. ASSUME pc'[p] = ok PROVE Len(rows'[name]) = 2 /\ Newest(name)' = receipts
  BY <1>1, <1>2, <1>4, <1>3, RowLast DEF Newest
<1>5. QED
  BY <1>2, <1>4

LEMMA PublishStartupSession ==
    ASSUME SessionInv, SampleInv, NEW p \in Process, PublishStartup(p)
    PROVE  SessionInv'
<1>1. PICK h, o, w, l, m : Mine(p, h, o, w, l, m)
  BY HasMine
<1>2. PICK ok, bad, receipts :
         /\ ok = "announce activation" /\ bad = "idle"
         /\ receipts = {Configuration, Receipt("startup", <<o.index, p>>)}
  OBVIOUS
<1>3. /\ UNCHANGED <<job, trial, owned, me, calls>> /\ pc[p] = "publish startup"
      /\ Observe(p, Startup(o.index), 2, receipts, ok, bad)
  BY <1>1, <1>2 DEF PublishStartup, At, childVars, Mine
<1>4. Retaining(p, "publish startup", h, o, w) /\ Trials(p, "publish startup", h, l, m)
      /\ Reporting("publish startup", m)
  BY <1>1, <1>3 DEF Mine, Local
<1>5. o # Nothing /\ o \in Openings /\ o.index \in w /\ o.index \in Startups /\ o.index \in Index
  BY <1>4, PlaceSets DEF Retaining, Openings
<1>6. PICK name : name = Startup(o.index) /\ name \in Rows /\ name \notin {Execution, Report}
                  /\ \A k : name = Startup(k) => k \in Startups
  <2>1. Startup(o.index) \in Rows
    BY <1>5, RowNames
  <2>2. Startup(o.index) \notin {Execution, Report}
    BY DistinctNames
  <2>3. \A k : Startup(o.index) = Startup(k) => k \in Startups
    BY <1>5, DistinctNames
  <2>4. QED
    BY <2>1, <2>2, <2>3
<1>7. /\ Ledger' /\ Grown /\ rows'[Execution] = rows[Execution] /\ Startups' = Startups
      /\ DOMAIN pc' = Process /\ pc'[p] \in {ok, bad} /\ \A q \in Process \ {p} : pc'[q] = pc[q]
      /\ pc'[p] = ok => Len(rows'[name]) = 2
  <2>1. ok # bad
    BY <1>2
  <2>2. Observe(p, name, 2, receipts, ok, bad)
    BY <1>3, <1>6
  <2>3. QED
    BY <1>6, <2>1, <2>2, WriteOutcome
<1>8. Local(p, "publish startup", h, o, w, l, m)'
  BY <1>1, <1>3, <1>7, LocalStays DEF Mine, SessionInv
<1>9. PICK place, h2, o2, l2 :
         /\ place = pc'[p] /\ place \in {"announce activation", "idle"}
         /\ IF place = "announce activation"
            THEN h2 = [index |-> o.index, noted |-> FALSE, shut |-> FALSE] /\ o2 = Nothing /\ l2 = Nothing
            ELSE h2 = h /\ o2 = o /\ l2 = l
  BY <1>2, <1>7
<1>10. /\ Only(p) /\ place = pc'[p] /\ h2 = handle'[p] /\ o2 = opening'[p] /\ w = owned'[p]
       /\ l2 = loaded'[p] /\ m = me'[p]
  BY <1>1, <1>2, <1>3, <1>7, <1>9 DEF PublishStartup, Only, SessionInv, SessionTables, SampleInv, Tables, Mine
<1>11. Local(p, place, h2, o2, w, l2, m)'
  <2>1. CASE place = "idle"
    BY <1>9, <2>1, <1>8, PlaceSets DEF Local, Retaining, Trials, Reporting
  <2>2. CASE place = "announce activation"
    <3>1. h2 = [index |-> o.index, noted |-> FALSE, shut |-> FALSE] /\ o2 = Nothing /\ l2 = Nothing
      BY <1>9, <2>2
    <3>2. h2 \in Handles /\ h2.index = o.index /\ h2 # Nothing
      <4>1. h2 \in Handles /\ h2.index = o.index
        BY <1>5, <3>1 DEF Handles
      <4>2. QED
        BY <4>1, NothingAssumption
    <3>3. Len(rows'[Startup(h2.index)]) = 2
      BY <1>2, <1>6, <1>7, <1>9, <2>2, <3>2
    <3>4. \A n \in w : \/ ClosedOnRecord(n, p)'
                       \/ h2.index = n
                       \/ \E k \in w : k > n
      BY <1>8, <1>4, <1>5, <3>2, PlanAssumption DEF Local, Retaining, Handles, Index
    <3>5. Retaining(p, place, h2, o2, w)'
      BY <1>5, <1>8, <2>2, <3>1, <3>2, <3>3, <3>4, PlaceSets DEF Local, Retaining
    <3>6. m.next = 1 /\ DOMAIN m = CallFields
      BY <1>4, PlaceSets DEF Trials
    <3>7. 1 \in Trial /\ \A u \in Trial : ~(u < 1)
      BY PlanAssumption DEF Trial
    <3>8. Trials(p, place, h2, l2, m)'
      <4>1. m.next \in Nat /\ m.next \in Trial /\ \A u \in Trial : ~(u < m.next)
        BY <3>6, <3>7
      <4>2. place \notin Arriving \cup {"construct", "publish startup", "freeze", "publish activation", "run", "episode"}
        BY <2>2, PlaceSets
      <4>3. QED
        BY <3>6, <4>1, <4>2 DEF Trials
    <3>9. Reporting(place, m)'
      BY <1>8, <2>2, PlaceSets DEF Local, Reporting
    <3>10. QED
      BY <3>5, <3>8, <3>9 DEF Local
  <2>3. QED
    BY <1>9, <2>1, <2>2
<1>12. place # "episode" /\ place \notin Arriving
  BY <1>9 DEF Arriving
<1>13. QED
  BY <1>3, <1>7, <1>10, <1>11, <1>12, WriteKeeps

-----------------------------------------------------------------------------
(* The steps: the trials.                                                  *)

LEMMA ActivationName ==
    ASSUME NEW n \in Index, NEW g \in Group
    PROVE  /\ Activation(n, g) \in Rows /\ Activation(n, g) \notin {Execution, Report}
           /\ \A k : Activation(n, g) = Startup(k) => k \in Startups
  BY RowNames, DistinctNames

\* The next trial is one of the plan's, and its group one of the arms'.
LEMMA TurnFacts ==
    ASSUME NEW p, NEW place \in Trying, NEW h, NEW o, NEW w, NEW l, NEW m, Local(p, place, h, o, w, l, m)
    PROVE  m.next \in Trial /\ Plan[m.next] \in Group /\ h # Nothing /\ h \in Handles /\ h.index \in Index
  BY PlaceSets DEF Local, Retaining, Trials, Group, Handles

LEMMA AnnounceActivationSession ==
    ASSUME SessionInv, SampleInv, NEW p \in Process, AnnounceActivation(p)
    PROVE  SessionInv'
<1>1. PICK h, o, w, l, m : Mine(p, h, o, w, l, m)
  BY HasMine
<1>2. PICK n, ok, bad, receipts : n \in {1, 2} /\ n = 1 /\ ok = "activate" /\ bad = "close" /\ receipts = {Configuration}
  OBVIOUS
<1>3. PICK name : name = Activation(h.index, Plan[m.next])
  OBVIOUS
<1>4. /\ UNCHANGED <<job, trial, handle, opening, owned, loaded, me, calls>> /\ pc[p] = "announce activation"
      /\ Observe(p, name, n, receipts, ok, bad)
  BY <1>1, <1>2, <1>3 DEF AnnounceActivation, At, childVars, sessionVars, Mine, Turn
<1>5. Local(p, "announce activation", h, o, w, l, m) /\ "announce activation" \in Trying
  BY <1>1, <1>4, PlaceSets DEF Mine
<1>6. name \in Rows /\ name \notin {Execution, Report} /\ \A k : name = Startup(k) => k \in Startups
  BY <1>3, <1>5, TurnFacts, ActivationName
<1>7. /\ Ledger' /\ Grown /\ rows'[Execution] = rows[Execution] /\ Startups' = Startups
      /\ DOMAIN pc' = Process /\ pc'[p] \in {ok, bad} /\ \A q \in Process \ {p} : pc'[q] = pc[q]
  BY <1>2, <1>6, <1>4, WriteFacts
<1>8. Local(p, "announce activation", h, o, w, l, m)'
  BY <1>4, <1>5, <1>7, LocalStays DEF SessionInv
<1>9. PICK place : place = pc'[p] /\ place \in {"activate", "close"}
  BY <1>2, <1>7
<1>10. /\ Only(p) /\ h = handle'[p] /\ o = opening'[p] /\ w = owned'[p] /\ l = loaded'[p] /\ m = me'[p]
  BY <1>1, <1>4, <1>7 DEF Only, SessionInv, SessionTables, SampleInv, Tables, Mine
<1>11. Local(p, place, h, o, w, l, m)'
  BY <1>8, <1>9, PlaceSets DEF Local, Retaining, Trials, Reporting
<1>12. pc'[p] # "episode" /\ pc'[p] \notin Arriving
  BY <1>9, PlaceSets
<1>13. QED
  BY <1>4, <1>7, <1>9, <1>10, <1>11, <1>12, WriteKeeps

LEMMA ActivateSession ==
    ASSUME SessionInv, SampleInv, NEW p \in Process, Activate(p)
    PROVE  SessionInv'
<1>1. PICK h, o, w, l, m : Mine(p, h, o, w, l, m)
  BY HasMine
<1>2. UNCHANGED <<rows, job, trial, handle, opening, owned, me, calls>> /\ pc[p] = "activate"
  BY DEF Activate, At, childVars
<1>3. PICK place, l2 :
        /\ Goto(p, place) /\ loaded' = [loaded EXCEPT ![p] = l2]
        /\ \/ place = "publish activation" /\ l2 = Plan[m.next]
           \/ place = "close" /\ l2 = Nothing
  BY <1>1 DEF Activate, Mine, Turn
<1>4. /\ Only(p) /\ place = pc'[p] /\ h = handle'[p] /\ o = opening'[p] /\ w = owned'[p]
      /\ l2 = loaded'[p] /\ m = me'[p]
  BY <1>1, <1>2, <1>3 DEF Only, Goto, SessionInv, SessionTables, SampleInv, Tables, Mine
<1>5. Local(p, place, h, o, w, l2, m)
  BY <1>1, <1>2, <1>3, PlaceSets DEF Mine, Local, Retaining, Trials, Reporting
<1>6. place # "episode" /\ place \notin Arriving
  BY <1>3, PlaceSets
<1>7. QED
  BY <1>2, <1>4, <1>5, <1>6, QuietSession

LEMMA PublishActivationSession ==
    ASSUME SessionInv, SampleInv, NEW p \in Process, PublishActivation(p)
    PROVE  SessionInv'
<1>1. PICK h, o, w, l, m : Mine(p, h, o, w, l, m)
  BY HasMine
<1>2. PICK ok, bad, receipts :
         /\ ok = "run" /\ bad = "close"
         /\ receipts = {Configuration, Receipt("activated", <<h.index, p>>)}
  OBVIOUS
<1>3. PICK name : name = Activation(h.index, Plan[m.next])
  OBVIOUS
<1>4. /\ UNCHANGED <<job, trial, handle, opening, owned, loaded, me, calls>> /\ pc[p] = "publish activation"
      /\ Observe(p, name, 2, receipts, ok, bad)
  BY <1>1, <1>2, <1>3 DEF PublishActivation, At, childVars, sessionVars, Mine, Turn, Session
<1>5. Local(p, "publish activation", h, o, w, l, m) /\ "publish activation" \in Trying
  BY <1>1, <1>4, PlaceSets DEF Mine
<1>6. name \in Rows /\ name \notin {Execution, Report} /\ \A k : name = Startup(k) => k \in Startups
  BY <1>3, <1>5, TurnFacts, ActivationName
<1>7. /\ Ledger' /\ Grown /\ rows'[Execution] = rows[Execution] /\ Startups' = Startups
      /\ DOMAIN pc' = Process /\ pc'[p] \in {ok, bad} /\ \A q \in Process \ {p} : pc'[q] = pc[q]
      /\ pc'[p] = ok => Len(rows'[name]) = 2 /\ Newest(name)' = receipts
  <2>1. ok # bad
    BY <1>2
  <2>2. Observe(p, name, 2, receipts, ok, bad)
    BY <1>4
  <2>3. QED
    BY <1>6, <2>1, <2>2, WriteOutcome
<1>8. Local(p, "publish activation", h, o, w, l, m)'
  BY <1>4, <1>5, <1>7, LocalStays DEF SessionInv
<1>9. PICK place : place = pc'[p] /\ place \in {"run", "close"}
  BY <1>2, <1>7
<1>10. /\ Only(p) /\ h = handle'[p] /\ o = opening'[p] /\ w = owned'[p] /\ l = loaded'[p] /\ m = me'[p]
  BY <1>1, <1>4, <1>7 DEF Only, SessionInv, SessionTables, SampleInv, Tables, Mine
<1>11. place = "run" => Activated(h.index, p, Plan[m.next])'
  <2>1. SUFFICES ASSUME place = "run" PROVE Activated(h.index, p, Plan[m.next])'
    OBVIOUS
  <2>2. Len(rows'[name]) = 2 /\ Newest(name)' = receipts
    BY <1>2, <1>7, <1>9, <2>1
  <2>3. Receipt("activated", <<h.index, p>>) \in receipts
    BY <1>2
  <2>4. Newest(name)' = Newest(Activation(h.index, Plan[m.next]))'
    BY <1>3 DEF Newest
  <2>5. QED
    BY <1>3, <2>2, <2>3, <2>4 DEF Activated
<1>12. Local(p, place, h, o, w, l, m)'
  BY <1>8, <1>9, <1>11, PlaceSets DEF Local, Retaining, Trials, Reporting
<1>13. pc'[p] # "episode" /\ pc'[p] \notin Arriving
  BY <1>9, PlaceSets
<1>14. QED
  BY <1>4, <1>7, <1>9, <1>10, <1>12, <1>13, WriteKeeps

\* The trial p has come to is completed: the next one, or all are done.
LEMMA ProceedLocal ==
    ASSUME NEW p, NEW h, NEW o, NEW w, NEW l, NEW m, Local(p, "run", h, o, w, l, m)',
           trial'[m.next].state = "completed", m.next \in Trial,
           NEW m2, m2 = [m EXCEPT !.next = @ + 1], NEW place, place = Before(m.next + 1)
    PROVE  /\ Local(p, place, h, o, w, l, m2)'
           /\ place \in {"freeze", "announce activation", "run"}
<1>1. /\ DOMAIN m = CallFields /\ m.next \in Nat /\ h # Nothing
      /\ \A u \in Trial : u < m.next => trial'[u].state = "completed" /\ Activated(h.index, p, Plan[u])'
      /\ l = Plan[m.next] /\ Activated(h.index, p, Plan[m.next])'
  BY PlaceSets DEF Local, Trials, Retaining
<1>2. /\ DOMAIN m2 = CallFields /\ m2.next = m.next + 1 /\ m2.then = m.then /\ m2.execution = m.execution
  BY <1>1 DEF CallFields
<1>3. place \in {"freeze", "announce activation", "run"}
  BY DEF Before
<1>4. Retaining(p, place, h, o, w)' /\ Reporting(place, m2)'
  BY <1>1, <1>2, <1>3, PlaceSets DEF Local, Retaining, Reporting
<1>5. m2.next \in Nat /\ \A u \in Trial : u < m2.next => u < m.next \/ u = m.next
  BY <1>1, <1>2, PlanAssumption DEF Trial
<1>6. \A u \in Trial : u < m2.next => trial'[u].state = "completed" /\ Activated(h.index, p, Plan[u])'
  BY <1>1, <1>5
<1>7. place = "freeze" => \A u \in Trial : u < m2.next
  BY <1>2, PlanAssumption DEF Before, Trial
<1>8. place # "freeze" => m2.next \in Trial
  BY <1>2 DEF Before
<1>9. place = "run" => l = Plan[m2.next] /\ Activated(h.index, p, Plan[m2.next])'
  BY <1>1, <1>2, PlanAssumption DEF Before, OpensGroup, Trial
<1>10. Trials(p, place, h, l, m2)'
  BY <1>2, <1>3, <1>5, <1>6, <1>7, <1>8, <1>9, PlaceSets DEF Trials
<1>11. QED
  BY <1>3, <1>4, <1>10 DEF Local

LEMMA RunTrialSession ==
    ASSUME SessionInv, SampleInv, NEW p \in Process, RunTrial(p)
    PROVE  SessionInv'
<1>1. PICK h, o, w, l, m : Mine(p, h, o, w, l, m)
  BY HasMine
<1>2. UNCHANGED <<rows, job, handle, opening, owned, loaded, calls>> /\ pc[p] = "run" /\ Turn(p) = m.next
  BY <1>1 DEF RunTrial, At, sessionVars, Turn, Mine
<1>3. Local(p, "run", h, o, w, l, m) /\ "run" \in Trying
  BY <1>1, <1>2, PlaceSets DEF Mine
<1>4. m.next \in Trial /\ Plan[m.next] \in Group /\ h # Nothing /\ h \in Handles /\ h.index \in Index
  BY <1>3, TurnFacts
<1>5. Ledger' /\ Grown /\ Startups' = Startups
  BY <1>2, LedgerStays DEF SessionInv, Startups
<1>6. CASE Goto(p, "close") /\ UNCHANGED <<childVars, me>>
  <2>1. PICK place : place = "close"
    OBVIOUS
  <2>2. Local(p, place, h, o, w, l, m) /\ place # "episode" /\ place \notin Arriving
    BY <1>3, <2>1, PlaceSets DEF Local, Retaining, Trials, Reporting
  <2>3. QED
    BY <1>1, <1>2, <1>6, <2>1, <2>2, PlaceSession DEF childVars
<1>7. CASE Replayable(Turn(p)) /\ Proceed(p) /\ UNCHANGED childVars
  <2>1. PICK place, m2 : place = Before(m.next + 1) /\ m2 = [m EXCEPT !.next = @ + 1]
    OBVIOUS
  <2>2. trial' = trial /\ trial'[m.next].state = "completed"
    BY <1>2, <1>7 DEF Replayable, childVars
  <2>3. Local(p, "run", h, o, w, l, m)'
    BY <1>3, <1>5, <2>2, LocalStays DEF SessionInv
  <2>4. Local(p, place, h, o, w, l, m2)' /\ place \in {"freeze", "announce activation", "run"}
    BY <1>4, <2>1, <2>2, <2>3, ProceedLocal
  <2>5. /\ Only(p) /\ place = pc'[p] /\ h = handle'[p] /\ o = opening'[p] /\ w = owned'[p]
        /\ l = loaded'[p] /\ m2 = me'[p]
    BY <1>1, <1>2, <1>7, <2>1
       DEF Proceed, Only, Goto, SessionInv, SessionTables, SampleInv, Tables, Mine
  <2>6. pc'[p] # "episode" /\ pc'[p] \notin Arriving
    BY <2>4, <2>5, PlaceSets
  <2>7. QED
    BY <1>2, <1>5, <2>2, <2>4, <2>5, <2>6, WriteKeeps
<1>8. CASE /\ Assignable(Turn(p)) /\ Goto(p, "episode") /\ UNCHANGED me
           /\ trial' = [trial EXCEPT ![Turn(p)] =
                           [state |-> "running", session |-> Session(p), arm |-> loaded[p]]]
  <2>1. PICK t, place : t = m.next /\ place = "episode"
    OBVIOUS
  <2>2. /\ t \in Trial /\ trial[t].state = "absent"
        /\ trial'[t] = [state |-> "running", session |-> <<h.index, p>>, arm |-> l]
        /\ \A u \in Trial : u # t => trial'[u] = trial[u]
    BY <1>1, <1>2, <1>4, <1>8, <2>1 DEF Assignable, Session, Mine, SampleInv, Tables
  <2>3. \A u \in Trial : trial[u].state = "completed" => trial'[u].state = "completed"
    BY <2>2
  <2>4. /\ Only(p) /\ place = pc'[p] /\ h = handle'[p] /\ o = opening'[p] /\ w = owned'[p]
        /\ l = loaded'[p] /\ m = me'[p]
    BY <1>1, <1>2, <1>8, <2>1 DEF Only, Goto, SessionInv, SessionTables, SampleInv, Tables, Mine
  <2>5. ASSUME NEW q \in Process \ {p}, pc[q] = "episode"
        PROVE  Turn(q) \in Trial /\ trial[Turn(q)].state = "running" /\ Turn(q) # t
    BY <2>5, <2>2, PlaceSets DEF SessionInv, Local, Trials, Turn
  <2>6. TrialsStand(p)
    BY <2>2, <2>3, <2>5 DEF TrialsStand
  <2>7. Local(p, place, h, o, w, l, m)'
    <3>1. Local(p, "run", h, o, w, l, m)'
      BY <1>3, <1>5, <2>3, LocalStays DEF SessionInv
    <3>2. trial'[m.next].state = "running"
      BY <2>1, <2>2
    <3>3. QED
      BY <2>1, <3>1, <3>2, PlaceSets DEF Local, Retaining, Trials, Reporting
  <2>8. Sampling'
    <3>1. ASSUME NEW u \in Trial, trial'[u].state # "absent"
          PROVE  /\ trial'[u].arm = Plan[u]
                 /\ \E n \in Index : \E q \in Process :
                       trial'[u].session = <<n, q>> /\ Activated(n, q, Plan[u])'
      <4>1. CASE u = t
        <5>1. Activated(h.index, p, Plan[t])' /\ l = Plan[t]
          BY <2>1, <2>7, PlaceSets DEF Local, Trials
        <5>2. QED
          BY <1>4, <2>2, <4>1, <5>1
      <4>2. CASE u # t
        <5>1. Plan[u] \in Group
          BY DEF Group
        <5>2. PICK n \in Index, q \in Process : trial[u].session = <<n, q>> /\ Activated(n, q, Plan[u])
          BY <2>2, <3>1, <4>2 DEF SessionInv, Sampling
        <5>3. Activated(n, q, Plan[u])'
          BY <1>5, <5>1, <5>2, FullStays DEF SessionInv
        <5>4. trial'[u] = trial[u] /\ trial[u].arm = Plan[u]
          BY <2>2, <3>1, <4>2 DEF SessionInv, Sampling
        <5>5. QED
          BY <5>2, <5>3, <5>4
      <4>3. QED
        BY <4>1, <4>2
    <3>2. ASSUME NEW q \in Process, NEW r \in Process, pc'[q] = "episode", pc'[r] = "episode",
                 Turn(q)' = Turn(r)'
          PROVE  q = r
      BY <2>4, <2>5, <2>1, <3>2 DEF Only, Turn, SessionInv, Sampling
    <3>3. QED
      BY <3>1, <3>2 DEF Sampling
  <2>9. Frozen' /\ ReportBindsExecution'
    BY <1>2, <1>5, <2>3, FrozenStays, ReportStays
  <2>10. Counted'
    BY <2>1, <2>4, <1>2, <1>5, PlaceSets, CountedStays DEF Only
  <2>11. QED
    BY <1>5, <2>4, <2>6, <2>7, <2>8, <2>9, <2>10, SessionKeeps
<1>9. QED
  BY <1>6, <1>7, <1>8 DEF RunTrial

LEMMA EpisodeSession ==
    ASSUME SessionInv, SampleInv, NEW p \in Process, Episode(p)
    PROVE  SessionInv'
<1>1. PICK h, o, w, l, m : Mine(p, h, o, w, l, m)
  BY HasMine
<1>2. /\ UNCHANGED <<rows, job, handle, opening, owned, loaded, calls>> /\ pc[p] = "episode"
      /\ Turn(p) = m.next
  BY <1>1 DEF Episode, At, sessionVars, Turn, Mine
<1>3. Local(p, "episode", h, o, w, l, m) /\ "episode" \in Trying
  BY <1>1, <1>2, PlaceSets DEF Mine
<1>4. m.next \in Trial /\ trial[m.next].state = "running"
  BY <1>3, TurnFacts DEF Local, Trials
<1>5. Ledger' /\ Grown /\ Startups' = Startups
  BY <1>2, LedgerStays DEF SessionInv, Startups
<1>6. PICK s, place, m2 :
        /\ trial' = [trial EXCEPT ![m.next].state = s]
        /\ Goto(p, place)
        /\ s \in {"running", "frozen", "completed"}
        /\ \/ s = "completed" /\ place = Before(m.next + 1) /\ m2 = [m EXCEPT !.next = @ + 1]
              /\ me' = [me EXCEPT ![p].next = @ + 1]
           \/ place = "close" /\ m2 = m /\ UNCHANGED me
  BY <1>2 DEF Episode, Proceed
<1>7. /\ DOMAIN trial'[m.next] = {"state", "session", "arm"}
      /\ trial'[m.next].state = s /\ trial'[m.next].session = trial[m.next].session
      /\ trial'[m.next].arm = trial[m.next].arm
      /\ \A u \in Trial : u # m.next => trial'[u] = trial[u]
  BY <1>4, <1>6 DEF SampleInv, Tables
<1>8. \A u \in Trial : trial[u].state = "completed" => trial'[u].state = "completed"
  BY <1>4, <1>7
<1>9. TrialsStand(p)
  <2>1. \A q \in Process \ {p} : pc[q] = "episode" => Turn(q) # m.next
    BY <1>2 DEF SessionInv, Sampling
  <2>2. ASSUME NEW q \in Process \ {p}, pc[q] = "episode" PROVE Turn(q) \in Trial
    BY <2>2, PlaceSets DEF SessionInv, Local, Trials, Turn
  <2>3. QED
    BY <1>7, <1>8, <2>1, <2>2 DEF TrialsStand
<1>10. /\ Only(p) /\ place = pc'[p] /\ h = handle'[p] /\ o = opening'[p] /\ w = owned'[p]
       /\ l = loaded'[p] /\ m2 = me'[p]
  BY <1>1, <1>2, <1>6 DEF Only, Goto, SessionInv, SessionTables, SampleInv, Tables, Mine
<1>11. Local(p, "run", h, o, w, l, m)'
  <2>1. Local(p, "run", h, o, w, l, m)
    BY <1>3, PlaceSets DEF Local, Retaining, Trials, Reporting
  <2>2. QED
    BY <1>5, <1>8, <2>1, LocalStays DEF SessionInv
<1>12. Local(p, place, h, o, w, l, m2)' /\ place \in {"freeze", "announce activation", "run", "close"}
  <2>1. CASE s = "completed" /\ place = Before(m.next + 1) /\ m2 = [m EXCEPT !.next = @ + 1]
    <3>1. trial'[m.next].state = "completed" /\ m2 = [m EXCEPT !.next = @ + 1] /\ place = Before(m.next + 1)
      BY <1>7, <2>1
    <3>2. Local(p, place, h, o, w, l, m2)' /\ place \in {"freeze", "announce activation", "run"}
      BY <1>4, <1>11, <3>1, ProceedLocal
    <3>3. QED
      BY <3>2
  <2>2. CASE place = "close" /\ m2 = m
    BY <1>11, <2>2, PlaceSets DEF Local, Retaining, Trials, Reporting
  <2>3. QED
    BY <1>6, <2>1, <2>2
<1>13. place # "episode" /\ place \notin Arriving
  BY <1>12, PlaceSets
<1>14. Sampling'
  BY <1>4, <1>7, <1>5, <1>10, <1>13, SamplingStays
<1>15. Frozen' /\ ReportBindsExecution'
  BY <1>2, <1>5, <1>8, FrozenStays, ReportStays
<1>16. Counted'
  BY <1>2, <1>5, <1>10, <1>13, CountedStays DEF Only
<1>17. QED
  BY <1>5, <1>9, <1>10, <1>12, <1>14, <1>15, <1>16, SessionKeeps

LEMMA RecoverTrialSession ==
    ASSUME SessionInv, SampleInv, NEW t \in Trial, RecoverTrial(t)
    PROVE  SessionInv'
<1>1. /\ UNCHANGED <<rows, pc, job, handle, opening, owned, loaded, me, calls>>
      /\ trial[t].state = "frozen" /\ trial' = [trial EXCEPT ![t].state = "completed"]
  BY DEF RecoverTrial, ledgerVars, sessionVars
<1>2. Ledger' /\ Grown /\ Startups' = Startups
  BY <1>1, LedgerStays DEF SessionInv, Startups
<1>3. /\ trial'[t].state = "completed" /\ trial'[t].session = trial[t].session
      /\ trial'[t].arm = trial[t].arm /\ \A u \in Trial : u # t => trial'[u] = trial[u]
  BY <1>1 DEF SampleInv, Tables
<1>4. \A u \in Trial : trial[u].state = "completed" => trial'[u].state = "completed"
  BY <1>3
<1>5. ASSUME NEW q \in Process
      PROVE  Local(q, pc[q], handle[q], opening[q], owned[q], loaded[q], me[q])'
  <2>1. PICK place, h, o, w, l, m :
           /\ place = pc[q] /\ h = handle[q] /\ o = opening[q]
           /\ w = owned[q] /\ l = loaded[q] /\ m = me[q]
    OBVIOUS
  <2>2. Local(q, place, h, o, w, l, m)
    BY <2>1 DEF SessionInv
  <2>3. place = "episode" => trial'[m.next].state = "running"
    BY <2>2, <1>1, <1>3, PlaceSets DEF Local, Trials
  <2>4. Local(q, place, h, o, w, l, m)'
    BY <1>2, <1>4, <2>2, <2>3, LocalStays DEF SessionInv
  <2>5. QED
    BY <1>1, <2>1, <2>4 DEF Local
<1>6. Sampling'
  <2>1. ASSUME NEW u \in Trial, trial'[u].state # "absent"
        PROVE  /\ trial'[u].arm = Plan[u]
               /\ \E n \in Index : \E q \in Process :
                     trial'[u].session = <<n, q>> /\ Activated(n, q, Plan[u])'
    <3>1. trial[u].state # "absent" /\ trial'[u].session = trial[u].session /\ trial'[u].arm = trial[u].arm
      BY <1>1, <1>3, <2>1
    <3>2. PICK n \in Index, q \in Process : trial[u].session = <<n, q>> /\ Activated(n, q, Plan[u])
      BY <3>1 DEF SessionInv, Sampling
    <3>3. Activated(n, q, Plan[u])'
      BY <1>1, <3>2 DEF Activated, Newest
    <3>4. QED
      BY <3>1, <3>2, <3>3 DEF SessionInv, Sampling
  <2>2. QED
    BY <1>1, <2>1 DEF SessionInv, Sampling, Turn
<1>7. Frozen' /\ ReportBindsExecution'
  BY <1>1, <1>2, <1>4, FrozenStays, ReportStays
<1>8. Counted' /\ SessionTables'
  BY <1>1, <1>2 DEF SessionInv, Counted, Coming, SessionTables
<1>9. QED
  BY <1>2, <1>5, <1>6, <1>7, <1>8 DEF SessionInv

-----------------------------------------------------------------------------
(* The steps: the frozen execution and the close.                          *)

LEMMA OneRevision ==
    ASSUME NEW s, IsRow(s), Len(s) <= 1, 1 <= Len(s), NEW x, s[1] = x
    PROVE  s = <<x>>
<1>1. PICK S : s \in Seq(S)
  BY DEF IsRow
<1>2. Len(s) \in Nat
  BY <1>1
<1>3. Len(s) = 1
  BY <1>2, SmallNumbers
<1>4. QED
  BY <1>1, <1>3

\* What _publish_execution leaves on record, when it returns and when it raises.
LEMMA FreezeEffect ==
    ASSUME SessionInv, SampleInv, NEW p \in Process, NEW receipts, NEW ok, NEW bad, ok # bad,
           Observe(p, Execution, 1, receipts, ok, bad)
    PROVE  /\ Ledger' /\ Grown /\ Startups' = Startups
           /\ rows'[Execution] = rows[Execution] \/ rows'[Execution] = <<receipts>>
           /\ DOMAIN pc' = Process /\ pc'[p] \in {ok, bad} /\ \A q \in Process \ {p} : pc'[q] = pc[q]
           /\ pc'[p] = ok => rows'[Execution] = <<receipts>>
<1>1. PICK n, name : n \in {1, 2} /\ n = 1 /\ name = Execution
  OBVIOUS
<1>2. Observe(p, name, n, receipts, ok, bad)
  BY <1>1
<1>3. (name \in {Execution, Report} => n = 1) /\ name \in Rows /\ n \in {1, 2}
  BY <1>1, RowNames
<1>4. Ledger /\ DOMAIN pc = Process
  BY DEF SessionInv, SampleInv, Tables
<1>5. /\ Ledger' /\ Grown
      /\ \A r \in Rows : r # name => rows'[r] = rows[r]
      /\ DOMAIN pc' = Process /\ pc'[p] \in {ok, bad} /\ \A q \in Process \ {p} : pc'[q] = pc[q]
      /\ pc'[p] = ok => n <= Len(rows'[name]) /\ rows'[name][n] = receipts
  BY <1>2, <1>3, <1>4, ObserveEffect
<1>6. rows'[name] = rows[name] \/ (n = 1 => rows'[name] = <<receipts>>)
  BY <1>2, <1>3, <1>4, ObserveEffect
<1>7. Startups' = Startups
  <2>1. \A k \in Index : Startup(k) # Execution
    BY DistinctNames
  <2>2. \A k \in Index : rows'[Startup(k)] = rows[Startup(k)]
    BY <1>1, <1>5, <2>1, RowNames
  <2>3. QED
    BY <2>2 DEF Startups
<1>8. ASSUME pc'[p] = ok PROVE rows'[Execution] = <<receipts>>
  BY <1>1, <1>3, <1>5, <1>8, OneRevision DEF Ledger
<1>9. QED
  BY <1>1, <1>5, <1>6, <1>7, <1>8

LEMMA FreezeSession ==
    ASSUME SessionInv, SampleInv, NEW p \in Process, Freeze(p)
    PROVE  SessionInv'
<1>1. PICK h, o, w, l, m : Mine(p, h, o, w, l, m)
  BY HasMine
<1>2. PICK ok, bad, receipts :
         ok = "frozen" /\ bad = "close" /\ receipts = {Receipt("execution", <<h.index, p>>)}
  OBVIOUS
<1>3. /\ UNCHANGED <<job, trial, handle, opening, owned, loaded, calls>> /\ pc[p] = "freeze"
      /\ Observe(p, Execution, 1, receipts, ok, bad)
  BY <1>1, <1>2 DEF Freeze, At, childVars, sessionVars, Mine, Session
<1>4. Local(p, "freeze", h, o, w, l, m)
  BY <1>1, <1>3 DEF Mine
<1>5. h # Nothing /\ h \in Handles /\ h.index \in Index
  BY <1>4, PlaceSets DEF Local, Retaining, Handles
<1>6. /\ Ledger' /\ Grown /\ Startups' = Startups
      /\ rows'[Execution] = rows[Execution] \/ rows'[Execution] = <<receipts>>
      /\ DOMAIN pc' = Process /\ pc'[p] \in {ok, bad} /\ \A q \in Process \ {p} : pc'[q] = pc[q]
      /\ pc'[p] = ok => rows'[Execution] = <<receipts>>
  BY <1>2, <1>3, FreezeEffect
<1>7. Local(p, "freeze", h, o, w, l, m)'
  BY <1>3, <1>4, <1>6, LocalStays DEF SessionInv
<1>8. PICK place, m2 :
         /\ place = pc'[p] /\ place \in {"frozen", "close"}
         /\ m2 = IF place = "frozen"
                 THEN [m EXCEPT !.then = "check", !.execution = <<h.index, p>>] ELSE m
  BY <1>2, <1>6
<1>9. /\ Only(p) /\ place = pc'[p] /\ h = handle'[p] /\ o = opening'[p] /\ w = owned'[p]
      /\ l = loaded'[p] /\ m2 = me'[p]
  BY <1>1, <1>3, <1>6, <1>8 DEF Freeze, Session, Mine, Only, SessionInv, SessionTables, SampleInv,
     Tables
<1>10. Local(p, place, h, o, w, l, m2)'
  BY <1>8, <1>7, <1>4, <1>2, <1>6, <1>5, PlaceSets DEF Local, Retaining, Trials, Reporting,
     CallFields
<1>11. Frozen'
  <2>1. CASE rows'[Execution] = rows[Execution]
    BY <1>3, <1>6, <2>1, FrozenStays
  <2>2. CASE rows'[Execution] = <<receipts>>
    BY <1>2, <2>2, <1>7, <1>5, PlaceSets DEF Local, Trials, Retaining, Group, Activated, Frozen
  <2>3. QED
    BY <1>6, <2>1, <2>2
<1>12. place # "episode" /\ place \notin Arriving
  BY <1>8, PlaceSets
<1>13. Sampling' /\ ReportBindsExecution' /\ TrialsStand(p)
  BY <1>3, <1>6, <1>9, <1>12, SamplingStays, ReportStays DEF TrialsStand
<1>14. Counted'
  BY <1>3, <1>6, <1>9, <1>12, CountedStays
<1>15. QED
  BY <1>6, <1>9, <1>10, <1>11, <1>13, <1>14, SessionKeeps

\* The rows of a session the process retains.
LEMMA ShutdownName ==
    ASSUME NEW n \in Index
    PROVE  /\ {Shutdown(n), Abort(n)} \subseteq Rows
           /\ Shutdown(n) \notin {Execution, Report} /\ Abort(n) \notin {Execution, Report}
           /\ \A k : Shutdown(n) # Startup(k) /\ Abort(n) # Startup(k)
<1>1. {Shutdown(n), Abort(n)} \subseteq Rows
  BY RowNames
<1>2. Shutdown(n) \notin {Execution, Report} /\ Abort(n) \notin {Execution, Report}
  BY DistinctNames
<1>3. \A k : Shutdown(n) # Startup(k) /\ Abort(n) # Startup(k)
  BY DistinctNames
<1>4. QED
  BY <1>1, <1>2, <1>3

LEMMA AnnounceShutdownSession ==
    ASSUME SessionInv, SampleInv, NEW p \in Process, AnnounceShutdown(p)
    PROVE  SessionInv'
<1>1. PICK h, o, w, l, m : Mine(p, h, o, w, l, m)
  BY HasMine
<1>2. PICK receipts, name, old :
         receipts = {Receipt("startup", <<h.index, p>>)} /\ name = Shutdown(h.index) /\ old = pc[p]
  OBVIOUS
<1>3. PICK n, ok, bad : n \in {1, 2} /\ n = 1 /\ ok = "shut" /\ bad = "shut unannounced"
  OBVIOUS
<1>4. /\ UNCHANGED <<job, trial, opening, owned, loaded, me, calls>> /\ old \in {"close", "frozen"}
      /\ Observe(p, name, n, receipts, ok, bad)
      /\ handle' = [handle EXCEPT ![p].noted = pc'[p] = ok]
  BY <1>2, <1>1, <1>3 DEF AnnounceShutdown, At, childVars, Mine, Session
<1>5. Local(p, old, h, o, w, l, m)
  BY <1>2, <1>1 DEF Mine
<1>6. h # Nothing /\ h \in Handles /\ h.index \in Index
  BY <1>4, <1>5, PlaceSets DEF Local, Retaining, Handles
<1>7. name \in Rows /\ name \notin {Execution, Report} /\ \A k : name # Startup(k)
  BY <1>2, <1>6, ShutdownName
<1>8. /\ Ledger' /\ Grown /\ rows'[Execution] = rows[Execution] /\ Startups' = Startups
      /\ DOMAIN pc' = Process /\ pc'[p] \in {ok, bad} /\ \A q \in Process \ {p} : pc'[q] = pc[q]
  BY <1>3, <1>7, <1>4, WriteFacts
<1>9. Local(p, old, h, o, w, l, m)'
  BY <1>4, <1>5, <1>8, LocalStays DEF SessionInv
<1>10. PICK place, h2, note :
         place = pc'[p] /\ place \in {"shut", "shut unannounced"} /\ note = (pc'[p] = ok)
         /\ h2 = [h EXCEPT !.noted = note] /\ note \in BOOLEAN
  BY <1>3, <1>8
<1>11. h2 \in Handles /\ h2.index = h.index /\ h2 # Nothing
  BY <1>6, <1>10, NothingAssumption DEF Handles
<1>12. /\ Only(p) /\ place = pc'[p] /\ h2 = handle'[p] /\ o = opening'[p] /\ w = owned'[p]
       /\ l = loaded'[p] /\ m = me'[p]
  BY <1>4, <1>10, <1>1, <1>8 DEF Only, SessionInv, SessionTables, SampleInv, Tables, Mine
<1>13. Local(p, place, h2, o, w, l, m)'
  BY <1>4, <1>6, <1>9, <1>10, <1>11, PlaceSets DEF Local, Retaining, Trials, Reporting
<1>14. pc'[p] # "episode" /\ pc'[p] \notin Arriving
  BY <1>10, PlaceSets
<1>15. QED
  BY <1>4, <1>8, <1>12, <1>13, <1>14, WriteKeeps

\* Only the session's index matters, and whether an opening is built.
LEMMA SameSession ==
    ASSUME NEW p, NEW place, NEW h, NEW o, NEW w, NEW l, NEW m, Local(p, place, h, o, w, l, m), NEW h2, NEW o2,
           h2 = h \/ (h # Nothing /\ h2 \in Handles /\ h2.index = h.index),
           o2 = o \/ (o # Nothing /\ o2 \in Openings /\ o2.index = o.index /\ o2.built = o.built)
    PROVE  Local(p, place, h2, o2, w, l, m)
  BY NothingAssumption, PlaceSets DEF Local, Retaining, Trials

LEMMA ShutSession ==
    ASSUME SessionInv, SampleInv, NEW p \in Process, Shut(p)
    PROVE  SessionInv'
<1>1. PICK h, o, w, l, m : Mine(p, h, o, w, l, m)
  BY HasMine
<1>2. UNCHANGED <<rows, job, trial, opening, owned, loaded, me, calls>> /\ pc[p] \in {"shut", "shut unannounced"}
  BY DEF Shut, childVars
<1>3. PICK old : old = pc[p] /\ Local(p, old, h, o, w, l, m)
  BY <1>1 DEF Mine
<1>4. h # Nothing /\ h \in Handles
  BY <1>2, <1>3, PlaceSets DEF Local, Retaining
<1>5. PICK place, h2 :
         /\ Goto(p, place) /\ place \in {"publish shutdown", "shutdown failed"}
         /\ \/ handle' = [handle EXCEPT ![p].shut = TRUE] /\ h2 = [h EXCEPT !.shut = TRUE]
            \/ UNCHANGED handle /\ h2 = h
  BY DEF Shut
<1>6. h2 = h \/ (h2 \in Handles /\ h2.index = h.index)
  BY <1>4, <1>5 DEF Handles
<1>7. /\ Only(p) /\ place = pc'[p] /\ h2 = handle'[p] /\ o = opening'[p] /\ w = owned'[p]
      /\ l = loaded'[p] /\ m = me'[p]
  BY <1>1, <1>2, <1>5 DEF Only, Goto, SessionInv, SessionTables, SampleInv, Tables, Mine
<1>8. Local(p, place, h2, o, w, l, m)
  <2>1. Local(p, place, h, o, w, l, m)
    BY <1>2, <1>3, <1>5, PlaceSets DEF Local, Retaining, Trials, Reporting
  <2>2. QED
    BY <1>4, <1>6, <2>1, SameSession
<1>9. pc'[p] # "episode" /\ pc'[p] \notin Arriving
  BY <1>5, <1>7, PlaceSets
<1>10. QED
  BY <1>2, <1>7, <1>8, <1>9, QuietSession

LEMMA PublishShutdownSession ==
    ASSUME SessionInv, SampleInv, NEW p \in Process, PublishShutdown(p)
    PROVE  SessionInv'
<1>1. PICK h, o, w, l, m : Mine(p, h, o, w, l, m)
  BY HasMine
<1>2. PICK name, receipts :
         /\ receipts = {Receipt("startup", <<h.index, p>>), Receipt("shutdown", <<h.index, p>>)}
         /\ name = Shutdown(h.index)
  OBVIOUS
<1>3. PICK ok, bad : ok = "shutdown done" /\ bad = "shutdown failed"
  OBVIOUS
<1>4. /\ UNCHANGED <<job, trial, opening, owned, loaded, me, calls>> /\ pc[p] = "publish shutdown"
      /\ Observe(p, name, 2, receipts, ok, bad)
      /\ handle' = [handle EXCEPT ![p] = IF pc'[p] = ok THEN Nothing ELSE @]
  BY <1>1, <1>2, <1>3 DEF PublishShutdown, Confirmed, At, childVars, Mine, Session
<1>5. Local(p, "publish shutdown", h, o, w, l, m)
  BY <1>1, <1>4 DEF Mine
<1>6. h # Nothing /\ h \in Handles /\ h.index \in Index
  BY <1>5, PlaceSets DEF Local, Retaining, Handles
<1>7. name \in Rows /\ name \notin {Execution, Report} /\ \A k : name # Startup(k)
  BY <1>2, <1>6, ShutdownName
<1>8. /\ Ledger' /\ Grown /\ rows'[Execution] = rows[Execution] /\ Startups' = Startups
      /\ DOMAIN pc' = Process /\ pc'[p] \in {ok, bad} /\ \A q \in Process \ {p} : pc'[q] = pc[q]
      /\ pc'[p] = ok => Newest(name)' = receipts
  <2>1. ok # bad
    BY <1>3
  <2>2. Observe(p, name, 2, receipts, ok, bad)
    BY <1>4
  <2>3. \A k : name = Startup(k) => k \in Startups
    BY <1>7
  <2>4. QED
    BY <1>7, <2>1, <2>2, <2>3, WriteOutcome
<1>9. Local(p, "publish shutdown", h, o, w, l, m)'
  BY <1>4, <1>5, <1>8, LocalStays DEF SessionInv
<1>10. PICK place, h2 :
          /\ place = pc'[p] /\ place \in {"shutdown done", "shutdown failed"}
          /\ h2 = IF place = ok THEN Nothing ELSE h
  BY <1>3, <1>8
<1>11. /\ Only(p) /\ place = pc'[p] /\ h2 = handle'[p] /\ o = opening'[p] /\ w = owned'[p]
       /\ l = loaded'[p] /\ m = me'[p]
  BY <1>1, <1>4, <1>8, <1>10 DEF Only, SessionInv, SessionTables, SampleInv, Tables, Mine
<1>12. Local(p, place, h, o, w, l, m)'
  BY <1>9, <1>10, PlaceSets DEF Local, Retaining, Trials, Reporting
<1>13. Local(p, place, h2, o, w, l, m)'
  BY <1>2, <1>8, <1>10, <1>3, <1>12, PlaceSets DEF Newest, ClosedOnRecord, Local, Retaining, Trials
<1>14. pc'[p] # "episode" /\ pc'[p] \notin Arriving
  BY <1>10, PlaceSets
<1>15. QED
  BY <1>4, <1>8, <1>11, <1>13, <1>14, WriteKeeps

LEMMA AfterCloseSession ==
    ASSUME SessionInv, SampleInv, NEW p \in Process, AfterClose(p)
    PROVE  SessionInv'
<1>1. PICK h, o, w, l, m : Mine(p, h, o, w, l, m)
  BY HasMine
<1>2. UNCHANGED <<rows, job, trial, handle, opening, owned, loaded, me, calls>>
  BY DEF AfterClose, childVars, sessionVars
<1>3. PICK service, check : /\ service = (me[p].then = "service")
                           /\ check = (me[p].then = "check" /\ At(p, "shutdown done"))
  OBVIOUS
<1>4. PICK place : place = IF service THEN "close startup" ELSE IF check THEN "check" ELSE "idle"
  OBVIOUS
<1>5. Goto(p, place)
  BY <1>3, <1>4 DEF AfterClose
<1>6. place \in {"close startup", "check", "idle"} /\ (place = "check" => m.then = "check")
  BY <1>3, <1>1, <1>4 DEF Mine
<1>7. PICK old : old = pc[p] /\ Local(p, old, h, o, w, l, m)
  BY <1>1 DEF Mine
<1>8. Local(p, place, h, o, w, l, m)
  BY <1>7, <1>6, PlaceSets DEF Local, Retaining, Trials, Reporting
<1>9. place # "episode" /\ place \notin Arriving
  BY <1>6, PlaceSets
<1>10. QED
  BY <1>1, <1>2, <1>5, <1>8, <1>9, PlaceSession

LEMMA CloseServiceSession ==
    ASSUME SessionInv, SampleInv, NEW p \in Process, CloseService(p)
    PROVE  SessionInv'
<1>1. PICK h, o, w, l, m : Mine(p, h, o, w, l, m)
  BY HasMine
<1>2. UNCHANGED <<rows, job, trial, sessionVars, calls>> /\ me' = [me EXCEPT ![p].then = "service"]
  BY DEF CloseService, childVars
<1>3. PICK place, m2 :
        /\ place = IF h = Nothing THEN "shutdown done" ELSE IF h.noted THEN "shut" ELSE "close"
        /\ m2 = [m EXCEPT !.then = "service"]
  OBVIOUS
<1>4. Goto(p, place)
  BY <1>1, <1>3 DEF CloseService, Close, Mine
<1>5. /\ Only(p) /\ place = pc'[p] /\ h = handle'[p] /\ o = opening'[p] /\ w = owned'[p]
      /\ l = loaded'[p] /\ m2 = me'[p]
  BY <1>1, <1>2, <1>3, <1>4
     DEF Only, Goto, SessionInv, SessionTables, SampleInv, Tables, sessionVars, Mine
<1>6. PICK old : old = pc[p] /\ Local(p, old, h, o, w, l, m)
  BY <1>1 DEF Mine
<1>7. place \in {"shutdown done", "shut", "close"} /\ (place # "shutdown done" => h # Nothing)
  BY <1>3
<1>8. Local(p, place, h, o, w, l, m2)
  BY <1>3, <1>6, <1>7, PlaceSets DEF Local, Trials, CallFields, Retaining, Reporting
<1>9. pc'[p] # "episode" /\ pc'[p] \notin Arriving
  BY <1>5, <1>7, PlaceSets
<1>10. QED
  BY <1>2, <1>5, <1>8, <1>9, QuietSession

-----------------------------------------------------------------------------
(* The steps: the startup that is aborted.                                 *)

LEMMA CloseStartupSession ==
    ASSUME SessionInv, SampleInv, NEW p \in Process, CloseStartup(p)
    PROVE  SessionInv'
<1>1. PICK h, o, w, l, m : Mine(p, h, o, w, l, m)
  BY HasMine
<1>2. UNCHANGED <<rows, job, trial, handle, owned, loaded, me, calls>>
  BY DEF CloseStartup, childVars
<1>3. PICK old : old = pc[p] /\ Local(p, old, h, o, w, l, m)
  BY <1>1 DEF Mine
<1>4. CASE o # Nothing /\ o.built
  <2>1. Goto(p, "announce abort") /\ UNCHANGED opening
    BY <1>1, <1>4 DEF CloseStartup, Mine
  <2>2. PICK place : place = "announce abort"
    OBVIOUS
  <2>3. Local(p, place, h, o, w, l, m)
    BY <1>3, <1>4, <2>2, PlaceSets DEF Local, Retaining, Trials, Reporting
  <2>4. place # "episode" /\ place \notin Arriving /\ Goto(p, place)
    BY <2>1, <2>2, PlaceSets
  <2>5. QED
    BY <1>1, <1>2, <2>1, <2>3, <2>4, PlaceSession
<1>5. CASE ~(o # Nothing /\ o.built)
  <2>1. Goto(p, "idle") /\ opening' = [opening EXCEPT ![p] = Nothing]
    BY <1>1, <1>5 DEF CloseStartup, Mine
  <2>2. PICK place, o2 : place = "idle" /\ o2 = Nothing
    OBVIOUS
  <2>3. /\ Only(p) /\ place = pc'[p] /\ h = handle'[p] /\ o2 = opening'[p] /\ w = owned'[p]
        /\ l = loaded'[p] /\ m = me'[p]
    BY <1>1, <1>2, <2>1, <2>2 DEF Only, Goto, SessionInv, SessionTables, SampleInv, Tables, Mine
  <2>4. \A n \in w : \/ ClosedOnRecord(n, p)
                     \/ h # Nothing /\ h.index = n
                     \/ \E k \in w : k > n
    BY <1>3, <1>5 DEF Local, Retaining
  <2>5. Retaining(p, place, h, o2, w)
    BY <1>3, <2>2, <2>4, PlaceSets DEF Local, Retaining
  <2>6. Trials(p, place, h, l, m) /\ Reporting(place, m)
    BY <1>3, <2>2, PlaceSets DEF Local, Trials, Reporting
  <2>7. pc'[p] # "episode" /\ pc'[p] \notin Arriving /\ Local(p, place, h, o2, w, l, m)
    BY <2>2, <2>3, <2>5, <2>6, PlaceSets DEF Local
  <2>8. QED
    BY <1>2, <2>3, <2>7, QuietSession
<1>6. QED
  BY <1>4, <1>5

LEMMA AnnounceAbortSession ==
    ASSUME SessionInv, SampleInv, NEW p \in Process, AnnounceAbort(p)
    PROVE  SessionInv'
<1>1. PICK h, o, w, l, m : Mine(p, h, o, w, l, m)
  BY HasMine
<1>2. PICK n, ok, bad : n \in {1, 2} /\ n = 1 /\ ok = "abort" /\ bad = "abort unannounced"
  OBVIOUS
<1>3. PICK name, receipts : name = Abort(o.index) /\ receipts = {Configuration}
  OBVIOUS
<1>4. /\ UNCHANGED <<job, trial, handle, opening, owned, loaded, me, calls>> /\ pc[p] = "announce abort"
      /\ Observe(p, name, n, receipts, ok, bad)
  BY <1>1, <1>2, <1>3 DEF AnnounceAbort, At, childVars, sessionVars, Mine
<1>5. Local(p, "announce abort", h, o, w, l, m)
  BY <1>1, <1>4 DEF Mine
<1>6. o.index \in Index
  BY <1>5, PlaceSets DEF Local, Retaining, Openings
<1>7. name \in Rows /\ name \notin {Execution, Report} /\ \A k : name # Startup(k)
  BY <1>3, <1>6, ShutdownName
<1>8. /\ Ledger' /\ Grown /\ rows'[Execution] = rows[Execution] /\ Startups' = Startups
      /\ DOMAIN pc' = Process /\ pc'[p] \in {ok, bad} /\ \A q \in Process \ {p} : pc'[q] = pc[q]
  BY <1>2, <1>7, <1>4, WriteFacts
<1>9. Local(p, "announce abort", h, o, w, l, m)'
  BY <1>4, <1>5, <1>8, LocalStays DEF SessionInv
<1>10. PICK place : place = pc'[p] /\ place \in {"abort", "abort unannounced"}
  BY <1>2, <1>8
<1>11. /\ Only(p) /\ h = handle'[p] /\ o = opening'[p] /\ w = owned'[p] /\ l = loaded'[p] /\ m = me'[p]
  BY <1>1, <1>4, <1>8 DEF Only, SessionInv, SessionTables, SampleInv, Tables, Mine
<1>12. Local(p, place, h, o, w, l, m)'
  BY <1>9, <1>10, PlaceSets DEF Local, Retaining, Trials, Reporting
<1>13. pc'[p] # "episode" /\ pc'[p] \notin Arriving
  BY <1>10, PlaceSets
<1>14. QED
  BY <1>4, <1>8, <1>10, <1>11, <1>12, <1>13, WriteKeeps

LEMMA AbortSessionSession ==
    ASSUME SessionInv, SampleInv, NEW p \in Process, AbortSession(p)
    PROVE  SessionInv'
<1>1. PICK h, o, w, l, m : Mine(p, h, o, w, l, m)
  BY HasMine
<1>2. UNCHANGED <<rows, job, trial, handle, owned, loaded, me, calls>> /\ pc[p] \in {"abort", "abort unannounced"}
  BY DEF AbortSession, childVars
<1>3. PICK old : old = pc[p] /\ Local(p, old, h, o, w, l, m)
  BY <1>1 DEF Mine
<1>4. o # Nothing /\ o \in Openings /\ o.built
  BY <1>2, <1>3, PlaceSets DEF Local, Retaining
<1>5. PICK place, o2 :
         /\ Goto(p, place) /\ place \in {"publish abort", "idle"}
         /\ \/ opening' = [opening EXCEPT ![p].closed = TRUE] /\ o2 = [o EXCEPT !.closed = TRUE]
            \/ UNCHANGED opening /\ o2 = o
  BY DEF AbortSession
<1>6. o2 = o \/ (o2 \in Openings /\ o2.index = o.index /\ o2.built = o.built)
  BY <1>4, <1>5 DEF Openings
<1>7. /\ Only(p) /\ place = pc'[p] /\ h = handle'[p] /\ o2 = opening'[p] /\ w = owned'[p]
      /\ l = loaded'[p] /\ m = me'[p]
  BY <1>1, <1>2, <1>5 DEF Only, Goto, SessionInv, SessionTables, SampleInv, Tables, Mine
<1>8. Local(p, place, h, o2, w, l, m)
  <2>1. Local(p, place, h, o, w, l, m)
    BY <1>3, <1>4, <1>5, PlaceSets DEF Local, Retaining, Trials, Reporting
  <2>2. QED
    BY <1>4, <1>6, <2>1, SameSession
<1>9. pc'[p] # "episode" /\ pc'[p] \notin Arriving
  BY <1>5, <1>7, PlaceSets
<1>10. QED
  BY <1>2, <1>7, <1>8, <1>9, QuietSession

LEMMA PublishAbortSession ==
    ASSUME SessionInv, SampleInv, NEW p \in Process, PublishAbort(p)
    PROVE  SessionInv'
<1>1. PICK h, o, w, l, m : Mine(p, h, o, w, l, m)
  BY HasMine
<1>2. PICK name, receipts :
         receipts = {Configuration, Receipt("aborted", <<o.index, p>>)} /\ name = Abort(o.index)
  OBVIOUS
<1>3. PICK ok, bad : ok = "aborted" /\ bad = "idle"
  OBVIOUS
<1>4. /\ UNCHANGED <<job, trial, handle, owned, loaded, me, calls>> /\ pc[p] = "publish abort"
      /\ Observe(p, name, 2, receipts, ok, bad)
      /\ opening' = [opening EXCEPT ![p] = IF pc'[p] = ok THEN Nothing ELSE @]
  BY <1>1, <1>2, <1>3 DEF PublishAbort, At, childVars, Mine
<1>5. Local(p, "publish abort", h, o, w, l, m)
  BY <1>1, <1>4 DEF Mine
<1>6. o.index \in Index
  BY <1>5, PlaceSets DEF Local, Retaining, Openings
<1>7. name \in Rows /\ name \notin {Execution, Report} /\ \A k : name # Startup(k)
  BY <1>2, <1>6, ShutdownName
<1>8. /\ Ledger' /\ Grown /\ rows'[Execution] = rows[Execution] /\ Startups' = Startups
      /\ DOMAIN pc' = Process /\ pc'[p] \in {ok, bad} /\ \A q \in Process \ {p} : pc'[q] = pc[q]
      /\ pc'[p] = ok => Newest(name)' = receipts
  <2>1. ok # bad
    BY <1>3
  <2>2. Observe(p, name, 2, receipts, ok, bad)
    BY <1>4
  <2>3. \A k : name = Startup(k) => k \in Startups
    BY <1>7
  <2>4. QED
    BY <1>7, <2>1, <2>2, <2>3, WriteOutcome
<1>9. Local(p, "publish abort", h, o, w, l, m)'
  BY <1>4, <1>5, <1>8, LocalStays DEF SessionInv
<1>10. PICK place, o2 :
          /\ place = pc'[p] /\ place \in {"aborted", "idle"}
          /\ o2 = IF place = ok THEN Nothing ELSE o
  BY <1>3, <1>8
<1>11. /\ Only(p) /\ place = pc'[p] /\ h = handle'[p] /\ o2 = opening'[p] /\ w = owned'[p]
       /\ l = loaded'[p] /\ m = me'[p]
  BY <1>1, <1>4, <1>8, <1>10 DEF Only, SessionInv, SessionTables, SampleInv, Tables, Mine
<1>12. Local(p, place, h, o, w, l, m)'
  BY <1>9, <1>10, PlaceSets DEF Local, Retaining, Trials, Reporting
<1>13. Local(p, place, h, o2, w, l, m)'
  BY <1>2, <1>8, <1>10, <1>3, <1>12, PlaceSets DEF Newest, ClosedOnRecord, Local, Retaining
<1>14. pc'[p] # "episode" /\ pc'[p] \notin Arriving
  BY <1>10, PlaceSets
<1>15. QED
  BY <1>4, <1>8, <1>11, <1>13, <1>14, WriteKeeps

LEMMA AbortedSession ==
    ASSUME SessionInv, SampleInv, NEW p \in Process, Aborted(p)
    PROVE  SessionInv'
<1>1. PICK h, o, w, l, m : Mine(p, h, o, w, l, m)
  BY HasMine
<1>2. UNCHANGED <<rows, job, trial, handle, opening, owned, loaded, me, calls>> /\ Goto(p, "idle")
  BY DEF Aborted, childVars, sessionVars
<1>3. PICK place : place = "idle"
  OBVIOUS
<1>4. Local(p, place, h, o, w, l, m) /\ place # "episode" /\ place \notin Arriving
  BY <1>1, <1>3, LocalLeaves, PlaceSets DEF Mine
<1>5. QED
  BY <1>1, <1>2, <1>3, <1>4, PlaceSession

-----------------------------------------------------------------------------
(* The steps: the report.                                                  *)

\* The execution a call reports is of a session that started and ran everything.
LEMMA ExecutionNamed ==
    ASSUME SessionInv, NEW e \in Index \X Process, rows[Execution] = <<{Receipt("execution", e)}>>
    PROVE  /\ e[1] \in Index /\ Len(rows[Startup(e[1])]) = 2
           /\ \A g \in Group : Len(rows[Activation(e[1], g)]) = 2
           /\ \A t \in Trial : trial[t].state = "completed"
<1>1. rows[Execution] # <<>>
  OBVIOUS
<1>2. PICK n \in Index, q \in Process :
         /\ rows[Execution] = <<{Receipt("execution", <<n, q>>)}>>
         /\ Len(rows[Startup(n)]) = 2
         /\ \A g \in Group : Len(rows[Activation(n, g)]) = 2
  BY <1>1 DEF SessionInv, Frozen
<1>3. e = <<n, q>>
  <2>1. \A x, y : <<x>> = <<y>> => x = y
    OBVIOUS
  <2>2. {Receipt("execution", e)} = {Receipt("execution", <<n, q>>)}
    BY <1>2, <2>1
  <2>3. Receipt("execution", e) = Receipt("execution", <<n, q>>)
    BY <2>2
  <2>4. QED
    BY <2>3 DEF Receipt
<1>4. e[1] = n
  BY <1>3
<1>5. QED
  BY <1>1, <1>2, <1>4 DEF SessionInv, Frozen

LEMMA CheckSession ==
    ASSUME SessionInv, SampleInv, NEW p \in Process, Check(p)
    PROVE  SessionInv'
<1>1. PICK h, o, w, l, m : Mine(p, h, o, w, l, m)
  BY HasMine
<1>2. UNCHANGED <<rows, job, trial, handle, opening, owned, loaded, me, calls>> /\ pc[p] = "check"
  BY DEF Check, At, childVars, sessionVars
<1>3. PICK place : place = IF Settled THEN "report" ELSE "idle"
  OBVIOUS
<1>4. Local(p, "check", h, o, w, l, m)
  BY <1>1, <1>2 DEF Mine
<1>5. Settled => Len(rows[Shutdown(m.execution[1])]) = 2
  BY <1>4, PlaceSets, ExecutionNamed DEF Local, Reporting, Settled
<1>6. Local(p, place, h, o, w, l, m)
  BY <1>3, <1>4, <1>5, PlaceSets DEF Local, Retaining, Trials, Reporting
<1>7. place # "episode" /\ place \notin Arriving
  BY <1>3, PlaceSets
<1>8. Goto(p, place)
  BY <1>3 DEF Check
<1>9. QED
  BY <1>1, <1>2, <1>6, <1>7, <1>8, PlaceSession

LEMMA OneReport ==
    ASSUME NEW s, IsRow(s), Len(s) <= 1, s # <<>> \/ 1 <= Len(s)
    PROVE  Len(s) = 1
<1>1. PICK S : s \in Seq(S)
  BY DEF IsRow
<1>2. Len(s) \in Nat /\ (Len(s) = 0 => s = <<>>)
  BY <1>1, EmptySeq
<1>3. \A k \in Nat : k <= 1 => k = 0 \/ k = 1
  OBVIOUS
<1>4. ~(1 <= 0)
  OBVIOUS
<1>5. QED
  BY <1>2, <1>3, <1>4

LEMMA AccountReportSession ==
    ASSUME SessionInv, SampleInv, NEW p \in Process, AccountReport(p)
    PROVE  SessionInv'
<1>1. PICK h, o, w, l, m : Mine(p, h, o, w, l, m)
  BY HasMine
<1>2. /\ UNCHANGED <<job, trial, handle, opening, owned, loaded, me, calls>> /\ pc[p] = "report"
  BY DEF AccountReport, At, childVars, sessionVars
<1>3. PICK place : place = pc'[p]
  OBVIOUS
<1>4. Local(p, "report", h, o, w, l, m)
  BY <1>1, <1>2 DEF Mine
<1>5. /\ Ledger' /\ Grown /\ rows'[Execution] = rows[Execution] /\ Startups' = Startups
      /\ DOMAIN pc' = Process /\ pc'[p] \in {"gather", "idle"} /\ \A q \in Process \ {p} : pc'[q] = pc[q]
      /\ pc'[p] = "gather" => Len(rows'[Report]) = 1
  <2>1. CASE rows[Report] # <<>>
    BY <2>1, RowNames, OneReport, LedgerStays DEF AccountReport, SessionInv, Ledger, Startups,
       Goto, SampleInv, Tables
  <2>2. CASE rows[Report] = <<>>
    <3>1. PICK n, ok, bad : n \in {1, 2} /\ n = 1 /\ ok = "gather" /\ bad = "idle"
      OBVIOUS
    <3>2. PICK name, receipts : name = Report /\ receipts = {Receipt("execution", m.execution)}
      OBVIOUS
    <3>3. Observe(p, name, n, receipts, ok, bad)
      BY <1>1, <2>2, <3>1, <3>2 DEF AccountReport, Mine
    <3>4. name \in Rows /\ n \in {1, 2} /\ name # Execution /\ ok # bad /\ (name = Report => n = 1)
      BY <3>1, <3>2, RowNames, DistinctNames
    <3>5. \A k : name = Startup(k) => k \in Startups
      BY <3>2, DistinctNames
    <3>6. /\ Ledger' /\ Grown /\ rows'[Execution] = rows[Execution] /\ Startups' = Startups
          /\ DOMAIN pc' = Process /\ pc'[p] \in {ok, bad} /\ \A q \in Process \ {p} : pc'[q] = pc[q]
          /\ pc'[p] = ok => n <= Len(rows'[name])
      BY <3>3, <3>4, <3>5, WriteFacts
    <3>7. IsRow(rows'[Report]) /\ Len(rows'[Report]) <= 1
      BY <3>6, RowNames DEF Ledger
    <3>8. 1 <= Len(rows'[Report]) => Len(rows'[Report]) = 1
      BY <3>7, OneReport
    <3>9. pc'[p] = "gather" => 1 <= Len(rows'[Report])
      BY <3>1, <3>2, <3>6
    <3>10. QED
      BY <3>1, <3>6, <3>8, <3>9
  <2>3. QED
    BY <2>1, <2>2
<1>6. Local(p, "report", h, o, w, l, m)'
  BY <1>2, <1>4, <1>5, LocalStays DEF SessionInv
<1>7. /\ Only(p) /\ h = handle'[p] /\ o = opening'[p] /\ w = owned'[p] /\ l = loaded'[p] /\ m = me'[p]
  BY <1>1, <1>2, <1>5 DEF Only, SessionInv, SessionTables, SampleInv, Tables, Mine
<1>8. Local(p, place, h, o, w, l, m)'
  BY <1>3, <1>5, <1>6, PlaceSets DEF Local, Retaining, Trials, Reporting
<1>9. pc'[p] # "episode" /\ pc'[p] \notin Arriving
  BY <1>5, PlaceSets
<1>10. QED
  BY <1>2, <1>3, <1>5, <1>7, <1>8, <1>9, WriteKeeps

LEMMA GatherSession ==
    ASSUME SessionInv, SampleInv, NEW p \in Process, Gather(p)
    PROVE  SessionInv'
<1>1. PICK h, o, w, l, m : Mine(p, h, o, w, l, m)
  BY HasMine
<1>2. UNCHANGED <<rows, job, trial, handle, opening, owned, loaded, calls>> /\ pc[p] = "gather"
  BY DEF Gather, At, childVars, sessionVars
<1>3. PICK place, m2 : place = "complete" /\ m2 = [m EXCEPT !.seen = Account]
  OBVIOUS
<1>4. Local(p, "gather", h, o, w, l, m)
  BY <1>1, <1>2 DEF Mine
<1>5. /\ Only(p) /\ place = pc'[p] /\ h = handle'[p] /\ o = opening'[p] /\ w = owned'[p]
      /\ l = loaded'[p] /\ m2 = me'[p]
  BY <1>1, <1>2, <1>3 DEF Gather, Goto, Only, SessionInv, SessionTables, SampleInv, Tables, Mine
<1>6. Local(p, place, h, o, w, l, m2)
  BY <1>3, <1>4, PlaceSets DEF Local, Trials, CallFields, Retaining, Reporting
<1>7. pc'[p] # "episode" /\ pc'[p] \notin Arriving
  BY <1>3, <1>5, PlaceSets
<1>8. QED
  BY <1>2, <1>5, <1>6, <1>7, QuietSession

LEMMA CompleteSession ==
    ASSUME SessionInv, SampleInv, NEW p \in Process, Complete(p)
    PROVE  SessionInv'
<1>1. PICK h, o, w, l, m : Mine(p, h, o, w, l, m)
  BY HasMine
<1>2. UNCHANGED <<rows, trial, handle, opening, owned, loaded, me, calls>> /\ pc[p] = "complete" /\ Goto(p, "idle")
  BY DEF Complete, At, childVars, sessionVars, Call
<1>3. PICK place : place = "idle"
  OBVIOUS
<1>4. Local(p, "complete", h, o, w, l, m)
  BY <1>1, <1>2 DEF Mine
<1>5. job' = job \/ job' = [state |-> "completed", execution |-> m.execution, bound |-> Account]
  BY <1>1 DEF Complete, Call, Mine
<1>6. /\ Only(p) /\ place = pc'[p] /\ h = handle'[p] /\ o = opening'[p] /\ w = owned'[p]
      /\ l = loaded'[p] /\ m = me'[p]
  BY <1>1, <1>2, <1>3, <1>5 DEF Goto, Only, SessionInv, SessionTables, SampleInv, Tables, Mine
<1>7. Ledger' /\ Grown /\ Startups' = Startups
  BY <1>2, LedgerStays DEF SessionInv, Startups
<1>8. Local(p, place, h, o, w, l, m)'
  BY <1>3, <1>4, <1>2, <1>7, LocalLeaves, LocalStays DEF SessionInv
<1>9. ReportBindsExecution'
  <2>1. CASE job' = job
    BY <1>2, <1>7, <2>1, ReportStays
  <2>2. CASE job' = [state |-> "completed", execution |-> m.execution, bound |-> Account]
    <3>1. PICK e, n : e = m.execution /\ n = e[1]
      OBVIOUS
    <3>2. /\ e \in Index \X Process /\ rows[Execution] = <<{Receipt("execution", e)}>>
          /\ Len(rows[Shutdown(n)]) = 2 /\ Len(rows[Report]) = 1
      BY <1>4, <3>1, PlaceSets DEF Local, Reporting
    <3>3. /\ n \in Index /\ Len(rows[Startup(n)]) = 2
          /\ \A g \in Group : Len(rows[Activation(n, g)]) = 2
          /\ \A t \in Trial : trial[t].state = "completed"
      BY <3>1, <3>2, ExecutionNamed
    <3>4. \A r \in Rows : /\ Len(rows[r]) = 2 => <<r, 2>> \in Account
                          /\ Len(rows[r]) = 1 => <<r, 1>> \in Account
      BY DEF Account
    <3>5. Len(rows[Execution]) = 1
      BY <3>2
    <3>6. {<<Startup(n), 2>>, <<Shutdown(n), 2>>, <<Execution, 1>>, <<Report, 1>>} \subseteq Account
      BY <3>2, <3>3, <3>4, <3>5, RowNames
    <3>7. {<<Activation(n, g), 2>> : g \in Group} \subseteq Account
      BY <3>3, <3>4, RowNames
    <3>8. job'.execution = e /\ job'.bound = Account /\ job'.execution[1] = n
      BY <2>2, <3>1
    <3>9. QED
      BY <1>2, <3>2, <3>3, <3>6, <3>7, <3>8 DEF ReportBindsExecution
  <2>3. QED
    BY <1>5, <2>1, <2>2
<1>10. place # "episode" /\ place \notin Arriving
  BY <1>3, PlaceSets
<1>11. Frozen' /\ Sampling' /\ TrialsStand(p)
  BY <1>2, <1>6, <1>7, <1>10, FrozenStays, SamplingStays DEF TrialsStand
<1>12. Counted'
  BY <1>2, <1>6, <1>7, <1>10, CountedStays DEF Only
<1>13. QED
  BY <1>6, <1>7, <1>8, <1>9, <1>11, <1>12, SessionKeeps

\* A process that retains nothing and is at no place.
LEMMA IdleLocal ==
    ASSUME NEW p, NEW m, DOMAIN m = CallFields, m.next = 1, m.then = "raise"
    PROVE  Local(p, "idle", Nothing, Nothing, {}, Nothing, m)
<1>1. "idle" \notin Arriving \cup Holding \cup Opening \cup Aborting \cup Trying \cup Settling
  BY PlaceSets
<1>2. Retaining(p, "idle", Nothing, Nothing, {})
  BY <1>1 DEF Retaining
<1>3. Trials(p, "idle", Nothing, Nothing, m)
  <2>1. m.next \in Nat
    OBVIOUS
  <2>2. QED
    BY <1>1, <2>1, PlaceSets DEF Trials
<1>4. Reporting("idle", m)
  BY <1>1, PlaceSets DEF Reporting
<1>5. QED
  BY <1>2, <1>3, <1>4 DEF Local

LEMMA CrashSession ==
    ASSUME SessionInv, SampleInv, NEW p \in Process, Crash(p)
    PROVE  SessionInv'
<1>1. PICK h, o, w, l, m : Mine(p, h, o, w, l, m)
  BY HasMine
<1>2. UNCHANGED <<rows, job, calls>> /\ Turn(p) = m.next
  BY <1>1 DEF Crash, Turn, Mine
<1>3. Ledger' /\ Grown /\ Startups' = Startups
  BY <1>2, LedgerStays DEF SessionInv, Startups
<1>4. PICK place, h2, o2, w2, l2, m2 :
        place = "idle" /\ h2 = Nothing /\ o2 = Nothing /\ w2 = {} /\ l2 = Nothing /\ m2 = Idle
  OBVIOUS
<1>5. /\ Only(p) /\ place = pc'[p] /\ h2 = handle'[p] /\ o2 = opening'[p] /\ w2 = owned'[p]
      /\ l2 = loaded'[p] /\ m2 = me'[p]
  BY <1>2, <1>4 DEF Crash, Goto, Only, SessionInv, SessionTables, SampleInv, Tables
<1>6. /\ TrialsStand(p)
      /\ \A t \in Trial : trial[t].state = "completed" => trial'[t].state = "completed"
      /\ \A t \in Trial : /\ trial'[t].session = trial[t].session /\ trial'[t].arm = trial[t].arm
                          /\ trial[t].state = "absent" => trial'[t].state = "absent"
  <2>1. CASE UNCHANGED trial
    BY <2>1 DEF TrialsStand
  <2>2. CASE pc[p] = "episode" /\ trial' = [trial EXCEPT ![m.next].state = "frozen"]
    <3>1. m.next \in Trial /\ trial[m.next].state = "running"
      BY <1>1, <2>2, PlaceSets DEF Mine, Local, Trials
    <3>2. /\ trial'[m.next].session = trial[m.next].session /\ trial'[m.next].arm = trial[m.next].arm
          /\ \A u \in Trial : u # m.next => trial'[u] = trial[u]
      BY <2>2, <3>1 DEF SampleInv, Tables
    <3>3. \A q \in Process \ {p} : pc[q] = "episode" => Turn(q) # m.next
      BY <1>2, <2>2 DEF SessionInv, Sampling
    <3>4. ASSUME NEW q \in Process \ {p}, pc[q] = "episode" PROVE Turn(q) \in Trial
      BY <3>4, PlaceSets DEF SessionInv, Local, Trials, Turn
    <3>5. QED
      BY <3>1, <3>2, <3>3, <3>4 DEF TrialsStand
  <2>3. QED
    BY <1>2, <2>1, <2>2 DEF Crash, At
<1>7. Local(p, place, h2, o2, w2, l2, m2)'
  BY <1>4, <1>3, <1>6, IdleLocal, LocalStays DEF Idle, CallFields, SessionInv
<1>8. place # "episode" /\ place \notin Arriving
  BY <1>4, PlaceSets
<1>9. Frozen' /\ Sampling' /\ ReportBindsExecution'
  BY <1>2, <1>3, <1>5, <1>8, <1>6, FrozenStays, SamplingStays, ReportStays
<1>10. Counted'
  BY <1>2, <1>3, <1>5, <1>8, CountedStays DEF Only
<1>11. QED
  BY <1>3, <1>5, <1>7, <1>6, <1>9, <1>10, SessionKeeps

-----------------------------------------------------------------------------
(* The session's theorems.                                                 *)

LEMMA SessionInitial == Init => SessionInv
<1> SUFFICES ASSUME Init PROVE SessionInv
  OBVIOUS
<1>1. Ledger
  BY RowNames DEF IsRow, Init, Ledger
<1>2. Counted
  <2>1. Coming = {}
    BY DEF Init, Coming, Arriving
  <2>2. Startups = {}
    BY RowNames DEF Init, Startups
  <2>3. Cardinality({}) = 0 /\ IsFiniteSet({})
    BY FS_EmptySet
  <2>4. 1..0 = {} /\ 0 + 0 <= 0 /\ 0 \in 0..MaxCalls
    BY PlanAssumption
  <2>5. QED
    BY <2>1, <2>2, <2>3, <2>4 DEF Init, Counted
<1>3. SessionTables /\ Frozen /\ Sampling /\ ReportBindsExecution
  BY RowNames DEF Init, SessionTables, Frozen, Sampling, ReportBindsExecution
<1>4. ASSUME NEW p \in Process
      PROVE  Local(p, pc[p], handle[p], opening[p], owned[p], loaded[p], me[p])
  BY IdleLocal DEF Init, Idle, CallFields
<1>5. QED
  BY <1>1, <1>2, <1>3, <1>4 DEF SessionInv

LEMMA SessionStep == SessionInv /\ SampleInv /\ [Next]_vars => SessionInv'
<1> SUFFICES ASSUME SessionInv, SampleInv, [Next]_vars PROVE SessionInv'
  OBVIOUS
<1>1. CASE UNCHANGED vars
  <2>1. UNCHANGED <<rows, pc, trial, job, handle, opening, owned, loaded, me, calls>>
    BY <1>1 DEF vars, ledgerVars, childVars, sessionVars
  <2>2. Ledger' /\ Grown /\ Startups' = Startups
    BY <2>1, LedgerStays DEF SessionInv, Startups
  <2>3. Counted' /\ SessionTables'
    BY <2>1, <2>2 DEF SessionInv, Counted, Coming, SessionTables
  <2>4. Frozen' /\ ReportBindsExecution'
    BY <2>1, <2>2, FrozenStays, ReportStays
  <2>5. Sampling'
    BY <2>1 DEF SessionInv, Sampling, Activated, Newest, Turn
  <2>6. ASSUME NEW q \in Process
        PROVE  Local(q, pc[q], handle[q], opening[q], owned[q], loaded[q], me[q])'
    <3>1. PICK place, h, o, w, l, m :
             /\ place = pc[q] /\ h = handle[q] /\ o = opening[q]
             /\ w = owned[q] /\ l = loaded[q] /\ m = me[q]
      OBVIOUS
    <3>2. Local(q, place, h, o, w, l, m)
      BY <3>1 DEF SessionInv
    <3>3. place = "episode" => trial'[m.next].state = "running"
      BY <2>1, <3>2, PlaceSets DEF Local, Trials
    <3>4. Local(q, place, h, o, w, l, m)'
      BY <2>1, <2>2, <3>2, <3>3, LocalStays DEF SessionInv
    <3>5. QED
      BY <2>1, <3>1, <3>4 DEF Local
  <2>7. QED
    BY <2>2, <2>3, <2>4, <2>5, <2>6 DEF SessionInv
<1>2. ASSUME NEW p \in Process, Open(p) PROVE SessionInv'
  BY <1>2, ChooseSession, CheckKeySession, AnnounceStartupSession, ConstructSession,
     PublishStartupSession DEF Open
<1>3. ASSUME NEW p \in Process, RunTrials(p) PROVE SessionInv'
  BY <1>3, AnnounceActivationSession, ActivateSession, PublishActivationSession, RunTrialSession,
     EpisodeSession, FreezeSession DEF RunTrials
<1>4. ASSUME NEW p \in Process, CloseSession(p) PROVE SessionInv'
  BY <1>4, AnnounceShutdownSession, ShutSession, PublishShutdownSession, AfterCloseSession,
     CloseStartupSession, AnnounceAbortSession, AbortSessionSession, PublishAbortSession,
     AbortedSession DEF CloseSession
<1>5. ASSUME NEW p \in Process,
             \/ Evaluate(p) \/ Claim(p) \/ Recover(p) \/ Find(p) \/ CloseService(p)
             \/ Check(p) \/ AccountReport(p) \/ Gather(p) \/ Complete(p) \/ Crash(p)
      PROVE  SessionInv'
  BY <1>5, EnterSession, FindSession, CloseServiceSession, CheckSession, AccountReportSession,
     GatherSession, CompleteSession, CrashSession
<1>6. ASSUME NEW t \in Trial, RecoverTrial(t) PROVE SessionInv'
  BY <1>6, RecoverTrialSession
<1>7. QED
  BY <1>1, <1>2, <1>3, <1>4, <1>5, <1>6 DEF Next

LEMMA SessionInvariant == Spec => []SessionInv
<1> QED BY SessionInitial, SessionStep, SampleInitial, SampleStep, PTL DEF Spec

\* Every trial is sampled with its own group's policy, and that activation is on record: a
\* call activates before it runs, and nothing loads another arm into its session meanwhile.
THEOREM SampledUnderOwnArm == Spec => []SampledUnderItsArm
<1>1. SessionInv => SampledUnderItsArm
  <2> SUFFICES ASSUME SessionInv, NEW t \in Trial, trial[t].state # "absent"
               PROVE  /\ trial[t].arm = Plan[t]
                      /\ Receipt("activated", trial[t].session)
                            \in Newest(Activation(trial[t].session[1], Plan[t]))
    BY DEF SampledUnderItsArm
  <2>1. PICK n \in Index, p \in Process : trial[t].session = <<n, p>> /\ Activated(n, p, Plan[t])
    BY DEF SessionInv, Sampling
  <2>2. trial[t].session[1] = n
    BY <2>1
  <2>3. QED
    BY <2>1, <2>2 DEF SessionInv, Sampling, Activated
<1> QED BY <1>1, SessionInvariant, PTL

\* A completed evaluation reports the execution that was frozen and accounts its session's
\* startup, activations and shutdown; and no session is dropped before its shutdown is on
\* record unless the process has started another since.
THEOREM SessionsStayAccounted == Spec => []SessionsAccounted
<1>1. SessionInv => SessionsAccounted
  <2> SUFFICES ASSUME SessionInv, NEW p \in Process, NEW n \in owned[p]
               PROVE  \/ ClosedOnRecord(n, p) \/ Retains(p, n)
                      \/ \E m \in owned[p] : m > n
    BY DEF SessionInv, SessionsAccounted, RetainedUntilReplaced
  <2>1. \/ ClosedOnRecord(n, p)
        \/ handle[p] # Nothing /\ handle[p].index = n
        \/ opening[p] # Nothing /\ opening[p].index = n
        \/ \E m \in owned[p] : m > n
    BY DEF SessionInv, Local, Retaining
  <2>2. QED
    BY <2>1 DEF Retains
<1> QED BY <1>1, SessionInvariant, PTL
=============================================================================

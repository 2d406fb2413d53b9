---------------------------- MODULE GradePipeline ----------------------------
(***************************************************************************)
(* pipeline/grading.py around grading/service.py: one grade of a           *)
(* submission is a job of one attempt.  The worker runs once; what it      *)
(* returned, or could not publish, is linked in the job's row, then frozen *)
(* and accounted.  No lock is taken: recoveries and retries interleave.    *)
(* A publication that is pending is known by the number of runtime records *)
(* left before the grade's own receipt.  The measured costs are the same   *)
(* in every revision but the first and are left out.                       *)
(***************************************************************************)
EXTENDS JobControl

CONSTANT MaxRecords     \* runtime records a worker may fail to publish

VARIABLES runs,         \* times the worker graded the submission
          verdict       \* what it found

gradeVars == <<runs, verdict>>
vars == <<controlVars, gradeVars>>

Grade == <<"grade", 0>>
Request == Receipt("request", 0)
PendingGrade(n) == Receipt("pending", n)
Original == Receipt("original", 0)
FrozenGrade == Receipt("frozen", 0)

Linked == Newest(Grade) \ {Request}
Working(left) == [holds |-> {}, left |-> left, seen |-> 0]

Init ==
    /\ rows = [j \in {Grade} |-> <<>>]
    /\ pc = [p \in Process |-> "idle"]
    /\ faults = 0
    /\ job = [j \in {Grade} |-> Absent]
    /\ me = [p \in Process |-> Nothing]
    /\ retained = [p \in Process |-> Nothing]
    /\ calls = 0
    /\ runs = 0
    /\ verdict = "none"

--------------------------------------------------------------------------
(* grade *)

StartGrade(p) ==
    /\ job[Grade].state \in {"absent", "queued"}
    /\ Begin(p, "enqueue", Working(0))
    /\ UNCHANGED <<rows, faults, job, retained, gradeVars>>

Enqueue(p) ==
    /\ At(p, "enqueue")
    /\ Enqueued(p, Grade, "claim")
    /\ UNCHANGED <<rows, me, retained, calls, gradeVars>>

Claim(p) ==
    /\ At(p, "claim")
    /\ Claimed(p, Grade, "intent")
    /\ UNCHANGED <<rows, me, retained, calls, gradeVars>>

Intent(p) ==
    /\ At(p, "intent")
    /\ Extended(p, Grade, {Request}, "worker", "idle")
    /\ UNCHANGED <<job, me, retained, calls, gradeVars>>

\* GradingService.grade: a verdict that is published, or pending with the runtime
\* records that could not be; any other end of the worker leaves the outcome unknown.
RunWorker(p) ==
    /\ At(p, "worker")
    /\ runs' = runs + 1
    /\ \/ /\ verdict' \in {"accepted", "rejected"}
          /\ \/ Goto(p, "record") /\ UNCHANGED <<faults, me>>
             \/ /\ faults < MaxFaults /\ faults' = faults + 1
                /\ Goto(p, "retain")
                /\ \E n \in 0..MaxRecords : me' = [me EXCEPT ![p].left = n]
       \/ Goto(p, "idle") /\ UNCHANGED <<faults, me, verdict>>
    /\ UNCHANGED <<rows, job, retained, calls>>

--------------------------------------------------------------------------
(* retain_pending, recover_pending: the publication the worker could not make. *)

Upstream(p) == [kind |-> "upstream", left |-> me[p].left]

\* The costs first, then the publication itself; failing that it is kept in memory.
RetainPending(p) ==
    /\ At(p, "retain")
    /\ Extended(p, Grade, {Request}, "retain link", "idle")
    /\ Retains(p, Upstream(p))
    /\ UNCHANGED <<job, me, calls, gradeVars>>

\* Linked or not, the call ends with the pending publication in its exception.
RetainLink(p) ==
    /\ At(p, "retain link")
    /\ Extended(p, Grade, {PendingGrade(me[p].left)}, "idle", "idle")
    /\ Retains(p, Upstream(p))
    /\ UNCHANGED <<job, me, calls, gradeVars>>

\* retry_publication of the service: the records in their order, then the receipt.
Republish(p) ==
    /\ At(p, "republish")
    /\ \/ Goto(p, "record") /\ UNCHANGED <<faults, me>>
       \/ /\ faults < MaxFaults /\ faults' = faults + 1
          /\ Goto(p, "retain")
          /\ \E n \in 0..me[p].left : me' = [me EXCEPT ![p].left = n]
    /\ UNCHANGED <<rows, job, retained, calls, gradeVars>>

--------------------------------------------------------------------------
(* record, publish *)

\* The measured costs, then the original result.
Record(p) ==
    /\ At(p, "record")
    /\ IF job[Grade].state = "completed" THEN Ends(p) /\ UNCHANGED retained
       ELSE /\ Extended(p, Grade, {Request}, "record original", "idle")
            /\ Retains(p, [kind |-> "result", left |-> 0])
            /\ UNCHANGED job
    /\ UNCHANGED <<me, calls, gradeVars>>

RecordOriginal(p) ==
    /\ At(p, "record original")
    /\ Extended(p, Grade, {Original}, "publish", "idle")
    /\ Retains(p, [kind |-> "result", left |-> 0])
    /\ UNCHANGED <<job, me, calls, gradeVars>>

Publishable == Original \in Newest(Grade)

\* The revision observed is the one the completion names.
Publish(p) ==
    /\ At(p, "publish")
    /\ IF job[Grade].state = "completed" \/ ~Publishable
       THEN Ends(p) /\ UNCHANGED <<me, retained>>
       ELSE /\ Extended(p, Grade, {FrozenGrade}, "complete", "idle")
            /\ Retains(p, [kind |-> "frozen", left |-> 0])
            /\ me' = [me EXCEPT ![p].seen = Len(rows'[Grade])]
            /\ UNCHANGED job
    /\ UNCHANGED <<calls, gradeVars>>

Complete(p) ==
    /\ At(p, "complete")
    /\ Completed(p, Grade, Grade, me[p].seen, verdict, "idle")
    /\ UNCHANGED <<rows, me, retained, calls, gradeVars>>

--------------------------------------------------------------------------
(* recover, retry_publication *)

\* Mutant: without an outcome the worker runs again.
RecoverOrGrade ==
    IF {Original, FrozenGrade} \cap Linked # {} THEN "publish"
    ELSE IF Linked # {} THEN "republish" ELSE "worker"

RecoverAt ==
    IF {Original, FrozenGrade} \cap Linked # {} THEN "publish"
    ELSE IF Linked # {} THEN "republish" ELSE "idle"

\* The last publication linked: the one with the fewest records left is the newest.
LastPending == CHOOSE n \in 0..MaxRecords :
    /\ PendingGrade(n) \in Linked
    /\ \A m \in 0..MaxRecords : PendingGrade(m) \in Linked => n <= m

Recover(p) ==
    /\ job[Grade].state = "running" /\ RecoverAt # "idle"
    /\ Begin(p, RecoverAt, Working(IF RecoverAt = "republish" THEN LastPending ELSE 0))
    /\ UNCHANGED <<rows, faults, job, retained, gradeVars>>

\* A retained result is recorded, a frozen grade published; of a publication pending
\* upstream only the claim is used, and what the registry links to it.
RetryPublication(p) ==
    /\ retained[p] # Nothing
    /\ job[Grade].state = "running"
    /\ Begin(p, CASE retained[p].kind = "result" -> "record"
                  [] retained[p].kind = "frozen" -> "publish"
                  [] OTHER -> RecoverAt,
             Working(IF RecoverAt = "republish" THEN LastPending ELSE 0))
    /\ UNCHANGED <<rows, faults, job, retained, gradeVars>>

--------------------------------------------------------------------------

Next == \E p \in Process :
    \/ StartGrade(p) \/ Enqueue(p) \/ Claim(p) \/ Intent(p) \/ RunWorker(p)
    \/ RetainPending(p) \/ RetainLink(p) \/ Republish(p)
    \/ Record(p) \/ RecordOriginal(p) \/ Publish(p) \/ Complete(p)
    \/ Recover(p) \/ RetryPublication(p)
    \/ Crash(p) /\ UNCHANGED gradeVars

Spec == Init /\ [][Next]_vars

--------------------------------------------------------------------------

\* The worker grades a submission once, however often its job is recovered or retried.
GradedOnce == runs <= 1

\* The completion is the worker's verdict, accounted with the original result that
\* says so and with what was frozen of it.
GradeBindsOriginal ==
    job[Grade].state = "completed" =>
        /\ verdict # "none" /\ job[Grade].result = verdict
        /\ {Request, Original, FrozenGrade} \subseteq job[Grade].bound

\* What the code says of a publication it could not link: that retaining it is enough
\* to finish the grade.  Its retry never ends where it began.
RetainedIsRetried == [][\A p \in Process : RetryPublication(p) => ~At(p, "idle")']_vars
=============================================================================

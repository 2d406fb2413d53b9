------------------------------ MODULE Authoring ------------------------------
(***************************************************************************)
(* pipeline/authoring.py over generation/provider.py and                   *)
(* requirements/service.py: a candidate's authoring calls.  One call is    *)
(* one job of one attempt: intent, the model's run, its archives, the      *)
(* journal, the frozen receipt, the completion.  The receipt is frozen in  *)
(* the row of the provider's archives (m6-generation).                     *)
(*                                                                         *)
(* Of the provider's archives the three that matter are kept: "attempt"    *)
(* before the run, "cost", and "status", the last, which names all others. *)
(* A status published by the call itself and one published by a replay     *)
(* differ.  Two executions of a call freeze receipts that differ (their    *)
(* time), numbered by stamp.                                               *)
(***************************************************************************)
EXTENDS JobControl, FiniteSetsExt

CONSTANTS Batch,        \* [call -> [candidate, lane, limit]], the calls a batch may see
          Caps,         \* [candidate |-> units, batch |-> units]
          AttemptsPerRole,
          Overrun       \* units a run may use beyond its limit

VARIABLES runs,         \* runs[c]: times the model was run for call c
          outcome,      \* outcome[c]: what the run of c is worth
          stamps        \* stamps[c]: receipts ever built for c

authoringVars == <<runs, outcome, stamps>>
vars == <<controlVars, authoringVars>>

Calls == DOMAIN Batch
Candidate(c) == Batch[c].candidate
BatchLock == <<"batch", 0>>
CandidateLock(c) == <<"candidate", Candidate(c)>>

Request == Receipt("request", 0)
Attempt == Receipt("attempt", 0)
Cost == Receipt("cost", 0)
Fresh == Receipt("status", "fresh")
Replayed == Receipt("status", "replayed")
Frozen(status, stamp) == Receipt("receipt", <<status, stamp>>)

Receipts(c) == {r \in Newest(c) : r[1] = "receipt"}

\* archived_outcome: the last status on record, a replay being later than the call.
LastStatus(c) == IF Replayed \in Newest(c) THEN Replayed
                 ELSE IF Fresh \in Newest(c) THEN Fresh ELSE Nothing

Working(c, holds) == [call |-> c, holds |-> holds, status |-> Nothing, replay |-> FALSE,
                      receipt |-> Nothing, seen |-> 0]

Init ==
    /\ rows = [c \in Calls |-> <<>>]
    /\ pc = [p \in Process |-> "idle"]
    /\ faults = 0
    /\ job = [c \in Calls |-> Absent]
    /\ me = [p \in Process |-> Nothing]
    /\ retained = [p \in Process |-> Nothing]
    /\ calls = 0
    /\ runs = [c \in Calls |-> 0]
    /\ outcome = [c \in Calls |-> [accepted |-> FALSE, used |-> 0]]
    /\ stamps = [c \in Calls |-> 0]

--------------------------------------------------------------------------
(* author: under the batch's lock and the candidate's. *)

\* Mutant: the batch is not locked, as it is not for recover and retry.
CandidateLockOnly(c) == {CandidateLock(c)}

AuthorLocks(c) == {BatchLock, CandidateLock(c)}

Author(p, c) ==
    /\ \A lock \in AuthorLocks(c) : Free(p, lock)
    /\ Begin(p, "look up", Working(c, AuthorLocks(c)))
    /\ UNCHANGED <<rows, faults, job, retained, authoringVars>>

Known == {c \in Calls : job[c].state # "absent"}

\* A reservation is never refunded; a larger measured use raises it.
Charge(c) == IF Cost \in Newest(c) /\ outcome[c].used > Batch[c].limit
             THEN outcome[c].used ELSE Batch[c].limit

Total(S) == MapThenSumSet(Charge, S)

\* check_budget: the candidate's ceilings and the batch's, the new call included.
WithinBudget(c) ==
    /\ Batch[c].limit + Total({d \in Known : Candidate(d) = Candidate(c)}) <= Caps.candidate
    /\ Batch[c].limit + Total(Known) <= Caps.batch

Siblings(c) == {d \in Known \ {c} : Candidate(d) = Candidate(c)}

\* Mutant: an earlier call that is not reconciled does not stand in the way.
MayEnqueueAnyway(c) ==
    /\ Cardinality({d \in Siblings(c) : Batch[d].lane = Batch[c].lane}) < AttemptsPerRole
    /\ WithinBudget(c)

MayEnqueue(c) ==
    /\ \A d \in Siblings(c) : job[d].state = "completed"
    /\ Cardinality({d \in Siblings(c) : Batch[d].lane = Batch[c].lane}) < AttemptsPerRole
    /\ WithinBudget(c)

\* A call on record is replayed, resumed when it has no attempt, or left to recover.
LookUp(p) ==
    LET c == me[p].call IN
    /\ At(p, "look up")
    /\ Goto(p, IF job[c].state = "queued" THEN "claim"
               ELSE IF c \notin Known /\ MayEnqueue(c) THEN "enqueue" ELSE "idle")
    /\ UNCHANGED <<rows, faults, job, me, retained, calls, authoringVars>>

Enqueue(p) ==
    /\ At(p, "enqueue")
    /\ Enqueued(p, me[p].call, "claim")
    /\ UNCHANGED <<rows, me, retained, calls, authoringVars>>

Claim(p) ==
    /\ At(p, "claim")
    /\ Claimed(p, me[p].call, "intent")
    /\ UNCHANGED <<rows, me, retained, calls, authoringVars>>

\* dispatch: no provider call before the intent is confirmed.
Intent(p) ==
    /\ At(p, "intent")
    /\ Extended(p, me[p].call, {Request}, "attempt", "idle")
    /\ UNCHANGED <<job, me, retained, calls, authoringVars>>

--------------------------------------------------------------------------
(* CodexGenerationProvider.generate and the archives it publishes. *)

Pending(kind, p) == [kind |-> kind, call |-> me[p].call, receipt |-> me[p].receipt]

Archives(p, receipt, ok) ==
    /\ Extended(p, me[p].call, {receipt}, ok, "idle")
    /\ Retains(p, Pending("provider", p))
    /\ UNCHANGED <<job, calls, authoringVars>>

\* The attempt is registered before the model runs; failing that it never runs.
ArchiveAttempt(p) ==
    /\ At(p, "attempt")
    /\ Archives(p, Attempt, "run")
    /\ UNCHANGED me

\* The model runs; its answer is worth a contract or not, and it may use more than
\* its limit, which is looked at afterwards.
RunModel(p) ==
    LET c == me[p].call IN
    /\ At(p, "run")
    /\ Goto(p, "cost")
    /\ runs' = [runs EXCEPT ![c] = @ + 1]
    /\ \E accepted \in BOOLEAN, used \in 1..Batch[c].limit + Overrun :
          /\ accepted => used <= Batch[c].limit
          /\ outcome' = [outcome EXCEPT ![c] = [accepted |-> accepted, used |-> used]]
    /\ UNCHANGED <<rows, faults, job, me, retained, calls, stamps>>

ArchiveCost(p) ==
    /\ At(p, "cost")
    /\ Archives(p, Cost, "status")
    /\ UNCHANGED me

ArchiveStatus(p) ==
    LET status == IF me[p].replay THEN Replayed ELSE Fresh IN
    /\ At(p, "status")
    /\ Archives(p, status, "journal")
    /\ me' = [me EXCEPT ![p].status = status]

--------------------------------------------------------------------------
(* ContractAuthoringService.generate after the model, execute, publish. *)

\* The journal names the provider's record; its publication may fail, with the
\* artifact's.
Journal(p) ==
    LET c == me[p].call IN
    /\ At(p, "journal")
    /\ \/ /\ Goto(p, "select") /\ UNCHANGED <<faults, retained>>
          /\ me' = [me EXCEPT ![p].receipt = Frozen(me[p].status, stamps[c] + 1)]
          /\ stamps' = [stamps EXCEPT ![c] = @ + 1]
       \/ /\ faults < MaxFaults /\ faults' = faults + 1
          /\ Goto(p, "idle") /\ UNCHANGED <<me, stamps>>
          /\ retained' = [retained EXCEPT ![p] =
                [Pending(IF outcome[c].accepted THEN "artifact" ELSE "journal", p)
                    EXCEPT !.receipt = me[p].status]]
    /\ UNCHANGED <<rows, job, calls, runs, outcome>>

\* publish: the receipt selected already is this one, and the archived outcome is the
\* one its journal names.
Publishable(c, receipt) ==
    /\ Receipts(c) \subseteq {receipt}
    /\ receipt[2][1] = LastStatus(c)

Select(p) ==
    LET c == me[p].call IN
    /\ At(p, "select")
    /\ Goto(p, IF job[c].state = "completed" \/ ~Publishable(c, me[p].receipt) THEN "idle"
               ELSE IF Receipts(c) = {} THEN "freeze" ELSE "gather")
    /\ UNCHANGED <<rows, faults, job, me, retained, calls, authoringVars>>

Freeze(p) ==
    /\ At(p, "freeze")
    /\ Extended(p, me[p].call, {me[p].receipt}, "gather", "idle")
    /\ Retains(p, Pending("receipt", p))
    /\ UNCHANGED <<job, me, calls, authoringVars>>

Gather(p) ==
    /\ At(p, "gather")
    /\ Goto(p, "complete")
    /\ me' = [me EXCEPT ![p].seen = Len(rows[me[p].call])]
    /\ UNCHANGED <<rows, faults, job, retained, calls, authoringVars>>

Complete(p) ==
    /\ At(p, "complete")
    /\ Completed(p, me[p].call, me[p].call, me[p].seen, me[p].receipt, "idle")
    /\ UNCHANGED <<rows, me, retained, calls, authoringVars>>

--------------------------------------------------------------------------
(* recover, retry. *)

\* Mutant: without a status the model is asked again.
RecoverOrRedispatch(c) ==
    IF Receipts(c) # {} THEN "select"
    ELSE IF LastStatus(c) # Nothing THEN "journal" ELSE "run"

RecoverAt(c) ==
    IF Receipts(c) # {} THEN "select"
    ELSE IF LastStatus(c) # Nothing THEN "journal" ELSE "idle"

\* A frozen receipt is published; else the archived outcome is used, never the model.
Recover(p, c) ==
    /\ job[c].state = "running"
    /\ Free(p, CandidateLock(c))
    /\ \E receipt \in IF Receipts(c) = {} THEN {Nothing} ELSE Receipts(c) :
          Begin(p, RecoverAt(c), [Working(c, {CandidateLock(c)}) EXCEPT
                                     !.status = LastStatus(c), !.receipt = receipt])
    /\ UNCHANGED <<rows, faults, job, retained, authoringVars>>

\* retry: the provider's archives from the first that is missing.  The publication of
\* a retained receipt takes no lock.
Resume(c) == IF Attempt \notin Newest(c) THEN "attempt again"
             ELSE IF Cost \notin Newest(c) THEN "cost" ELSE "status"

Retry(p) ==
    /\ retained[p] # Nothing
    /\ LET kind == retained[p].kind
           c == retained[p].call
           holds == IF kind = "receipt" THEN {} ELSE {CandidateLock(c)}
           memory == Working(c, holds)
       IN
       /\ job[c].state = "running"
       /\ \A lock \in holds : Free(p, lock)
       /\ \/ /\ kind = "provider"
             /\ Begin(p, Resume(c), [memory EXCEPT !.replay = TRUE])
          \/ /\ kind \in {"artifact", "journal"}
             /\ Begin(p, "journal", [memory EXCEPT !.status =
                         IF kind = "artifact" THEN retained[p].receipt ELSE LastStatus(c)])
          \/ /\ kind = "receipt"
             /\ Begin(p, "select", [memory EXCEPT !.receipt = retained[p].receipt])
    /\ UNCHANGED <<rows, faults, job, retained, authoringVars>>

\* The replay of a call whose attempt was not registered: it failed without a run.
ArchiveAttemptAgain(p) ==
    /\ At(p, "attempt again")
    /\ Archives(p, Attempt, "cost")
    /\ UNCHANGED me

--------------------------------------------------------------------------

Next == \E p \in Process :
    \/ \E c \in Calls : Author(p, c) \/ Recover(p, c)
    \/ LookUp(p) \/ Enqueue(p) \/ Claim(p) \/ Intent(p)
    \/ ArchiveAttempt(p) \/ RunModel(p) \/ ArchiveCost(p) \/ ArchiveStatus(p)
    \/ Journal(p) \/ Select(p) \/ Freeze(p) \/ Gather(p) \/ Complete(p)
    \/ Retry(p) \/ ArchiveAttemptAgain(p)
    \/ Crash(p) /\ UNCHANGED authoringVars

Spec == Init /\ [][Next]_vars

--------------------------------------------------------------------------

\* A call reaches the model at most once, however often it is recovered or retried.
DispatchedOnce == \A c \in Calls : runs[c] <= 1

\* Whole ceilings are reserved before a call is queued: what the batch and each of its
\* candidates have admitted fits, whoever admitted it.
BudgetReserved ==
    LET Limits(S) == MapThenSumSet(LAMBDA c : Batch[c].limit, S)
    IN /\ Limits(Known) <= Caps.batch
       /\ \A k \in {Candidate(c) : c \in Calls} :
             Limits({c \in Known : Candidate(c) = k}) <= Caps.candidate

\* A candidate has at most one call that is not reconciled.
OneCallOpen == \A c, d \in Calls :
    Open(c) /\ Open(d) /\ Candidate(c) = Candidate(d) => c = d

\* A completed call is accounted with its receipt, and the receipt with the status of
\* the provider's record it was made from.
CompletionBindsReceipt == \A c \in Calls :
    job[c].state = "completed" =>
        /\ job[c].result \in job[c].bound
        /\ {Request, Cost, job[c].result[2][1]} \subseteq job[c].bound

\* What the code says of a frozen result: that it can be recovered.
FrozenRecoverable == \A c \in Calls :
    job[c].state = "running" => \A r \in Receipts(c) : Publishable(c, r)
=============================================================================

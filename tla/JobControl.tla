----------------------------- MODULE JobControl -----------------------------
(***************************************************************************)
(* What the controllers of the Factory have in common: jobs of one attempt *)
(* in the registry, controllers that hold file locks while a call of       *)
(* theirs runs (pipeline/locking.py) and that keep, in memory, what the    *)
(* exception of a failed publication retained.                             *)
(***************************************************************************)
EXTENDS JobLedger

CONSTANTS MaxCalls,     \* calls of the controllers
          Nothing

VARIABLES job,          \* per job: its registry state and what its completion accounts
          me,           \* per process: the memory of its call
          retained,     \* per process: what its last failed publication retained
          calls

controlVars == <<ledgerVars, job, me, retained, calls>>

Absent == [state |-> "absent", result |-> Nothing, bound |-> {}]

\* flock, exclusive, without waiting: it dies with its process and ends with the call.
Free(p, lock) == {q \in Process \ {p} : ~At(q, "idle") /\ lock \in me[q].holds} = {}

Open(j) == job[j].state \in {"queued", "running"}

\* A call of p begins at a label with this memory.
Begin(p, label, memory) ==
    /\ At(p, "idle")
    /\ calls < MaxCalls /\ calls' = calls + 1
    /\ Goto(p, label)
    /\ me' = [me EXCEPT ![p] = memory]

\* enqueue answers with the job as it is; only a queued one is claimed next.
Enqueued(p, j, ok) ==
    IF job[j].state \in {"absent", "queued"}
    THEN Call(p, job' = [job EXCEPT ![j].state = "queued"], UNCHANGED job, ok, "idle")
    ELSE Goto(p, "idle") /\ UNCHANGED <<job, faults>>

\* claim with a key of its own: only a queued job has an attempt left.
Claimed(p, j, ok) ==
    IF job[j].state = "queued"
    THEN Call(p, job' = [job EXCEPT ![j].state = "running"], UNCHANGED job, ok, "idle")
    ELSE Goto(p, "idle") /\ UNCHANGED <<job, faults>>

\* Mutant: a revision holds what is new, not what was on record.
Replaced(p, name, receipts, ok, bad) ==
    Call(p, rows' = [rows EXCEPT ![name] = Append(@, receipts)], UNCHANGED rows, ok, bad)

\* observe of a cumulative row: what is on record and these receipts, as the next
\* revision.  A row that moved between the read and the write is a failed call.
Extended(p, name, receipts, ok, bad) ==
    Call(p, rows' = [rows EXCEPT ![name] = Append(@, Newest(name) \cup receipts)],
         UNCHANGED rows, ok, bad)

\* complete: the accounting must still be the one that was gathered.
Completed(p, j, name, seen, result, ok) ==
    IF job[j].state = "running" /\ Len(rows[name]) = seen
    THEN Call(p, job' = [job EXCEPT ![j] = [state |-> "completed", result |-> result,
                                            bound |-> Newest(name)]],
              UNCHANGED job, ok, "idle")
    ELSE Goto(p, "idle") /\ UNCHANGED <<job, faults>>

\* The call of p ends, returning or raising.
Ends(p) == Goto(p, "idle") /\ UNCHANGED <<rows, faults, job>>

\* What p retains when its call just failed, and keeps otherwise.
Retains(p, what) ==
    retained' = IF pc'[p] = "idle" THEN [retained EXCEPT ![p] = what] ELSE retained

\* The process dies: memory, retained exception and locks are gone.
Crash(p) ==
    /\ ~At(p, "idle") \/ retained[p] # Nothing
    /\ faults < MaxFaults /\ faults' = faults + 1
    /\ Goto(p, "idle")
    /\ retained' = [retained EXCEPT ![p] = Nothing]
    /\ UNCHANGED <<rows, job, me, calls>>
=============================================================================

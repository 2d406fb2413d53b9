-------------------------- MODULE RegistryStorage --------------------------
(***************************************************************************)
(* feature_rl/registry/storage.py: how controllers share a directory that  *)
(* holds a lock file, an SQLite database (the authority) and a JSONL       *)
(* journal (its projection).  Every call opens a session: look at the      *)
(* directory, wait for the lock, create what is missing, recover, build    *)
(* and commit one event, project it, answer.  The two files share no       *)
(* transaction, so a crash or an I/O error may come between any two steps. *)
(*                                                                         *)
(* Abstracted: an event is its semantic key and its data; what the index   *)
(* does with it is Registry.  A fingerprint stands for equal contents of   *)
(* the two files (the code compares inode, size and times).  A crash ends  *)
(* a process, not the machine: written bytes stay written.                 *)
(***************************************************************************)
EXTENDS Naturals, Sequences

CONSTANTS Client, Event, Read, None, MaxEvents,
          Garbled,      \* bytes that are no event's line
          MaxCrashes, MaxFaults, MaxDamages

ASSUME StorageAssumption ==
    /\ \A e \in Event : {"key", "data"} \subseteq DOMAIN e
    /\ Read \notin Event
    /\ None \notin Client \cup Event \cup {Read}
    /\ MaxEvents \in Nat
    /\ Garbled \notin Event
    /\ MaxCrashes \in Nat
    /\ MaxFaults \in Nat
    /\ MaxDamages \in Nat

VARIABLES
    files,      \* which of FILES exist; "schema" once the tables do
    hot,        \* index.sqlite3-journal exists: a transaction is under way
    committed,  \* table events
    ack,        \* meta.acknowledged
    lines,      \* complete lines of events.jsonl
    tail,       \* the event whose line is there in part, or None
    lock,       \* holder of the flock on registry.lock
    pc,         \* where the session of a client stands
    listed,     \* the client saw index.sqlite3-journal in the directory
    local,      \* the events the session works on
    cache,      \* _verified_snapshot
    call, answer,
    crashes, faults, damages

disk == <<files, hot, committed, ack, lines, tail>>
failures == <<crashes, faults, damages>>
session == <<pc, listed, local, cache>>
vars == <<files, hot, committed, ack, lines, tail, lock, pc, listed, local, cache,
          call, answer, crashes, faults, damages>>

Keys(s) == {s[i].key : i \in DOMAIN s}
Elements(s) == {s[i] : i \in DOMAIN s}
Prefix(s, t) == Len(s) <= Len(t) /\ s = SubSeq(t, 1, Len(s))

NoAnswer == [kind |-> "none", seen |-> 0]

\* Mutant: only the journal's file is looked at.
FingerprintJournalOnly == <<lines, tail>>

\* The contents fingerprint() tells apart.
Fingerprint == <<committed, ack, lines, tail>>

Fingerprints == Seq(Event) \X Nat \X Seq(Event) \X (Event \cup {None, Garbled})

ASSUME SnapshotAssumption == None \notin Fingerprints

NoSnapshot == [print |-> None, events |-> <<>>]

\* Mutant: the whole line is written after the part that is already there.
LineAfterTailWhole(part, event) == IF part = None THEN event ELSE Garbled

\* project() writes only what is missing of the line that was cut off.
LineAfterTail(part, event) == event

\* Mutant: the call answers as soon as its event is committed.
AfterCommitAnswered == "done"

\* JSONL publication happens after the authoritative commit, and before the answer.
AfterCommit == "project"

\* Mutant: the events are acknowledged before they are in the journal.
WrittenAlways(c) == TRUE

\* Everything the session knows is in the journal.
Written(c) == Len(lines) = Len(local[c])

\* Mutant: the lock is given up by whoever ends, holder or not.
LockAfterAlways(c) == None

\* Closing the file descriptor drops the lock of its holder.
LockAfter(c) == IF lock = c THEN None ELSE lock

\* Mutant: the lock is polled without a deadline.
DeadlineNever(c) == FALSE

\* Time may always run out while another session holds the lock.
DeadlinePassed(c) == lock # None

-----------------------------------------------------------------------------
Init ==
    /\ files = {}
    /\ hot = FALSE
    /\ committed = <<>>
    /\ ack = 0
    /\ lines = <<>>
    /\ tail = None
    /\ lock = None
    /\ pc = [c \in Client |-> "idle"]
    /\ listed = [c \in Client |-> FALSE]
    /\ local = [c \in Client |-> <<>>]
    /\ cache = [c \in Client |-> NoSnapshot]
    /\ call = [c \in Client |-> None]
    /\ answer = [c \in Client |-> NoAnswer]
    /\ crashes = 0
    /\ faults = 0
    /\ damages = 0

Goto(c, label) == pc' = [pc EXCEPT ![c] = label]

\* The session ends: open transactions roll back and the lock is released.
Finish(c, kind, seen) ==
    /\ Goto(c, "idle")
    /\ call' = [call EXCEPT ![c] = None]
    /\ answer' = [answer EXCEPT ![c] = [kind |-> kind, seen |-> seen]]
    /\ local' = [local EXCEPT ![c] = <<>>]
    /\ listed' = [listed EXCEPT ![c] = FALSE]
    /\ lock' = LockAfter(c)

Submit(c, request) ==
    /\ pc[c] = "idle"
    /\ call' = [call EXCEPT ![c] = request]
    /\ answer' = [answer EXCEPT ![c] = NoAnswer]
    /\ Goto(c, "list")
    /\ UNCHANGED <<disk, lock, listed, local, cache, failures>>

\* The first shape() runs before the lock is taken: os.listdir, then os.stat of
\* every name.  The writer's transaction file may vanish in between.
List(c) ==
    /\ pc[c] = "list"
    /\ listed' = [listed EXCEPT ![c] = hot]
    /\ Goto(c, "stat")
    /\ UNCHANGED <<disk, lock, local, cache, call, answer, failures>>

Stat(c) ==
    /\ pc[c] = "stat"
    /\ \/ /\ listed[c] /\ ~hot
          /\ Finish(c, "error", 0)
          /\ UNCHANGED <<disk, cache, failures>>
       \/ /\ listed[c] => hot
          /\ files' = files \cup {"lock"}
          /\ Goto(c, "wait")
          /\ UNCHANGED <<hot, committed, ack, lines, tail, lock, listed, local, cache,
                         call, answer, failures>>

Acquire(c) ==
    /\ pc[c] = "wait"
    /\ lock = None
    /\ lock' = c
    /\ Goto(c, "open")
    /\ UNCHANGED <<disk, listed, local, cache, call, answer, failures>>

Timeout(c) ==
    /\ pc[c] = "wait"
    /\ DeadlinePassed(c)
    /\ Finish(c, "error", 0)
    /\ UNCHANGED <<disk, cache, failures>>

Blocked(c) == Finish(c, "integrity", 0) /\ UNCHANGED <<disk, cache, failures>>

CreateJournal(c) ==
    /\ pc[c] = "open"
    /\ "journal" \notin files
    /\ IF "schema" \in files THEN Blocked(c)
       ELSE /\ files' = files \cup {"journal"}
            /\ UNCHANGED <<hot, committed, ack, lines, tail, lock, session, call, answer, failures>>

CreateDatabase(c) ==
    /\ pc[c] = "open"
    /\ "journal" \in files /\ "database" \notin files
    /\ IF lines # <<>> \/ tail # None THEN Blocked(c)
       ELSE /\ files' = files \cup {"database"}
            /\ UNCHANGED <<hot, committed, ack, lines, tail, lock, session, call, answer, failures>>

\* The first read of the database rolls a transaction back that a crash left open.
RollBack(c) ==
    /\ pc[c] = "open"
    /\ hot
    /\ hot' = FALSE
    /\ Goto(c, "open")
    /\ UNCHANGED <<files, committed, ack, lines, tail, lock, listed, local, cache,
                   call, answer, failures>>

\* initialize(): the tables are created in one transaction.
CreateTables(c) ==
    /\ pc[c] = "open"
    /\ {"journal", "database"} \subseteq files /\ ~hot
    /\ "schema" \notin files
    /\ IF lines # <<>> \/ tail # None THEN Blocked(c)
       ELSE /\ hot' = TRUE
            /\ Goto(c, "tables")
            /\ UNCHANGED <<files, committed, ack, lines, tail, lock, listed, local, cache,
                           call, answer, failures>>

CommitTables(c) ==
    /\ pc[c] = "tables"
    /\ hot' = FALSE
    /\ files' = files \cup {"schema"}
    /\ Goto(c, "open")
    /\ UNCHANGED <<committed, ack, lines, tail, lock, listed, local, cache,
                   call, answer, failures>>

\* recovered(): the snapshot verified last is still what the files hold ...
Reuse(c) ==
    /\ pc[c] = "open"
    /\ "schema" \in files /\ ~hot
    /\ cache[c].print = Fingerprint
    /\ local' = [local EXCEPT ![c] = cache[c].events]
    /\ Goto(c, "build")
    /\ UNCHANGED <<disk, lock, listed, cache, call, answer, failures>>

\* ... or, also when only the files' times changed, the history is loaded again.
Load(c) ==
    /\ pc[c] = "open"
    /\ "schema" \in files /\ ~hot
    /\ local' = [local EXCEPT ![c] = committed]
    /\ Goto(c, "recover")
    /\ UNCHANGED <<disk, lock, listed, cache, call, answer, failures>>

Projecting(c) == pc[c] \in {"recover", "project"}

\* project(): what the journal holds must be what was committed.
Projectable(c) ==
    /\ ack <= Len(lines)
    /\ Prefix(lines, local[c])
    /\ tail # None => Len(lines) < Len(local[c]) /\ local[c][Len(lines) + 1] = tail

Refuse(c) ==
    /\ Projecting(c)
    /\ ~Projectable(c)
    /\ Blocked(c)

WritePart(c) ==
    /\ Projecting(c) /\ Projectable(c)
    /\ Len(lines) < Len(local[c]) /\ tail = None
    /\ tail' = local[c][Len(lines) + 1]
    /\ UNCHANGED <<files, hot, committed, ack, lines, lock, session, call, answer, failures>>

WriteLine(c) ==
    /\ Projecting(c) /\ Projectable(c)
    /\ Len(lines) < Len(local[c])
    /\ lines' = Append(lines, LineAfterTail(tail, local[c][Len(lines) + 1]))
    /\ tail' = None
    /\ UNCHANGED <<files, hot, committed, ack, lock, session, call, answer, failures>>

\* The journal is fsynced and the database takes note of it in a transaction.
Acknowledge(c) ==
    /\ Projecting(c) /\ Projectable(c)
    /\ Written(c) /\ ~hot
    /\ hot' = TRUE
    /\ UNCHANGED <<files, committed, ack, lines, tail, lock, session, call, answer, failures>>

\* remember() follows the commit of the acknowledgement.
CommitAcknowledgement(c) ==
    /\ Projecting(c) /\ hot
    /\ hot' = FALSE
    /\ ack' = Len(local[c])
    /\ Goto(c, IF pc[c] = "recover" THEN "build" ELSE "done")
    /\ UNCHANGED <<files, committed, lines, tail, lock, listed, local, call, answer, failures>>
    /\ cache' = [cache EXCEPT ![c] = [print |-> Fingerprint', events |-> local[c]]]

\* A read answers from the recovered history; so does a key that is in it already.
Answered(c) ==
    /\ pc[c] = "build"
    /\ \/ call[c] = Read \/ call[c] \in Elements(local[c])
    /\ Finish(c, "ok", Len(local[c]))
    /\ UNCHANGED <<disk, cache, failures>>

Reused(c) ==
    /\ pc[c] = "build"
    /\ call[c] \in Event /\ call[c].key \in Keys(local[c]) /\ call[c] \notin Elements(local[c])
    /\ Finish(c, "conflict", Len(local[c]))
    /\ UNCHANGED <<disk, cache, failures>>

Full(c) ==
    /\ pc[c] = "build"
    /\ call[c] \in Event /\ call[c].key \notin Keys(local[c])
    /\ Len(local[c]) >= MaxEvents
    /\ Finish(c, "error", 0)
    /\ UNCHANGED <<disk, cache, failures>>

\* persist(): the row is written inside a transaction; the sequence number is a
\* primary key, so a row that exists already is an error.
Insert(c) ==
    /\ pc[c] = "build"
    /\ call[c] \in Event /\ call[c].key \notin Keys(local[c])
    /\ Len(local[c]) < MaxEvents
    /\ IF Len(committed) # Len(local[c])
       THEN Finish(c, "error", 0) /\ UNCHANGED <<disk, cache, failures>>
       ELSE /\ hot' = TRUE
            /\ local' = [local EXCEPT ![c] = Append(@, call[c])]
            /\ Goto(c, "insert")
            /\ UNCHANGED <<files, committed, ack, lines, tail, lock, listed, cache,
                           call, answer, failures>>

CommitEvent(c) ==
    /\ pc[c] = "insert"
    /\ hot' = FALSE
    /\ committed' = local[c]
    /\ Goto(c, AfterCommit)
    /\ UNCHANGED <<files, ack, lines, tail, lock, listed, local, cache, call, answer, failures>>

Answer(c) ==
    /\ pc[c] = "done"
    /\ Finish(c, "ok", Len(local[c]))
    /\ UNCHANGED <<disk, cache, failures>>

-----------------------------------------------------------------------------
(* Failures.                                                               *)

\* An operating-system or SQLite error: the session's `finally` closes the
\* connection (which rolls back) and the lock; the snapshot stays as it was.
Fault(c) ==
    /\ faults < MaxFaults
    /\ pc[c] # "idle"
    /\ faults' = faults + 1
    /\ hot' = (hot /\ lock # c)
    /\ Finish(c, "error", 0)
    /\ UNCHANGED <<files, committed, ack, lines, tail, cache, crashes, damages>>

\* The process dies: the kernel drops its lock, an open transaction stays on disk.
Crash(c) ==
    /\ crashes < MaxCrashes
    /\ crashes' = crashes + 1
    /\ Goto(c, "idle")
    /\ call' = [call EXCEPT ![c] = None]
    /\ answer' = IF call[c] = None THEN answer
                 ELSE [answer EXCEPT ![c] = [kind |-> "error", seen |-> 0]]
    /\ local' = [local EXCEPT ![c] = <<>>]
    /\ listed' = [listed EXCEPT ![c] = FALSE]
    /\ cache' = [cache EXCEPT ![c] = NoSnapshot]
    /\ lock' = LockAfter(c)
    /\ UNCHANGED <<disk, faults, damages>>

\* Someone damages the journal while no session runs: the file is removed, its last
\* line is lost, or bytes that are no event follow it.  (The database is the
\* authority: its loss is not modelled.)
DamageJournal ==
    /\ damages < MaxDamages
    /\ lock = None
    /\ "journal" \in files
    /\ damages' = damages + 1
    /\ \/ files' = files \ {"journal"} /\ lines' = <<>> /\ tail' = None
       \/ lines # <<>> /\ lines' = SubSeq(lines, 1, Len(lines) - 1) /\ UNCHANGED <<files, tail>>
       \/ tail' = Garbled /\ UNCHANGED <<files, lines>>
    /\ UNCHANGED <<hot, committed, ack, lock, session, call, answer, crashes, faults>>

\* What the process does by itself once it was called.
Work(c) ==
    \/ List(c) \/ Stat(c) \/ Acquire(c) \/ Timeout(c)
    \/ CreateJournal(c) \/ CreateDatabase(c) \/ RollBack(c) \/ CreateTables(c) \/ CommitTables(c)
    \/ Reuse(c) \/ Load(c) \/ Refuse(c) \/ WritePart(c) \/ WriteLine(c)
    \/ Acknowledge(c) \/ CommitAcknowledgement(c)
    \/ Answered(c) \/ Reused(c) \/ Full(c) \/ Insert(c) \/ CommitEvent(c) \/ Answer(c)

Next ==
    \/ \E c \in Client :
          \/ \E request \in Event \cup {Read} : Submit(c, request)
          \/ Work(c)
          \/ Fault(c)
          \/ Crash(c)
    \/ DamageJournal

Spec == Init /\ [][Next]_vars

\* The operating system runs every live process on.
FairSpec == Spec /\ \A c \in Client : WF_vars(Work(c))

-----------------------------------------------------------------------------
(* Properties.                                                             *)

Locked == {"open", "tables", "recover", "build", "insert", "project", "done"}

\* Only the holder of the flock works on the two files, whoever times out, fails or
\* dies meanwhile (Storage.session).
OneWriter == \A c \in Client : pc[c] \in Locked <=> lock = c

\* Unless it is damaged, the journal never runs ahead of the database: its complete
\* lines are a prefix of the committed events, a part is of the next one, and only
\* lines that are there are acknowledged (change(), project()).
JournalSound ==
    damages = 0 =>
    /\ ack <= Len(lines)
    /\ Prefix(lines, committed)
    /\ tail # None => Len(lines) < Len(committed) /\ committed[Len(lines) + 1] = tail

\* Whatever crashes and faults leave behind, the next session can recover: no call
\* is ever refused for an inconsistency (the RegistryIntegrityError branches).
NeverBlocked == damages = 0 => \A c \in Client : answer[c].kind # "integrity"

\* An answer other than an error is given only when every committed event is in the
\* journal and acknowledged, also after the journal was damaged: a history that cannot
\* be reconciled blocks every call (interfaces-M6-registry.md "first reconciles the
\* verified projection").
AnswerProjected ==
    [][\A c \in Client : call[c] # None /\ call'[c] = None /\ answer'[c].kind \in {"ok", "conflict"} =>
          lines = committed /\ ack = Len(committed) /\ tail = None]_vars

EL == INSTANCE EventLog WITH
        log <- committed,
        answer <- [c \in Client |-> IF answer[c].kind = "integrity"
                                    THEN [kind |-> "error", seen |-> 0] ELSE answer[c]]

\* The two files behave like one log of events with unique keys: no event is lost,
\* taken twice or read late by a call that answers "ok".
Implements == EL!Spec

\* The lock and the two files at every step of a session (Storage.session, project): one
\* writer, a journal that lags only as it may, and a recovery that is never refused.
Recoverable == OneWriter /\ JournalSound /\ NeverBlocked

\* The answers (Storage.change): those of one log, and given only of what is projected.
LogKept == Implements /\ AnswerProjected

\* Every call ends, also when others keep the lock busy (the deadline in session()).
EveryCallAnswered == \A c \in Client : call[c] # None ~> call[c] = None
=============================================================================

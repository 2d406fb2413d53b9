------------------------------ MODULE EventLog ------------------------------
(***************************************************************************)
(* What feature_rl/registry/storage.py promises its callers: one shared    *)
(* log of events with unique semantic keys.  A call that answers "ok" read *)
(* the whole log, and its event, if it submits one, is in it.  A call that *)
(* answers "error" may have taken effect: the caller recovers and asks     *)
(* again under the same key.                                               *)
(***************************************************************************)
EXTENDS Naturals, Sequences

CONSTANTS
    Client,     \* Storage instances, one per controller process
    Event,      \* events: records with a key and the data submitted under it
    Read,       \* the call that submits nothing (view, recover)
    None,       \* no call
    MaxEvents   \* RegistryLimits.max_events

VARIABLES
    log,        \* the committed events
    call,       \* call[c]: what c asked for and was not answered yet
    answer      \* answer[c]: how the last call of c ended, and how much it saw

vars == <<log, call, answer>>

Keys(s) == {s[i].key : i \in DOMAIN s}
Elements(s) == {s[i] : i \in DOMAIN s}

NoAnswer == [kind |-> "none", seen |-> 0]

Init ==
    /\ log = <<>>
    /\ call = [c \in Client |-> None]
    /\ answer = [c \in Client |-> NoAnswer]

Submit(c, request) ==
    /\ call[c] = None
    /\ call' = [call EXCEPT ![c] = request]
    /\ answer' = [answer EXCEPT ![c] = NoAnswer]
    /\ UNCHANGED log

\* The event takes effect, at most once for its key and never beyond the capacity.
TakeEffect(c) ==
    /\ call[c] \in Event
    /\ call[c].key \notin Keys(log)
    /\ Len(log) < MaxEvents
    /\ log' = Append(log, call[c])
    /\ UNCHANGED <<call, answer>>

Answer(c, kind, seen) ==
    /\ call[c] # None
    /\ call' = [call EXCEPT ![c] = None]
    /\ answer' = [answer EXCEPT ![c] = [kind |-> kind, seen |-> seen]]
    /\ UNCHANGED log

Succeed(c) ==
    /\ call[c] = Read \/ call[c] \in Elements(log)
    /\ Answer(c, "ok", Len(log))

\* The key was used with other data.
Conflict(c) ==
    /\ call[c] \in Event
    /\ call[c].key \in Keys(log) /\ call[c] \notin Elements(log)
    /\ Answer(c, "conflict", Len(log))

\* Refusal, I/O error or the caller's own crash: nothing is known about the event.
Fail(c) == Answer(c, "error", 0)

Next ==
    \E c \in Client :
        \/ \E request \in Event \cup {Read} : Submit(c, request)
        \/ TakeEffect(c)
        \/ Succeed(c)
        \/ Conflict(c)
        \/ Fail(c)

Spec == Init /\ [][Next]_vars
=============================================================================

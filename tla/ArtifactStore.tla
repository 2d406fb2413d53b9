----------------------------- MODULE ArtifactStore -----------------------------
(***************************************************************************)
(* artifacts/store.py: content-addressed files written by several          *)
(* processes.  A put fills a private file, makes it durable, links it to   *)
(* its digest unless the name is taken, and makes the directory durable; a *)
(* process may die, and the machine lose power, between any two calls.     *)
(***************************************************************************)
EXTENDS Naturals, FiniteSets

CONSTANTS Process, Artifact, VisibilityOf, RefsOf, MaxFaults, Nothing

\* A reference names an artifact and claims a visibility for it.
Ref == [to : Artifact, as : {"public", "authoring", "evaluation"}]

\* The trainer is as the evaluator, with a visibility of its own; the reviewer reads as the
\* controller and writes nothing.
ACCESS == [solver |-> {"public"}, author |-> {"public", "authoring"},
           evaluator |-> {"public", "evaluation"},
           controller |-> {"public", "authoring", "evaluation"}]
Role == DOMAIN ACCESS

VARIABLES put, file, named, durable, returned, got, faults

storeVars == <<put, file, named, durable, returned, got, faults>>

Init ==
    /\ put = [p \in Process |-> Nothing]
    /\ file = [p \in Process |-> "none"]
    /\ named = [a \in Artifact |-> "absent"]
    /\ durable = {} /\ returned = {} /\ got = Nothing /\ faults = 0

--------------------------------------------------------------------------
(* A put. *)

\* Public artifacts refer to public ones, authoring ones to those an author may read.
Exposed(a) ==
    LET may == IF VisibilityOf[a] = "public" THEN {"public"} ELSE {"public", "authoring"}
    IN VisibilityOf[a] = "evaluation" \/ \A r \in RefsOf[a] : r.as \in may

Put(p, role, a) ==
    /\ put[p] = Nothing
    /\ VisibilityOf[a] \in ACCESS[role] /\ Exposed(a)
    /\ put' = [put EXCEPT ![p] = a] /\ file' = [file EXCEPT ![p] = "written"]
    /\ UNCHANGED <<named, durable, returned, got, faults>>

Fsync(p) ==
    /\ file[p] = "written" /\ file' = [file EXCEPT ![p] = "synced"]
    /\ UNCHANGED <<put, named, durable, returned, got, faults>>

\* Mutant: the file is linked once its bytes are handed to the system.
LinkableWritten(p) == file[p] \in {"written", "synced"}

Linkable(p) == file[p] = "synced"

Link(p) ==
    /\ put[p] # Nothing /\ Linkable(p) /\ named[put[p]] = "absent"
    /\ named' = [named EXCEPT ![put[p]] = IF file[p] = "synced" THEN "whole" ELSE "cached"]
    /\ file' = [file EXCEPT ![p] = "linked"]
    /\ UNCHANGED <<put, durable, returned, got, faults>>

\* Mutant: an object found in its place is taken to be durable.
NextWhenFound == "done"

\* The directory is made durable for an object found as for one linked.
WhenFound == "linked"

Find(p) ==
    /\ put[p] # Nothing /\ Linkable(p) /\ named[put[p]] # "absent"
    /\ IF named[put[p]] = "torn"
       THEN file' = [file EXCEPT ![p] = "none"] /\ put' = [put EXCEPT ![p] = Nothing]
       ELSE file' = [file EXCEPT ![p] = WhenFound] /\ UNCHANGED put
    /\ UNCHANGED <<named, durable, returned, got, faults>>

SyncDirectory(p) ==
    /\ file[p] = "linked" /\ file' = [file EXCEPT ![p] = "done"]
    /\ durable' = {a \in Artifact : named[a] # "absent"}
    /\ UNCHANGED <<put, named, returned, got, faults>>

Return(p) ==
    /\ file[p] = "done"
    /\ returned' = returned \cup {put[p]}
    /\ put' = [put EXCEPT ![p] = Nothing] /\ file' = [file EXCEPT ![p] = "none"]
    /\ UNCHANGED <<named, durable, got, faults>>

--------------------------------------------------------------------------
(* A read, and the faults. *)

\* Mutant: the envelope is not compared with the reference.
MatchesAnything(r) == TRUE

\* The envelope holds the metadata the reference claims.
Matches(r) == VisibilityOf[r.to] = r.as

Get(role, r) ==
    /\ r.as \in ACCESS[role]
    /\ named[r.to] \in {"whole", "cached"} /\ Matches(r)
    /\ got' = [by |-> role, of |-> r.to]
    /\ UNCHANGED <<put, file, named, durable, returned, faults>>

Crash(p) ==
    /\ put[p] # Nothing /\ faults < MaxFaults /\ faults' = faults + 1
    /\ put' = [put EXCEPT ![p] = Nothing] /\ file' = [file EXCEPT ![p] = "none"]
    /\ UNCHANGED <<named, durable, returned, got>>

\* Names the directory was not synced for may be lost, and bytes only cached are.
PowerLoss ==
    /\ faults < MaxFaults /\ faults' = faults + 1
    /\ put' = [p \in Process |-> Nothing] /\ file' = [p \in Process |-> "none"]
    /\ \E lost \in SUBSET {a \in Artifact : named[a] # "absent" /\ a \notin durable} :
          named' = [a \in Artifact |-> IF a \in lost THEN "absent"
                                       ELSE IF named[a] = "cached" THEN "torn" ELSE named[a]]
    /\ durable' = {a \in Artifact : named'[a] # "absent"}
    /\ UNCHANGED <<returned, got>>

Step(p) ==
    \/ \E role \in Role, a \in Artifact : Put(p, role, a)
    \/ Fsync(p) \/ Link(p) \/ Find(p) \/ SyncDirectory(p) \/ Return(p) \/ Crash(p)

Next ==
    \/ \E p \in Process : Step(p)
    \/ \E role \in Role, r \in Ref : Get(role, r)
    \/ PowerLoss

Spec == Init /\ [][Next]_storeVars

--------------------------------------------------------------------------

\* An object put stays, whole (store.py _put): a name never shows a part of its content,
\* and what a put returned is there after any crash, whoever linked the name.
ContentStands ==
    /\ \A a \in Artifact : named[a] # "torn"
    /\ \A a \in returned : named[a] = "whole"

\* A role has read only what its access lists (store.py _get, _check_exposure), whatever a
\* reference claimed; and a solver or an author may follow every reference of what it read.
ReadAsAllowed ==
    got # Nothing =>
        /\ VisibilityOf[got.of] \in ACCESS[got.by]
        /\ got.by \in {"solver", "author"} => \A r \in RefsOf[got.of] : r.as \in ACCESS[got.by]
=============================================================================
